--------------------------- MODULE EventCronProofs --------------------------
(***************************************************************************)
(* No contract event is skipped and none is enqueued twice, whatever the   *)
(* transactions log, however long the pages and the chain, and whenever    *)
(* blocks, forks and crashes come, as long as no fork takes a transaction  *)
(* the cron has seen; and an event is handed on once, or twice if its job  *)
(* stalled.                                                                *)
(***************************************************************************)
EXTENDS EventCron, FiniteSetTheorems, SequenceTheorems, TLAPS

-----------------------------------------------------------------------------
(* Induction, for sets of natural numbers.                                 *)

\* A set of natural numbers that is not empty has a least one.
LEMMA LeastNumber ==
    ASSUME NEW S \in SUBSET Nat, S # {}
    PROVE  \E m \in S : \A k \in S : m <= k
<1>1. PICK n \in S : TRUE
  OBVIOUS
<1>. DEFINE U == 0 .. n
            T == {0 .. k : k \in {j \in S : j <= n}}
<1>2. IsFiniteSet(U)
  BY <1>1, FS_Interval
<1>3. T \subseteq FiniteSubsetsOf(U) /\ T # {}
  BY <1>1, <1>2, FS_FiniteSubsetsOfFinite
<1>4. PICK x \in T : \A y \in T : <<y, x>> \notin StrictSubsetOrdering(U)
  <2>. HIDE DEF T, U
  <2>. QED
    BY <1>2, <1>3, FS_StrictSubsetOrderingWellFounded, WFMin
<1>5. PICK m \in S : m <= n /\ x = 0 .. m
  BY <1>4
<1>6. ASSUME NEW k \in S, k < m
      PROVE  FALSE
  <2>1. 0 .. k \in T
    BY <1>1, <1>5, <1>6
  <2>2. 0 .. k \subseteq 0 .. m /\ 0 .. k # 0 .. m /\ 0 .. k \subseteq U /\ 0 .. m \subseteq U
    BY <1>1, <1>5, <1>6
  <2>. QED
    BY <1>4, <1>5, <2>1, <2>2 DEF StrictSubsetOrdering
<1>. QED
  BY <1>6

\* A set with 0, and with n + 1 for every n in it, has all natural numbers.
LEMMA Induction ==
    ASSUME NEW S, 0 \in S, \A n \in Nat : n \in S => n + 1 \in S
    PROVE  Nat \subseteq S
<1>. DEFINE T == Nat \ S
<1>. SUFFICES ASSUME T # {} PROVE FALSE
  OBVIOUS
<1>1. PICK m \in T : \A k \in T : m <= k
  BY LeastNumber
<1>2. m # 0 /\ m - 1 \in Nat /\ m - 1 \notin T
  BY <1>1
<1>. QED
  BY <1>1, <1>2

-----------------------------------------------------------------------------
(* FlattenSeq: its recursion, and from that what it yields.                *)

\* f flattens the first n members of s, one more at a time.
Flattens(f, s, n) ==
    f = [k \in 1 .. n |-> IF k = 1 THEN s[k] ELSE f[k - 1] \o s[k]]

\* There is such an f for every n.
LEMMA FlattensExists ==
    ASSUME NEW s, NEW n \in Nat
    PROVE  \E f : Flattens(f, s, n)
<1>. DEFINE Has == {m \in Nat : \E f : Flattens(f, s, m)}
<1>1. 0 \in Has
  <2>1. Flattens([k \in 1 .. 0 |-> 0], s, 0)
    BY DEF Flattens
  <2>. QED
    BY <2>1
<1>2. ASSUME NEW m \in Nat, m \in Has
      PROVE  m + 1 \in Has
  <2>1. PICK f : Flattens(f, s, m)
    BY <1>2
  <2>. DEFINE g == [k \in 1 .. m + 1 |->
                      IF k = m + 1 THEN IF k = 1 THEN s[k] ELSE f[m] \o s[k] ELSE f[k]]
  <2>2. ASSUME NEW k \in 1 .. m + 1
        PROVE  g[k] = IF k = 1 THEN s[k] ELSE g[k - 1] \o s[k]
    <3>1. CASE k = m + 1
      <4>1. k # 1 => k - 1 = m /\ k - 1 \in 1 .. m + 1 /\ k - 1 # m + 1
        BY <3>1
      <4>. QED
        BY <3>1, <4>1
    <3>2. CASE k # m + 1
      <4>1. k \in 1 .. m /\ (k # 1 => k - 1 \in 1 .. m)
        BY <3>2
      <4>2. f[k] = IF k = 1 THEN s[k] ELSE f[k - 1] \o s[k]
        BY <2>1, <4>1 DEF Flattens
      <4>3. k # 1 => g[k - 1] = f[k - 1]
        BY <4>1
      <4>. QED
        BY <3>2, <4>2, <4>3
    <3>. QED
      BY <3>1, <3>2
  <2>3. Flattens(g, s, m + 1)
    BY <2>2 DEF Flattens
  <2>. QED
    BY <2>3
<1>. QED
  <2>. HIDE DEF Has
  <2>1. Nat \subseteq Has
    BY <1>1, <1>2, Induction
  <2>. QED
    BY <2>1 DEF Has

\* Its value at any member.
LEMMA FlattensAt ==
    ASSUME NEW s, NEW n \in Nat, NEW f, Flattens(f, s, n), NEW k \in 1 .. n
    PROVE  f[k] = IF k = 1 THEN s[k] ELSE f[k - 1] \o s[k]
BY DEF Flattens

\* Two such functions agree where both are defined.
LEMMA FlattensAgree ==
    ASSUME NEW s, NEW t, NEW n \in Nat, NEW f, NEW g,
           Flattens(f, s, n), Flattens(g, t, n + 1),
           \A k \in 1 .. n : s[k] = t[k]
    PROVE  \A k \in 1 .. n : f[k] = g[k]
<1>. DEFINE Same == {k \in Nat : k \in 1 .. n => f[k] = g[k]}
<1>1. 0 \in Same
  OBVIOUS
<1>2. ASSUME NEW k \in Nat, k \in Same
      PROVE  k + 1 \in Same
  <2>. SUFFICES ASSUME k + 1 \in 1 .. n PROVE f[k + 1] = g[k + 1]
    OBVIOUS
  <2>1. /\ f[k + 1] = IF k + 1 = 1 THEN s[k + 1] ELSE f[(k + 1) - 1] \o s[k + 1]
        /\ g[k + 1] = IF k + 1 = 1 THEN t[k + 1] ELSE g[(k + 1) - 1] \o t[k + 1]
    BY FlattensAt
  <2>2. k + 1 # 1 => k \in 1 .. n /\ (k + 1) - 1 = k
    OBVIOUS
  <2>. QED
    BY <1>2, <2>1, <2>2
<1>. QED
  <2>. HIDE DEF Same
  <2>1. Nat \subseteq Same
    BY <1>1, <1>2, Induction
  <2>. QED
    BY <2>1 DEF Same

\* FlattenSeq(s) is the last value of such a function.
LEMMA FlattenSeqDef ==
    ASSUME NEW S, NEW s \in Seq(S), Len(s) > 0
    PROVE  \E f : Flattens(f, s, Len(s)) /\ FlattenSeq(s) = f[Len(s)]
<1>. DEFINE h == CHOOSE f : Flattens(f, s, Len(s))
<1>1. Flattens(h, s, Len(s))
  <2>1. Len(s) \in Nat
    OBVIOUS
  <2>2. \E f : Flattens(f, s, Len(s))
    BY <2>1, FlattensExists
  <2>. QED
    BY <2>2
<1>2. FlattenSeq(s) = h[Len(s)]
  BY DEF FlattenSeq, Flattens
<1>. QED
  BY <1>1, <1>2

\* What one more member adds.
LEMMA FlattenAppend ==
    ASSUME NEW S, NEW s \in Seq(Seq(S)), NEW x \in Seq(S)
    PROVE  FlattenSeq(Append(s, x)) = FlattenSeq(s) \o x
<1>. DEFINE t == Append(s, x)
            n == Len(s)
<1>1. /\ n \in Nat /\ t \in Seq(Seq(S)) /\ Len(t) = n + 1 /\ t[n + 1] = x
      /\ \A k \in 1 .. n : t[k] = s[k]
  OBVIOUS
<1>. HIDE DEF t, n
<1>2. PICK g : Flattens(g, t, n + 1) /\ FlattenSeq(t) = g[n + 1]
  BY <1>1, FlattenSeqDef
<1>3. g[n + 1] = IF n + 1 = 1 THEN t[n + 1] ELSE g[(n + 1) - 1] \o t[n + 1]
  BY <1>1, <1>2, FlattensAt
<1>4. CASE n = 0
  <2>1. s = <<>> /\ FlattenSeq(s) = <<>>
    BY <1>4 DEF FlattenSeq, n
  <2>. QED
    BY <1>1, <1>2, <1>3, <1>4, <2>1 DEF t
<1>5. CASE n # 0
  <2>1. PICK f : Flattens(f, s, n) /\ FlattenSeq(s) = f[n]
    BY <1>1, <1>5, FlattenSeqDef DEF n
  <2>2. f[n] = g[n]
    <3>1. n \in 1 .. n /\ \A k \in 1 .. n : s[k] = t[k]
      BY <1>1, <1>5
    <3>2. \A k \in 1 .. n : f[k] = g[k]
      BY <1>1, <1>2, <2>1, <3>1, FlattensAgree
    <3>. QED
      BY <3>1, <3>2
  <2>3. n + 1 # 1 /\ (n + 1) - 1 = n
    BY <1>1, <1>5
  <2>. QED
    BY <1>1, <1>2, <1>3, <2>1, <2>2, <2>3 DEF t
<1>. QED
  BY <1>4, <1>5

\* Induction for sets of sequences.
LEMMA SeqInduction ==
    ASSUME NEW S, NEW Q, <<>> \in Q,
           \A s \in Seq(S), x \in S : s \in Q => Append(s, x) \in Q
    PROVE  Seq(S) \subseteq Q
<1>. DEFINE Lengths == {n \in Nat : \A s \in Seq(S) : Len(s) = n => s \in Q}
<1>1. 0 \in Lengths
  <2>1. \A s \in Seq(S) : Len(s) = 0 => s = <<>>
    OBVIOUS
  <2>. QED
    BY <2>1
<1>2. ASSUME NEW n \in Nat, n \in Lengths
      PROVE  n + 1 \in Lengths
  <2>1. ASSUME NEW s \in Seq(S), Len(s) = n + 1
        PROVE  s \in Q
    <3>. DEFINE r == SubSeq(s, 1, n)
    <3>1. s[n + 1] \in S /\ r \in Seq(S) /\ Len(r) = n
      BY <2>1
    <3>2. s = Append(r, s[n + 1])
      BY <2>1
    <3>3. r \in Q
      BY <1>2, <3>1
    <3>. HIDE DEF r
    <3>. QED
      BY <3>1, <3>2, <3>3
  <2>. QED
    BY <2>1
<1>. QED
  <2>. HIDE DEF Lengths
  <2>1. Nat \subseteq Lengths
    BY <1>1, <1>2, Induction
  <2>. QED
    BY <2>1 DEF Lengths

\* Nothing, and a single member, are flat already.
LEMMA FlattenEmpty == FlattenSeq(<<>>) = <<>>
BY DEF FlattenSeq

\* One sequence is flattened to itself.
LEMMA FlattenSingle ==
    ASSUME NEW S, NEW x \in Seq(S)
    PROVE  FlattenSeq(<<x>>) = x
<1>1. <<x>> = Append(<<>>, x) /\ <<>> \in Seq(Seq(S)) /\ <<>> \o x = x
  OBVIOUS
<1>. QED
  BY <1>1, FlattenAppend, FlattenEmpty

\* The members' elements are the result's.
LEMMA FlattenType ==
    ASSUME NEW S, NEW s \in Seq(Seq(S))
    PROVE  FlattenSeq(s) \in Seq(S)
<1>. DEFINE Q == {t \in Seq(Seq(S)) : FlattenSeq(t) \in Seq(S)}
<1>1. <<>> \in Q
  BY FlattenEmpty, EmptySeq
<1>2. ASSUME NEW t \in Seq(Seq(S)), NEW x \in Seq(S), t \in Q
      PROVE  Append(t, x) \in Q
  <2>1. Append(t, x) \in Seq(Seq(S)) /\ FlattenSeq(t) \in Seq(S)
    BY <1>2
  <2>2. FlattenSeq(Append(t, x)) = FlattenSeq(t) \o x
    BY FlattenAppend
  <2>3. FlattenSeq(t) \o x \in Seq(S)
    BY <2>1
  <2>. QED
    BY <2>1, <2>2, <2>3
<1>. QED
  <2>. HIDE DEF Q
  <2>1. Seq(Seq(S)) \subseteq Q
    BY <1>1, <1>2, SeqInduction
  <2>. QED
    BY <2>1 DEF Q

\* Flattening part by part.
LEMMA FlattenConcat ==
    ASSUME NEW S, NEW s \in Seq(Seq(S)), NEW t \in Seq(Seq(S))
    PROVE  FlattenSeq(s \o t) = FlattenSeq(s) \o FlattenSeq(t)
<1>. DEFINE Q == {u \in Seq(Seq(S)) : FlattenSeq(s \o u) = FlattenSeq(s) \o FlattenSeq(u)}
<1>1. <<>> \in Q
  <2>1. s \o <<>> = s /\ FlattenSeq(s) \o <<>> = FlattenSeq(s)
    BY FlattenType
  <2>. QED
    BY <2>1, FlattenEmpty, EmptySeq
<1>2. ASSUME NEW u \in Seq(Seq(S)), NEW x \in Seq(S), u \in Q
      PROVE  Append(u, x) \in Q
  <2>1. s \o Append(u, x) = Append(s \o u, x) /\ s \o u \in Seq(Seq(S))
    OBVIOUS
  <2>2. FlattenSeq(Append(s \o u, x)) = FlattenSeq(s \o u) \o x
    BY <2>1, FlattenAppend
  <2>3. FlattenSeq(Append(u, x)) = FlattenSeq(u) \o x
    BY FlattenAppend
  <2>4. FlattenSeq(s) \in Seq(S) /\ FlattenSeq(u) \in Seq(S)
    BY FlattenType
  <2>5. (FlattenSeq(s) \o FlattenSeq(u)) \o x = FlattenSeq(s) \o (FlattenSeq(u) \o x)
    BY <2>4, ConcatAssociative
  <2>6. FlattenSeq(s \o u) = FlattenSeq(s) \o FlattenSeq(u)
    BY <1>2
  <2>7. FlattenSeq(s \o Append(u, x)) = FlattenSeq(s) \o FlattenSeq(Append(u, x))
    BY <2>1, <2>2, <2>3, <2>5, <2>6, Zenon
  <2>. QED
    BY <2>7, AppendProperties
<1>. QED
  <2>. HIDE DEF Q
  <2>1. Seq(Seq(S)) \subseteq Q
    BY <1>1, <1>2, SeqInduction
  <2>. QED
    BY <2>1 DEF Q

\* The elements of two sequences, one after the other.
LEMMA ToSetConcat ==
    ASSUME NEW S, NEW s \in Seq(S), NEW t \in Seq(S)
    PROVE  ToSet(s \o t) = ToSet(s) \cup ToSet(t)
<1>1. /\ Len(s) \in Nat /\ Len(t) \in Nat /\ Len(s \o t) = Len(s) + Len(t)
      /\ ToSet(s) = {s[k] : k \in 1 .. Len(s)} /\ ToSet(t) = {t[k] : k \in 1 .. Len(t)}
      /\ ToSet(s \o t) = {(s \o t)[k] : k \in 1 .. Len(s \o t)}
  BY ConcatProperties, LenProperties DEF ToSet
<1>2. \A k \in 1 .. Len(s) + Len(t) :
        (s \o t)[k] = IF k <= Len(s) THEN s[k] ELSE t[k - Len(s)]
  BY ConcatProperties
<1>3. ASSUME NEW k \in 1 .. Len(s)
      PROVE  s[k] \in ToSet(s \o t)
  <2>1. k \in 1 .. Len(s \o t) /\ (s \o t)[k] = s[k]
    BY <1>1, <1>2
  <2>. QED
    BY <1>1, <2>1
<1>4. ASSUME NEW k \in 1 .. Len(t)
      PROVE  t[k] \in ToSet(s \o t)
  <2>1. k + Len(s) \in 1 .. Len(s \o t) /\ (s \o t)[k + Len(s)] = t[k]
    BY <1>1, <1>2
  <2>. QED
    BY <1>1, <2>1
<1>5. ASSUME NEW k \in 1 .. Len(s \o t)
      PROVE  (s \o t)[k] \in ToSet(s) \cup ToSet(t)
  <2>1. k \in 1 .. Len(s) \/ k - Len(s) \in 1 .. Len(t)
    BY <1>1
  <2>. QED
    BY <1>1, <1>2, <2>1
<1>. QED
  BY <1>1, <1>3, <1>4, <1>5

\* An element comes from a member.
LEMMA FlattenElements ==
    ASSUME NEW S, NEW s \in Seq(Seq(S))
    PROVE  ToSet(FlattenSeq(s)) = UNION {ToSet(s[k]) : k \in 1 .. Len(s)}
<1>. DEFINE Q == {t \in Seq(Seq(S)) :
                    ToSet(FlattenSeq(t)) = UNION {ToSet(t[k]) : k \in 1 .. Len(t)}}
<1>1. <<>> \in Q
  BY FlattenEmpty DEF ToSet
<1>2. ASSUME NEW t \in Seq(Seq(S)), NEW x \in Seq(S), t \in Q
      PROVE  Append(t, x) \in Q
  <2>1. /\ Append(t, x) \in Seq(Seq(S)) /\ Len(t) \in Nat /\ Len(Append(t, x)) = Len(t) + 1
        /\ Append(t, x)[Len(t) + 1] = x
        /\ \A k \in 1 .. Len(t) : Append(t, x)[k] = t[k]
        /\ 1 .. Len(t) + 1 = (1 .. Len(t)) \cup {Len(t) + 1}
    OBVIOUS
  <2>2. ToSet(FlattenSeq(Append(t, x))) = ToSet(FlattenSeq(t)) \cup ToSet(x)
    <3>1. FlattenSeq(t) \in Seq(S) /\ FlattenSeq(Append(t, x)) = FlattenSeq(t) \o x
      BY FlattenAppend, FlattenType
    <3>. QED
      BY <3>1, ToSetConcat
  <2>. QED
    BY <1>2, <2>1, <2>2
<1>. QED
  <2>. HIDE DEF Q
  <2>1. Seq(Seq(S)) \subseteq Q
    BY <1>1, <1>2, SeqInduction
  <2>. QED
    BY <2>1 DEF Q

\* Any two elements of s, in their order, are related by R.
Ordered(s, R) == \A k, l \in 1 .. Len(s) : k < l => <<s[k], s[l]>> \in R

\* So are those of s and t, one after the other, if all those of s are
\* related to all those of t.
LEMMA ConcatOrdered ==
    ASSUME NEW S, NEW s \in Seq(S), NEW t \in Seq(S), NEW R,
           Ordered(s, R), Ordered(t, R),
           \A x \in ToSet(s), y \in ToSet(t) : <<x, y>> \in R
    PROVE  Ordered(s \o t, R)
<1>1. /\ Len(s) \in Nat /\ Len(t) \in Nat /\ s \o t \in Seq(S) /\ Len(s \o t) = Len(s) + Len(t)
      /\ \A k \in 1 .. Len(s) : (s \o t)[k] = s[k] /\ s[k] \in ToSet(s)
      /\ \A k \in 1 .. Len(t) : (s \o t)[k + Len(s)] = t[k] /\ t[k] \in ToSet(t)
  BY DEF ToSet
<1>2. ASSUME NEW k \in 1 .. Len(s \o t), NEW l \in 1 .. Len(s \o t), k < l
      PROVE  <<(s \o t)[k], (s \o t)[l]>> \in R
  <2>1. \A j \in 1 .. Len(s \o t) :
          j \in 1 .. Len(s) \/ (j - Len(s) \in 1 .. Len(t) /\ j = (j - Len(s)) + Len(s))
    BY <1>1
  <2>2. CASE k \in 1 .. Len(s) /\ l \in 1 .. Len(s)
    BY <1>1, <1>2, <2>2 DEF Ordered
  <2>3. CASE k \in 1 .. Len(s) /\ l \notin 1 .. Len(s)
    BY <1>1, <2>1, <2>3
  <2>4. CASE k \notin 1 .. Len(s)
    <3>1. l \notin 1 .. Len(s) /\ k - Len(s) < l - Len(s)
      BY <1>1, <1>2, <2>4
    <3>2. <<t[k - Len(s)], t[l - Len(s)]>> \in R
      BY <2>1, <2>4, <3>1 DEF Ordered
    <3>. QED
      BY <1>1, <2>1, <2>4, <3>1, <3>2
  <2>. QED
    BY <2>2, <2>3, <2>4
<1>. QED
  BY <1>2 DEF Ordered

\* And those of the members, if each is ordered, and any two are.
Members(s, R) ==
    /\ \A k \in 1 .. Len(s) : Ordered(s[k], R)
    /\ \A k, l \in 1 .. Len(s) :
          k < l => \A x \in ToSet(s[k]), y \in ToSet(s[l]) : <<x, y>> \in R

\* Flattening keeps the order within the members and among them.
LEMMA FlattenOrdered ==
    ASSUME NEW S, NEW s \in Seq(Seq(S)), NEW R, Members(s, R)
    PROVE  Ordered(FlattenSeq(s), R)
<1>. DEFINE Q == {t \in Seq(Seq(S)) : Members(t, R) => Ordered(FlattenSeq(t), R)}
<1>1. <<>> \in Q
  BY FlattenEmpty DEF Ordered
<1>2. ASSUME NEW t \in Seq(Seq(S)), NEW x \in Seq(S), t \in Q
      PROVE  Append(t, x) \in Q
  <2>. SUFFICES ASSUME Members(Append(t, x), R)
                PROVE  Ordered(FlattenSeq(Append(t, x)), R)
    OBVIOUS
  <2>1. /\ Append(t, x) \in Seq(Seq(S)) /\ Len(t) \in Nat /\ Len(Append(t, x)) = Len(t) + 1
        /\ Append(t, x)[Len(t) + 1] = x
        /\ \A k \in 1 .. Len(t) : Append(t, x)[k] = t[k]
    OBVIOUS
  <2>2. \A k \in 1 .. Len(t) : k \in 1 .. Len(t) + 1 /\ k < Len(t) + 1
    BY <2>1
  <2>3. Len(t) + 1 \in 1 .. Len(t) + 1
    BY <2>1
  <2>4. Members(t, R)
    BY <2>1, <2>2 DEF Members
  <2>5. Ordered(x, R)
    BY <2>1, <2>3 DEF Members
  <2>6. ASSUME NEW y \in ToSet(FlattenSeq(t)), NEW z \in ToSet(x)
        PROVE  <<y, z>> \in R
    <3>1. PICK k \in 1 .. Len(t) : y \in ToSet(t[k])
      BY FlattenElements
    <3>. QED
      BY <2>1, <2>2, <2>3, <3>1 DEF Members
  <2>. QED
    BY <1>2, <2>4, <2>5, <2>6, FlattenType, FlattenAppend, ConcatOrdered
<1>. QED
  <2>. HIDE DEF Q
  <2>1. Seq(Seq(S)) \subseteq Q
    BY <1>1, <1>2, SeqInduction
  <2>. QED
    BY <2>1 DEF Q

-----------------------------------------------------------------------------
(* Prints.                                                                 *)

\* The events that are prints.
PrintEvents == {e \in Events : IsPrint(e)}

\* What Prints flattens.
Kept(log) == [k \in DOMAIN log |-> IF IsPrint(log[k]) THEN <<log[k]>> ELSE <<>>]

\* Its members.
LEMMA KeptFacts ==
    ASSUME NEW s \in Seq(Events)
    PROVE  /\ Prints(s) = FlattenSeq(Kept(s))
           /\ Kept(s) \in Seq(Seq(PrintEvents)) /\ Len(Kept(s)) = Len(s)
           /\ \A k \in 1 .. Len(s) : Kept(s)[k] = IF IsPrint(s[k]) THEN <<s[k]>> ELSE <<>>
<1>1. Prints(s) = FlattenSeq(Kept(s))
  BY DEF Prints, Kept
<1>2. DOMAIN s = 1 .. Len(s) /\ Len(s) \in Nat
  BY LenProperties
<1>3. \A k \in 1 .. Len(s) : Kept(s)[k] = IF IsPrint(s[k]) THEN <<s[k]>> ELSE <<>>
  BY <1>2 DEF Kept
<1>4. ASSUME NEW k \in 1 .. Len(s)
      PROVE  Kept(s)[k] \in Seq(PrintEvents)
  <2>1. IsPrint(s[k]) => s[k] \in PrintEvents
    BY ElementOfSeq DEF PrintEvents
  <2>2. IsPrint(s[k]) => <<s[k]>> \in Seq(PrintEvents)
    BY <2>1
  <2>. QED
    BY <1>3, <2>2, EmptySeq
<1>5. Kept(s) \in [1 .. Len(s) -> Seq(PrintEvents)]
  BY <1>2, <1>4 DEF Kept
<1>6. Kept(s) \in Seq(Seq(PrintEvents)) /\ Len(Kept(s)) = Len(s)
  BY <1>2, <1>5
<1>. QED
  BY <1>1, <1>3, <1>6

\* Prints yields prints.
LEMMA PrintsType ==
    ASSUME NEW s \in Seq(Events)
    PROVE  Prints(s) \in Seq(PrintEvents)
BY KeptFacts, FlattenType

\* It can be applied part by part.
LEMMA PrintsConcat ==
    ASSUME NEW s \in Seq(Events), NEW t \in Seq(Events)
    PROVE  Prints(s \o t) = Prints(s) \o Prints(t)
<1>1. s \o t \in Seq(Events) /\ Len(s \o t) = Len(s) + Len(t)
  BY ConcatProperties
<1>2. Kept(s \o t) = Kept(s) \o Kept(t)
  <2>1. /\ Kept(s \o t) \in Seq(Seq(PrintEvents)) /\ Len(Kept(s \o t)) = Len(s) + Len(t)
        /\ Kept(s) \in Seq(Seq(PrintEvents)) /\ Len(Kept(s)) = Len(s)
        /\ Kept(t) \in Seq(Seq(PrintEvents)) /\ Len(Kept(t)) = Len(t)
        /\ Len(s) \in Nat /\ Len(t) \in Nat
    <3>1. Kept(s \o t) \in Seq(Seq(PrintEvents)) /\ Len(Kept(s \o t)) = Len(s \o t)
      BY <1>1, KeptFacts
    <3>2. Kept(s) \in Seq(Seq(PrintEvents)) /\ Len(Kept(s)) = Len(s)
      BY KeptFacts
    <3>3. Kept(t) \in Seq(Seq(PrintEvents)) /\ Len(Kept(t)) = Len(t)
      BY KeptFacts
    <3>. QED
      BY <1>1, <3>1, <3>2, <3>3, LenProperties
  <2>2. /\ Kept(s) \o Kept(t) \in Seq(Seq(PrintEvents))
        /\ Len(Kept(s) \o Kept(t)) = Len(s) + Len(t)
    BY <2>1, ConcatProperties
  <2>3. ASSUME NEW k \in 1 .. Len(s) + Len(t)
        PROVE  Kept(s \o t)[k] = (Kept(s) \o Kept(t))[k]
    <3>1. (s \o t)[k] = IF k <= Len(s) THEN s[k] ELSE t[k - Len(s)]
      BY ConcatProperties
    <3>2. (Kept(s) \o Kept(t))[k] = IF k <= Len(s) THEN Kept(s)[k] ELSE Kept(t)[k - Len(s)]
      BY <2>1, ConcatProperties
    <3>3. Kept(s \o t)[k] = IF IsPrint((s \o t)[k]) THEN <<(s \o t)[k]>> ELSE <<>>
      BY <1>1, KeptFacts
    <3>4. CASE k <= Len(s)
      BY <2>1, <3>1, <3>2, <3>3, <3>4, KeptFacts
    <3>5. CASE ~(k <= Len(s))
      <4>1. k - Len(s) \in 1 .. Len(t)
        BY <2>1, <3>5
      <4>. QED
        BY <3>1, <3>2, <3>3, <3>5, <4>1, KeptFacts
    <3>. QED
      BY <3>4, <3>5
  <2>. QED
    BY <2>1, <2>2, <2>3, SeqEqual
<1>3. Prints(s \o t) = FlattenSeq(Kept(s \o t))
  BY <1>1, KeptFacts
<1>4. FlattenSeq(Kept(s) \o Kept(t)) = FlattenSeq(Kept(s)) \o FlattenSeq(Kept(t))
  BY KeptFacts, FlattenConcat
<1>. QED
  BY <1>2, <1>3, <1>4, KeptFacts

\* It leaves out what is no print.
LEMMA PrintsElements ==
    ASSUME NEW s \in Seq(Events)
    PROVE  ToSet(Prints(s)) = {e \in ToSet(s) : IsPrint(e)}
<1>1. ToSet(Prints(s)) = UNION {ToSet(Kept(s)[k]) : k \in 1 .. Len(s)}
  BY KeptFacts, FlattenElements
<1>2. ToSet(s) = {s[k] : k \in 1 .. Len(s)}
  BY LenProperties DEF ToSet
<1>3. ASSUME NEW k \in 1 .. Len(s)
      PROVE  ToSet(Kept(s)[k]) = IF IsPrint(s[k]) THEN {s[k]} ELSE {}
  <2>1. ToSet(<<s[k]>>) = {s[k]} /\ ToSet(<<>>) = {}
    BY DEF ToSet
  <2>. QED
    BY <2>1, KeptFacts
<1>4. ToSet(Prints(s)) = UNION {IF IsPrint(s[k]) THEN {s[k]} ELSE {} : k \in 1 .. Len(s)}
  BY <1>1, <1>3
<1>. QED
  BY <1>2, <1>4

\* And keeps the order.
LEMMA PrintsOrdered ==
    ASSUME NEW s \in Seq(Events), NEW R, Ordered(s, R)
    PROVE  Ordered(Prints(s), R)
<1>1. \A k \in 1 .. Len(s) : Kept(s)[k] = IF IsPrint(s[k]) THEN <<s[k]>> ELSE <<>>
  BY KeptFacts
<1>2. ASSUME NEW k \in 1 .. Len(s)
      PROVE  Ordered(Kept(s)[k], R) /\ ToSet(Kept(s)[k]) \subseteq {s[k]}
  <2>1. Ordered(<<s[k]>>, R) /\ ToSet(<<s[k]>>) = {s[k]}
    BY DEF Ordered, ToSet
  <2>2. Ordered(<<>>, R) /\ ToSet(<<>>) = {}
    BY DEF Ordered, ToSet
  <2>. QED
    BY <1>1, <2>1, <2>2
<1>3. Members(Kept(s), R)
  BY <1>2, KeptFacts DEF Members, Ordered
<1>. QED
  BY <1>3, KeptFacts, FlattenOrdered

-----------------------------------------------------------------------------
(* The contract's log.                                                     *)

\* The log of a chain c, newest event first.
LogsOn(c) == Reverse([k \in DOMAIN c |-> LogOf(c[k])])
LogOn(c)  == FlattenSeq(LogsOn(c))

\* An event is one of its transaction's.
LEMMA EventFacts ==
    /\ \A t \in Txs : EventsOf(t) \subseteq Events
    /\ \A t \in Txs : \A e \in EventsOf(t) : e.tx = t
    /\ \A e \in Events : e.tx \in Txs /\ e \in EventsOf(e.tx)
BY DEF Events, EventsOf

\* A transaction's log has each of its events once.
LEMMA LogOfFacts ==
    ASSUME NEW t \in Txs
    PROVE  /\ LogOf(t) \in Seq(Events)
           /\ ToSet(LogOf(t)) = EventsOf(t)
           /\ Len(LogOf(t)) = Len(Logs[t])
           /\ \A k, l \in 1 .. Len(LogOf(t)) : LogOf(t)[k] = LogOf(t)[l] => k = l
<1>. DEFINE n == Len(Logs[t])
<1>1. n \in Nat /\ DOMAIN Logs[t] = 1 .. n
  BY LogsAssumption, LenProperties
<1>2. ASSUME NEW k \in 1 .. n
      PROVE  LogOf(t)[k] = [tx |-> t, index |-> n - k] /\ LogOf(t)[k] \in EventsOf(t)
  <2>1. n + 1 - k \in 1 .. n /\ (n + 1 - k) - 1 = n - k
    BY <1>1
  <2>. QED
    BY <1>1, <2>1 DEF LogOf, EventsOf
<1>3. LogOf(t) \in [1 .. n -> Events]
  BY <1>1, <1>2, EventFacts DEF LogOf
<1>4. LogOf(t) \in Seq(Events) /\ Len(LogOf(t)) = n
  BY <1>1, <1>3
<1>5. EventsOf(t) \subseteq ToSet(LogOf(t))
  <2>. SUFFICES ASSUME NEW i \in 1 .. n
                PROVE  [tx |-> t, index |-> i - 1] \in ToSet(LogOf(t))
    BY <1>1 DEF EventsOf
  <2>1. n + 1 - i \in 1 .. n /\ n - (n + 1 - i) = i - 1
    BY <1>1
  <2>. QED
    BY <1>1, <1>2, <1>3, <2>1 DEF ToSet
<1>6. ToSet(LogOf(t)) \subseteq EventsOf(t)
  BY <1>2, <1>3 DEF ToSet
<1>7. ASSUME NEW k \in 1 .. n, NEW l \in 1 .. n, LogOf(t)[k] = LogOf(t)[l]
      PROVE  k = l
  <2>1. LogOf(t)[k] = [tx |-> t, index |-> n - k] /\ LogOf(t)[l] = [tx |-> t, index |-> n - l]
    BY <1>2
  <2>2. [tx |-> t, index |-> n - k].index = [tx |-> t, index |-> n - l].index
    BY <1>7, <2>1, Zenon
  <2>3. n - k = n - l
    BY <2>2
  <2>. QED
    BY <1>1, <2>3
<1>. QED
  BY <1>4, <1>5, <1>6, <1>7

\* The logs, newest first.
LEMMA LogsOnFacts ==
    ASSUME NEW c \in Seq(Txs)
    PROVE  /\ LogsOn(c) \in Seq(Seq(Events)) /\ Len(LogsOn(c)) = Len(c)
           /\ \A k \in 1 .. Len(c) : LogsOn(c)[k] = LogOf(c[(Len(c) - k) + 1])
<1>1. Len(c) \in Nat /\ DOMAIN c = 1 .. Len(c)
  BY LenProperties
<1>. DEFINE m == [k \in DOMAIN c |-> LogOf(c[k])]
<1>2. m \in Seq(Seq(Events)) /\ Len(m) = Len(c)
  <2>1. m \in [1 .. Len(c) -> Seq(Events)]
    BY <1>1, ElementOfSeq, LogOfFacts
  <2>. QED
    BY <1>1, <2>1
<1>3. LogsOn(c) = [k \in 1 .. Len(c) |-> m[(Len(c) - k) + 1]]
  BY <1>2 DEF LogsOn, Reverse
<1>4. \A k \in 1 .. Len(c) : (Len(c) - k) + 1 \in 1 .. Len(c)
  BY <1>1
<1>5. \A k \in 1 .. Len(c) : LogsOn(c)[k] = LogOf(c[(Len(c) - k) + 1])
  BY <1>1, <1>3, <1>4
<1>6. LogsOn(c) \in [1 .. Len(c) -> Seq(Events)]
  BY <1>3, <1>4, <1>5, ElementOfSeq, LogOfFacts
<1>. QED
  BY <1>1, <1>5, <1>6

\* The log is of events.
LEMMA LogOnType ==
    ASSUME NEW c \in Seq(Txs)
    PROVE  LogOn(c) \in Seq(Events)
BY LogsOnFacts, FlattenType DEF LogOn

\* Its events are those of the chain's transactions.
LEMMA LogOnElements ==
    ASSUME NEW c \in Seq(Txs)
    PROVE  ToSet(LogOn(c)) = {e \in Events : e.tx \in ToSet(c)}
<1>1. ToSet(LogOn(c)) = UNION {ToSet(LogsOn(c)[k]) : k \in 1 .. Len(c)}
  BY LogsOnFacts, FlattenElements DEF LogOn
<1>2. Len(c) \in Nat /\ DOMAIN c = 1 .. Len(c)
  BY LenProperties
<1>3. ASSUME NEW k \in 1 .. Len(c)
      PROVE  ToSet(LogsOn(c)[k]) = EventsOf(c[(Len(c) - k) + 1]) /\ (Len(c) - k) + 1 \in 1 .. Len(c)
  <2>1. (Len(c) - k) + 1 \in 1 .. Len(c)
    BY <1>2
  <2>. QED
    BY <2>1, LogsOnFacts, LogOfFacts, ElementOfSeq
<1>4. ASSUME NEW k \in 1 .. Len(c)
      PROVE  \E l \in 1 .. Len(c) : k = (Len(c) - l) + 1
  <2>1. (Len(c) - k) + 1 \in 1 .. Len(c) /\ k = (Len(c) - ((Len(c) - k) + 1)) + 1
    BY <1>2
  <2>. QED
    BY <2>1
<1>5. ToSet(LogOn(c)) = UNION {EventsOf(c[k]) : k \in 1 .. Len(c)}
  BY <1>1, <1>3, <1>4
<1>6. \A k \in 1 .. Len(c) : c[k] \in Txs
  BY ElementOfSeq
<1>. QED
  BY <1>2, <1>5, <1>6, EventFacts DEF ToSet

\* x comes before y in the log of c: they differ, and x is of the same
\* transaction or of a later one.
Before(c) ==
    {p \in Events \X Events :
        /\ p[1] # p[2]
        /\ \E k, l \in 1 .. Len(c) : l <= k /\ p[1].tx = c[k] /\ p[2].tx = c[l]}

\* A chain has no transaction twice.
IsChain(c) == \A k, l \in 1 .. Len(c) : c[k] = c[l] => k = l

\* The log of a chain is in that order.
LEMMA LogOnOrdered ==
    ASSUME NEW c \in Seq(Txs), IsChain(c)
    PROVE  Ordered(LogOn(c), Before(c))
<1>. DEFINE At(k) == (Len(c) - k) + 1
<1>1. Len(c) \in Nat /\ \A k \in 1 .. Len(c) : At(k) \in 1 .. Len(c) /\ c[At(k)] \in Txs
  BY LenProperties, ElementOfSeq
<1>2. \A k \in 1 .. Len(c) : LogsOn(c)[k] = LogOf(c[At(k)])
  BY LogsOnFacts
<1>3. ASSUME NEW k \in 1 .. Len(c)
      PROVE  Ordered(LogsOn(c)[k], Before(c))
  <2>. DEFINE log == LogOf(c[At(k)])
  <2>1. /\ log \in Seq(Events) /\ ToSet(log) = EventsOf(c[At(k)])
        /\ \A i, j \in 1 .. Len(log) : log[i] = log[j] => i = j
        /\ \A i \in 1 .. Len(log) : log[i] \in Events /\ log[i] \in ToSet(log)
    <3>1. log \in Seq(Events) /\ ToSet(log) = EventsOf(c[At(k)])
      BY <1>1, LogOfFacts
    <3>2. \A i, j \in 1 .. Len(log) : log[i] = log[j] => i = j
      BY <1>1, LogOfFacts
    <3>. HIDE DEF log
    <3>3. \A i \in 1 .. Len(log) : log[i] \in Events /\ log[i] \in ToSet(log)
      BY <3>1, LenProperties, ElementOfSeq DEF ToSet
    <3>. QED
      BY <3>1, <3>2, <3>3
  <2>. HIDE DEF log
  <2>2. \A i \in 1 .. Len(log) : log[i].tx = c[At(k)]
    BY <1>1, <2>1, EventFacts
  <2>3. ASSUME NEW i \in 1 .. Len(log), NEW j \in 1 .. Len(log), i < j
        PROVE  <<log[i], log[j]>> \in Before(c)
    <3>1. log[i] # log[j] /\ At(k) <= At(k)
      BY <1>1, <2>1, <2>3, LenProperties
    <3>. QED
      BY <1>1, <2>1, <2>2, <3>1 DEF Before
  <2>. QED
    BY <1>2, <2>3 DEF Ordered, log
<1>4. ASSUME NEW k \in 1 .. Len(c), NEW l \in 1 .. Len(c), k < l,
             NEW x \in ToSet(LogsOn(c)[k]), NEW y \in ToSet(LogsOn(c)[l])
      PROVE  <<x, y>> \in Before(c)
  <2>1. x \in EventsOf(c[At(k)]) /\ y \in EventsOf(c[At(l)])
    BY <1>1, <1>2, LogOfFacts
  <2>2. x \in Events /\ y \in Events /\ x.tx = c[At(k)] /\ y.tx = c[At(l)]
    BY <1>1, <2>1, EventFacts
  <2>3. At(l) <= At(k) /\ At(l) # At(k)
    BY <1>1, <1>4
  <2>4. x # y
    BY <1>1, <2>2, <2>3 DEF IsChain
  <2>. QED
    BY <1>1, <2>2, <2>3, <2>4 DEF Before
<1>5. Members(LogsOn(c), Before(c))
  BY <1>3, <1>4, LogsOnFacts DEF Members
<1>. QED
  BY <1>5, LogsOnFacts, FlattenOrdered DEF LogOn

\* The log of a chain is that of its end, followed by that of its start.
LEMMA LogOnConcat ==
    ASSUME NEW c \in Seq(Txs), NEW d \in Seq(Txs)
    PROVE  LogOn(c \o d) = LogOn(d) \o LogOn(c)
<1>1. c \o d \in Seq(Txs) /\ Len(c \o d) = Len(c) + Len(d) /\ Len(c) \in Nat /\ Len(d) \in Nat
  BY ConcatProperties, LenProperties
<1>2. LogsOn(c \o d) = LogsOn(d) \o LogsOn(c)
  <2>1. /\ LogsOn(c \o d) \in Seq(Seq(Events)) /\ Len(LogsOn(c \o d)) = Len(c) + Len(d)
        /\ LogsOn(c) \in Seq(Seq(Events)) /\ Len(LogsOn(c)) = Len(c)
        /\ LogsOn(d) \in Seq(Seq(Events)) /\ Len(LogsOn(d)) = Len(d)
    BY <1>1, LogsOnFacts
  <2>2. /\ LogsOn(d) \o LogsOn(c) \in Seq(Seq(Events))
        /\ Len(LogsOn(d) \o LogsOn(c)) = Len(c) + Len(d)
    BY <1>1, <2>1, ConcatProperties
  <2>3. ASSUME NEW k \in 1 .. Len(c) + Len(d)
        PROVE  LogsOn(c \o d)[k] = (LogsOn(d) \o LogsOn(c))[k]
    <3>. DEFINE j == ((Len(c) + Len(d)) - k) + 1
    <3>1. LogsOn(c \o d)[k] = LogOf((c \o d)[j]) /\ j \in 1 .. Len(c) + Len(d)
      <4>1. j \in 1 .. Len(c) + Len(d) /\ k \in 1 .. Len(c \o d) /\ (Len(c \o d) - k) + 1 = j
        BY <1>1
      <4>2. LogsOn(c \o d)[k] = LogOf((c \o d)[(Len(c \o d) - k) + 1])
        BY <1>1, <4>1, LogsOnFacts
      <4>. QED
        BY <4>1, <4>2
    <3>2. (c \o d)[j] = IF j <= Len(c) THEN c[j] ELSE d[j - Len(c)]
      BY <3>1, ConcatProperties
    <3>3. (LogsOn(d) \o LogsOn(c))[k] = IF k <= Len(d) THEN LogsOn(d)[k] ELSE LogsOn(c)[k - Len(d)]
      <4>1. k \in 1 .. Len(LogsOn(d)) + Len(LogsOn(c))
        BY <1>1, <2>1
      <4>. QED
        BY <2>1, <4>1, ConcatProperties
    <3>4. CASE k <= Len(d)
      <4>1. k \in 1 .. Len(d) /\ ~(j <= Len(c)) /\ j - Len(c) = (Len(d) - k) + 1
        BY <1>1, <3>4
      <4>. QED
        BY <3>1, <3>2, <3>3, <3>4, <4>1, LogsOnFacts
    <3>5. CASE ~(k <= Len(d))
      <4>1. k - Len(d) \in 1 .. Len(c) /\ j <= Len(c) /\ j = (Len(c) - (k - Len(d))) + 1
        BY <1>1, <3>5
      <4>. QED
        BY <3>1, <3>2, <3>3, <3>5, <4>1, LogsOnFacts
    <3>. QED
      BY <3>4, <3>5
  <2>. QED
    BY <2>1, <2>2, <2>3, SeqEqual
<1>. QED
  BY <1>2, LogsOnFacts, FlattenConcat DEF LogOn

-----------------------------------------------------------------------------
(* Pages, and what the cron makes of them.                                 *)

\* The first of some positions.
LEMMA MinFacts ==
    ASSUME NEW n \in Nat, NEW I \in SUBSET (1 .. n), I # {}
    PROVE  Min(I) \in I /\ \A k \in I : Min(I) <= k
<1>1. \E m \in I : \A k \in I : m <= k
  BY LeastNumber
<1>. QED
  BY <1>1 DEF Min

\* Newer is what a page has before the first event of the transaction seen.
LEMMA NewerFacts ==
    ASSUME NEW page \in Seq(Events)
    PROVE  \E n \in 0 .. Len(page) :
              /\ Newer(page) = SubSeq(page, 1, n)
              /\ \A k \in 1 .. n : page[k].tx # seen
              /\ n # Len(page) => page[n + 1].tx = seen
<1>. DEFINE I == {k \in 1 .. Len(page) : page[k].tx = seen}
<1>1. Len(page) \in Nat
  BY LenProperties
<1>2. CASE I = {}
  <2>1. SelectInSeq(page, LAMBDA e : e.tx = seen) = 0
    BY <1>2 DEF SelectInSeq
  <2>2. Newer(page) = page /\ page = SubSeq(page, 1, Len(page))
    BY <2>1, SubSeqFull DEF Newer
  <2>3. Len(page) \in 0 .. Len(page) /\ \A k \in 1 .. Len(page) : page[k].tx # seen
    BY <1>1, <1>2
  <2>. QED
    BY <2>2, <2>3, Zenon
<1>3. CASE I # {}
  <2>1. SelectInSeq(page, LAMBDA e : e.tx = seen) = Min(I)
    BY <1>3 DEF SelectInSeq
  <2>2. Min(I) \in I /\ \A k \in I : Min(I) <= k
    BY <1>1, <1>3, MinFacts
  <2>3. Newer(page) = SubSeq(page, 1, Min(I) - 1)
    <3>1. Min(I) # 0
      BY <1>1, <2>2
    <3>. HIDE DEF I
    <3>. QED
      BY <2>1, <3>1, Zenon DEF Newer
  <2>4. Min(I) - 1 \in 0 .. Len(page) /\ (Min(I) - 1) + 1 = Min(I)
    BY <1>1, <2>2
  <2>5. \A k \in 1 .. Min(I) - 1 : page[k].tx # seen
    BY <1>1, <2>2
  <2>. QED
    BY <2>2, <2>3, <2>4, <2>5
<1>. QED
  BY <1>2, <1>3

\* A page is the part of the log from its offset on; it is empty only at the
\* end of the log, or when the log was cut.
LEMMA PageFacts ==
    ASSUME NEW log \in Seq(Events), NEW o \in Nat
    PROVE  /\ PageOf(log, o) \in Seq(Events)
           /\ o <= Len(log) =>
                /\ o + Len(PageOf(log, o)) <= Len(log)
                /\ \A k \in 1 .. Len(PageOf(log, o)) : PageOf(log, o)[k] = log[o + k]
                /\ PageOf(log, o) = <<>> => o = Len(log)
<1>. DEFINE m == IF o + PageSize < Len(log) THEN PageSize ELSE Len(log) - o
<1>1. Len(log) \in Nat /\ PageSize \in Nat /\ PageSize > 0 /\ m \in Int
  BY LenProperties, PageAssumption
<1>2. PageOf(log, o) = [k \in 1 .. m |-> log[o + k]]
  BY DEF PageOf
<1>3. CASE m <= 0
  <2>1. 1 .. m = {} /\ (o <= Len(log) => o = Len(log))
    BY <1>1, <1>3
  <2>2. PageOf(log, o) = <<>>
    BY <1>2, <2>1
  <2>. QED
    BY <1>1, <2>1, <2>2, EmptySeq
<1>4. CASE m > 0
  <2>1. m \in Nat /\ o < Len(log) /\ \A k \in 1 .. m : o + k \in 1 .. Len(log)
    BY <1>1, <1>4
  <2>. HIDE DEF m
  <2>2. PageOf(log, o) \in [1 .. m -> Events]
    BY <1>2, <2>1, ElementOfSeq
  <2>3. PageOf(log, o) \in Seq(Events) /\ Len(PageOf(log, o)) = m
    BY <2>1, <2>2
  <2>4. o + m <= Len(log) /\ m \in 1 .. m
    BY <1>4, <2>1
  <2>5. PageOf(log, o) # <<>>
    BY <1>4, <2>1, <2>3
  <2>. QED
    BY <1>2, <2>3, <2>4, <2>5
<1>. QED
  BY <1>1, <1>3, <1>4

\* A part of the log, and the part of the next page before some position.
LEMMA NextPart ==
    ASSUME NEW log \in Seq(Events), NEW o \in Nat, NEW page \in Seq(Events), NEW n \in 0 .. Len(page),
           o + Len(page) <= Len(log), \A k \in 1 .. Len(page) : page[k] = log[o + k]
    PROVE  SubSeq(log, 1, o) \o SubSeq(page, 1, n) = SubSeq(log, 1, o + n)
<1>1. Len(log) \in Nat /\ Len(page) \in Nat /\ n \in Nat /\ o + n <= Len(log)
  BY LenProperties
<1>2. /\ \A k \in 1 .. o : log[k] \in Events
      /\ \A k \in 1 .. n : page[k] \in Events
      /\ \A k \in 1 .. o + n : log[k] \in Events
  BY <1>1, ElementOfSeq
<1>3. /\ SubSeq(log, 1, o) \in Seq(Events) /\ Len(SubSeq(log, 1, o)) = o
      /\ \A k \in 1 .. o : SubSeq(log, 1, o)[k] = log[k]
  BY <1>1, <1>2
<1>4. /\ SubSeq(page, 1, n) \in Seq(Events) /\ Len(SubSeq(page, 1, n)) = n
      /\ \A k \in 1 .. n : SubSeq(page, 1, n)[k] = page[k]
  BY <1>1, <1>2
<1>5. /\ SubSeq(log, 1, o + n) \in Seq(Events) /\ Len(SubSeq(log, 1, o + n)) = o + n
      /\ \A k \in 1 .. o + n : SubSeq(log, 1, o + n)[k] = log[k]
  BY <1>1, <1>2
<1>. DEFINE s == SubSeq(log, 1, o) \o SubSeq(page, 1, n)
<1>6. s \in Seq(Events) /\ Len(s) = o + n
  BY <1>3, <1>4, ConcatProperties
<1>7. ASSUME NEW k \in 1 .. o + n
      PROVE  s[k] = SubSeq(log, 1, o + n)[k]
  <2>1. s[k] = IF k <= o THEN SubSeq(log, 1, o)[k] ELSE SubSeq(page, 1, n)[k - o]
    BY <1>3, <1>4, ConcatProperties
  <2>2. CASE k <= o
    BY <1>3, <1>5, <2>1, <2>2
  <2>3. CASE ~(k <= o)
    <3>1. k - o \in 1 .. n /\ k - o \in 1 .. Len(page) /\ o + (k - o) = k
      BY <1>1, <2>3
    <3>. QED
      BY <1>4, <1>5, <2>1, <2>3, <3>1
  <2>. QED
    BY <2>2, <2>3
<1>. HIDE DEF s
<1>8. s = SubSeq(log, 1, o + n)
  BY <1>5, <1>6, <1>7, SeqEqual
<1>. QED
  BY <1>8 DEF s

-----------------------------------------------------------------------------
(* The transactions up to one of the chain.                                *)

\* The transactions of a chain c up to t, none if t is not on it.
UpTo(c, t) == {c[k] : k \in {j \in 1 .. Len(c) : \E l \in 1 .. Len(c) : j <= l /\ c[l] = t}}

\* They are on the chain, and t is one of them if it is.
LEMMA UpToFacts ==
    ASSUME NEW c \in Seq(Txs), NEW t
    PROVE  /\ UpTo(c, t) \subseteq ToSet(c)
           /\ t \in ToSet(c) => t \in UpTo(c, t)
           /\ t \notin ToSet(c) => UpTo(c, t) = {}
<1>1. Len(c) \in Nat /\ DOMAIN c = 1 .. Len(c)
  BY LenProperties
<1>. QED
  BY <1>1 DEF UpTo, ToSet

\* A transaction mined on top changes nothing for the others.
LEMMA UpToAppend ==
    ASSUME NEW c \in Seq(Txs), NEW u \in Txs, NEW t, t # u
    PROVE  UpTo(Append(c, u), t) = UpTo(c, t)
<1>1. /\ Len(c) \in Nat /\ Len(Append(c, u)) = Len(c) + 1
      /\ \A k \in 1 .. Len(c) : Append(c, u)[k] = c[k]
      /\ Append(c, u)[Len(c) + 1] = u
  BY AppendProperties, LenProperties
<1>2. \A l \in 1 .. Len(c) + 1 : Append(c, u)[l] = t => l \in 1 .. Len(c)
  BY <1>1
<1>3. \A j \in 1 .. Len(c) + 1, l \in 1 .. Len(c) : j <= l => j \in 1 .. Len(c)
  BY <1>1
<1>4. \A j \in 1 .. Len(c) : j \in 1 .. Len(c) + 1
  BY <1>1
<1>. QED
  BY <1>1, <1>2, <1>3, <1>4 DEF UpTo

\* Nor does a fork that leaves t alone.
LEMMA UpToPrefix ==
    ASSUME NEW c \in Seq(Txs), NEW n \in 0 .. Len(c), NEW t,
           \A k \in n + 1 .. Len(c) : c[k] # t
    PROVE  UpTo(SubSeq(c, 1, n), t) = UpTo(c, t)
<1>1. /\ Len(c) \in Nat /\ n \in Nat /\ n <= Len(c) /\ Len(SubSeq(c, 1, n)) = n
      /\ \A k \in 1 .. n : SubSeq(c, 1, n)[k] = c[k]
  BY LenProperties
<1>2. \A l \in 1 .. Len(c) : c[l] = t => l \in 1 .. n
  BY <1>1
<1>3. \A j \in 1 .. Len(c), l \in 1 .. n : j <= l => j \in 1 .. n
  BY <1>1
<1>4. \A j \in 1 .. n : j \in 1 .. Len(c)
  BY <1>1
<1>. QED
  BY <1>1, <1>2, <1>3, <1>4 DEF UpTo

-----------------------------------------------------------------------------
(* The events above the transaction seen last.                             *)

\* Where that transaction is.
SeenAt == SelectInSeq(chain, LAMBDA t : t = seen)

\* Where the transaction seen last is, or 0.
LEMMA SeenAtFacts ==
    ASSUME chain \in Seq(Txs)
    PROVE  /\ SeenAt \in 0 .. Len(chain)
           /\ SeenAt = 0 => seen \notin ToSet(chain)
           /\ SeenAt # 0 => chain[SeenAt] = seen
<1>. DEFINE I == {k \in 1 .. Len(chain) : chain[k] = seen}
<1>1. Len(chain) \in Nat /\ DOMAIN chain = 1 .. Len(chain)
  BY LenProperties
<1>2. CASE I = {}
  <2>1. SeenAt = 0
    BY <1>2 DEF SeenAt, SelectInSeq
  <2>. QED
    BY <1>1, <1>2, <2>1 DEF ToSet
<1>3. CASE I # {}
  <2>1. SeenAt = Min(I)
    BY <1>3 DEF SeenAt, SelectInSeq
  <2>2. Min(I) \in I
    BY <1>1, <1>3, MinFacts
  <2>. QED
    BY <1>1, <2>1, <2>2
<1>. QED
  BY <1>2, <1>3

\* What is above that transaction, all if it is not on the chain, and the rest.
Later   == SubSeq(chain, SeenAt + 1, Len(chain))
Earlier == SubSeq(chain, 1, SeenAt)

\* The chain is what is up to it and what is above it.
LEMMA LaterFacts ==
    ASSUME chain \in Seq(Txs), IsChain(chain)
    PROVE  /\ Earlier \in Seq(Txs) /\ Later \in Seq(Txs) /\ chain = Earlier \o Later
           /\ ToSet(Later) = ToSet(chain) \ UpTo(chain, seen)
<1>. DEFINE n == Len(chain)
<1>1. /\ n \in Nat /\ DOMAIN chain = 1 .. n /\ SeenAt \in 0 .. n
      /\ SeenAt = 0 => seen \notin ToSet(chain)
      /\ SeenAt # 0 => chain[SeenAt] = seen
      /\ \A k \in 1 .. n : chain[k] \in Txs
  BY LenProperties, ElementOfSeq, SeenAtFacts
<1>2. Earlier \in Seq(Txs)
  BY <1>1 DEF Earlier
<1>3. /\ Later \in Seq(Txs) /\ Len(Later) = n - SeenAt
      /\ \A k \in 1 .. n - SeenAt : Later[k] = chain[SeenAt + k]
  <2>1. \A k \in SeenAt + 1 .. n : chain[k] \in Txs
    BY <1>1
  <2>2. /\ Later \in Seq(Txs)
        /\ Len(Later) = IF SeenAt + 1 <= n THEN n - (SeenAt + 1) + 1 ELSE 0
        /\ \A k \in 1 .. n - (SeenAt + 1) + 1 : Later[k] = chain[(SeenAt + 1) + k - 1]
    BY <1>1, <2>1, SubSeqProperties DEF Later
  <2>3. /\ n - (SeenAt + 1) + 1 = n - SeenAt
        /\ SeenAt + 1 <= n \/ n - SeenAt = 0
        /\ \A k \in 1 .. n - SeenAt : (SeenAt + 1) + k - 1 = SeenAt + k
    <3>1. n \in Nat /\ SeenAt \in Nat /\ SeenAt <= n
      BY <1>1
    <3>. HIDE DEF n
    <3>. QED
      BY <3>1
  <2>. HIDE DEF n
  <2>. QED
    BY <2>2, <2>3
<1>4. chain = Earlier \o Later
  <2>1. 1 \in 1 .. n + 1 /\ SeenAt \in 1 - 1 .. n /\ n \in SeenAt .. n
    BY <1>1
  <2>2. SubSeq(chain, 1, SeenAt) \o SubSeq(chain, SeenAt + 1, n) = SubSeq(chain, 1, n)
    BY <2>1, ConcatAdjacentSubSeq
  <2>. QED
    BY <2>2, SubSeqFull DEF Earlier, Later
<1>5. ToSet(Later) = {chain[k] : k \in SeenAt + 1 .. n}
  <2>1. ToSet(Later) = {Later[k] : k \in 1 .. n - SeenAt}
    BY <1>3, LenProperties DEF ToSet
  <2>2. \A k \in 1 .. n - SeenAt : SeenAt + k \in SeenAt + 1 .. n
    BY <1>1
  <2>3. \A k \in SeenAt + 1 .. n : k - SeenAt \in 1 .. n - SeenAt /\ SeenAt + (k - SeenAt) = k
    BY <1>1
  <2>. QED
    BY <1>3, <2>1, <2>2, <2>3
<1>6. ASSUME NEW k \in 1 .. n
      PROVE  chain[k] \in UpTo(chain, seen) <=> k <= SeenAt
  <2>1. CASE SeenAt = 0
    BY <1>1, <2>1, UpToFacts
  <2>2. CASE SeenAt # 0
    <3>1. SeenAt \in 1 .. n /\ \A l \in 1 .. n : chain[l] = seen => l = SeenAt
      BY <1>1, <2>2 DEF IsChain
    <3>2. k <= SeenAt => chain[k] \in UpTo(chain, seen)
      BY <1>1, <3>1 DEF UpTo
    <3>3. ASSUME chain[k] \in UpTo(chain, seen)
          PROVE  k <= SeenAt
      <4>1. PICK j \in 1 .. n : chain[j] = chain[k] /\ j <= SeenAt
        BY <3>1, <3>3 DEF UpTo
      <4>. QED
        BY <4>1 DEF IsChain
    <3>. QED
      BY <3>2, <3>3
  <2>. QED
    BY <2>1, <2>2
<1>7. \A k \in SeenAt + 1 .. n : k \in 1 .. n /\ ~(k <= SeenAt)
  BY <1>1
<1>8. \A k \in 1 .. n : ~(k <= SeenAt) => k \in SeenAt + 1 .. n
  BY <1>1
<1>9. ToSet(chain) = {chain[k] : k \in 1 .. n}
  BY <1>1 DEF ToSet
<1>. HIDE DEF n
<1>. QED
  BY <1>2, <1>3, <1>4, <1>5, <1>6, <1>7, <1>8, <1>9

\* A log on a single transaction is that transaction's.
LEMMA LogOnSingle ==
    ASSUME NEW t \in Txs
    PROVE  LogOn(<<t>>) = LogOf(t)
<1>1. <<t>> \in Seq(Txs) /\ Len(<<t>>) = 1 /\ <<t>>[1] = t
  OBVIOUS
<1>2. LogOf(t) \in Seq(Events)
  BY LogOfFacts
<1>3. LogsOn(<<t>>) \in Seq(Seq(Events)) /\ Len(LogsOn(<<t>>)) = 1 /\ LogsOn(<<t>>)[1] = LogOf(t)
  <2>1. (Len(<<t>>) - 1) + 1 = 1 /\ 1 \in 1 .. Len(<<t>>)
    BY <1>1
  <2>. QED
    BY <1>1, <2>1, LogsOnFacts
<1>4. LogsOn(<<t>>) = <<LogOf(t)>>
  BY <1>2, <1>3
<1>. QED
  BY <1>2, <1>4, FlattenSingle DEF LogOn

\* The part of the log that is to be collected: all before the first event of
\* the transaction seen last.
IsUnseenPart(n) ==
    /\ n \in 0 .. Len(ContractLog)
    /\ \A k \in 1 .. n : ContractLog[k].tx # seen
    /\ n # Len(ContractLog) => ContractLog[n + 1].tx = seen

\* There is one such part.
LEMMA UnseenPartUnique ==
    ASSUME ContractLog \in Seq(Events), NEW m, IsUnseenPart(m), NEW n, IsUnseenPart(n)
    PROVE  m = n
<1>1. Len(ContractLog) \in Nat
  BY LenProperties
<1>2. m < n => m + 1 \in 1 .. n /\ m # Len(ContractLog)
  BY <1>1 DEF IsUnseenPart
<1>3. n < m => n + 1 \in 1 .. m /\ n # Len(ContractLog)
  BY <1>1 DEF IsUnseenPart
<1>4. m \in Nat /\ n \in Nat
  BY <1>1 DEF IsUnseenPart
<1>. QED
  BY <1>2, <1>3, <1>4 DEF IsUnseenPart

\* Its prints are those of the transactions mined after the one seen last.
LEMMA UnseenFacts ==
    ASSUME chain \in Seq(Txs), IsChain(chain), seen \in Txs \cup {NoTx},
           seen # NoTx => Logs[seen] # <<>>
    PROVE  /\ ContractLog \in Seq(Events)
           /\ \E n : IsUnseenPart(n) /\ Unseen = Prints(SubSeq(ContractLog, 1, n))
<1>1. ContractLog = LogOn(chain) /\ Unseen = Prints(LogOn(Later))
  BY DEF ContractLog, LogOn, LogsOn, Unseen, Later, SeenAt
<1>2. /\ Earlier \in Seq(Txs) /\ Later \in Seq(Txs) /\ chain = Earlier \o Later
      /\ ToSet(Later) = ToSet(chain) \ UpTo(chain, seen)
  BY LaterFacts
<1>3. ContractLog \in Seq(Events) /\ LogOn(Later) \in Seq(Events) /\ LogOn(Earlier) \in Seq(Events)
  BY <1>1, <1>2, LogOnType
<1>4. ContractLog = LogOn(Later) \o LogOn(Earlier)
  BY <1>1, <1>2, LogOnConcat
<1>. DEFINE n == Len(LogOn(Later))
<1>5. /\ n \in Nat /\ Len(LogOn(Earlier)) \in Nat
      /\ Len(ContractLog) = n + Len(LogOn(Earlier))
      /\ \A k \in 1 .. n : ContractLog[k] = LogOn(Later)[k]
      /\ Len(LogOn(Earlier)) # 0 => ContractLog[n + 1] = LogOn(Earlier)[1]
  <2>1. \A k \in 1 .. n + Len(LogOn(Earlier)) :
          ContractLog[k] = IF k <= n THEN LogOn(Later)[k] ELSE LogOn(Earlier)[k - n]
    BY <1>3, <1>4, ConcatProperties
  <2>2. n \in Nat /\ Len(LogOn(Earlier)) \in Nat /\ Len(ContractLog) = n + Len(LogOn(Earlier))
    BY <1>3, <1>4, ConcatProperties, LenProperties
  <2>. HIDE DEF n
  <2>. QED
    BY <2>1, <2>2
<1>6. SubSeq(ContractLog, 1, n) = LogOn(Later)
  <2>. HIDE DEF n
  <2>1. /\ SubSeq(ContractLog, 1, n) \in Seq(Events) /\ Len(SubSeq(ContractLog, 1, n)) = n
        /\ \A k \in 1 .. n : SubSeq(ContractLog, 1, n)[k] = ContractLog[k]
    BY <1>3, <1>5
  <2>. QED
    BY <1>3, <1>5, <2>1, SeqEqual DEF n
<1>7. ASSUME NEW k \in 1 .. n
      PROVE  ContractLog[k].tx # seen
  <2>1. LogOn(Later)[k] \in ToSet(LogOn(Later))
    BY <1>3, LenProperties DEF ToSet
  <2>2. LogOn(Later)[k].tx \in ToSet(Later)
    BY <1>2, <2>1, LogOnElements
  <2>3. seen \notin ToSet(Later)
    BY <1>2, UpToFacts
  <2>. QED
    BY <1>5, <2>2, <2>3
<1>8. ASSUME n # Len(ContractLog)
      PROVE  ContractLog[n + 1].tx = seen
  <2>1. Len(LogOn(Earlier)) # 0
    BY <1>5, <1>8
  <2>2. SeenAt # 0
    <3>. SUFFICES ASSUME SeenAt = 0 PROVE FALSE
      OBVIOUS
    <3>1. Earlier = <<>>
      BY SubSeqEmpty DEF Earlier
    <3>2. LogsOn(<<>>) = <<>>
      BY EmptySeq, LogsOnFacts
    <3>. QED
      BY <2>1, <3>1, <3>2, FlattenEmpty DEF LogOn
  <2>3. SeenAt \in 1 .. Len(chain) /\ chain[SeenAt] = seen /\ seen \in Txs /\ Len(chain) \in Nat
    BY <2>2, SeenAtFacts, LenProperties, ElementOfSeq
  <2>. DEFINE rest == SubSeq(chain, 1, SeenAt - 1)
  <2>4. Earlier = rest \o <<seen>> /\ rest \in Seq(Txs) /\ <<seen>> \in Seq(Txs)
    <3>1. SeenAt \in 1 .. Len(chain) /\ 1 \in 1 .. Len(chain) /\ SeenAt \in 1 .. SeenAt
      BY <2>3
    <3>2. Earlier = rest \o <<seen>>
      BY <2>3, <3>1, SubSeqRecursiveSecond DEF Earlier
    <3>3. \A k \in 1 .. SeenAt - 1 : chain[k] \in Txs
      BY <2>3, ElementOfSeq
    <3>4. rest \in Seq(Txs)
      BY <2>3, <3>3, SubSeqProperties
    <3>. QED
      BY <2>3, <3>2, <3>4
  <2>. HIDE DEF rest
  <2>5. LogOn(Earlier) = LogOf(seen) \o LogOn(rest)
    BY <2>3, <2>4, LogOnConcat, LogOnSingle
  <2>6. LogOf(seen) \in Seq(Events) /\ Len(LogOf(seen)) \in Nat \ {0} /\ ToSet(LogOf(seen)) = EventsOf(seen)
    <3>1. seen # NoTx /\ Logs[seen] \in Seq(Topics) /\ Logs[seen] # <<>>
      BY <2>3, NoTxAssumption, LogsAssumption
    <3>2. Len(Logs[seen]) \in Nat \ {0}
      BY <3>1, EmptySeq
    <3>. QED
      BY <2>3, <3>2, LogOfFacts
  <2>7. LogOn(Earlier)[1] = LogOf(seen)[1]
    <3>1. LogOn(rest) \in Seq(Events) /\ Len(LogOn(rest)) \in Nat
      BY <2>4, LogOnType, LenProperties
    <3>2. 1 \in 1 .. Len(LogOf(seen)) + Len(LogOn(rest)) /\ 1 <= Len(LogOf(seen))
      BY <2>6, <3>1
    <3>. QED
      BY <2>5, <2>6, <3>1, <3>2, ConcatProperties
  <2>8. LogOf(seen)[1] \in EventsOf(seen)
    BY <2>6, LenProperties DEF ToSet
  <2>. QED
    BY <1>5, <2>1, <2>3, <2>7, <2>8, EventFacts
<1>9. IsUnseenPart(n)
  <2>. HIDE DEF n
  <2>. QED
    BY <1>5, <1>7, <1>8 DEF IsUnseenPart
<1>. QED
  BY <1>1, <1>3, <1>6, <1>9

\* What is unseen is of the transactions above the one seen last, newest
\* first.
LEMMA UnseenSet ==
    ASSUME chain \in Seq(Txs), IsChain(chain), seen \in Txs \cup {NoTx}
    PROVE  /\ Unseen \in Seq(PrintEvents)
           /\ ToSet(Unseen) = {e \in PrintEvents : e.tx \in ToSet(chain) \ UpTo(chain, seen)}
           /\ Ordered(Unseen, Before(chain))
<1>1. Unseen = Prints(LogOn(Later))
  BY DEF LogOn, LogsOn, Unseen, Later, SeenAt
<1>2. /\ Earlier \in Seq(Txs) /\ Later \in Seq(Txs) /\ chain = Earlier \o Later
      /\ ToSet(Later) = ToSet(chain) \ UpTo(chain, seen)
  BY LaterFacts
<1>3. LogOn(Later) \in Seq(Events) /\ LogOn(Earlier) \in Seq(Events)
  BY <1>2, LogOnType
<1>4. Unseen \in Seq(PrintEvents)
  BY <1>1, <1>3, PrintsType
<1>5. ToSet(Unseen) = {e \in ToSet(LogOn(Later)) : IsPrint(e)}
  BY <1>1, <1>3, PrintsElements
<1>6. ToSet(LogOn(Later)) = {e \in Events : e.tx \in ToSet(Later)}
  BY <1>2, LogOnElements
<1>7. Ordered(LogOn(Later), Before(chain))
  <2>1. Ordered(LogOn(Later) \o LogOn(Earlier), Before(chain))
    BY <1>2, LogOnConcat, LogOnOrdered
  <2>. DEFINE a == LogOn(Later)
              b == LogOn(Earlier)
  <2>2. /\ Len(a) \in Nat /\ Len(b) \in Nat /\ Len(a \o b) = Len(a) + Len(b)
        /\ \A k \in 1 .. Len(a) + Len(b) : (a \o b)[k] = IF k <= Len(a) THEN a[k] ELSE b[k - Len(a)]
    BY <1>3, ConcatProperties, LenProperties
  <2>. HIDE DEF a, b
  <2>3. \A k \in 1 .. Len(a) : k \in 1 .. Len(a \o b) /\ (a \o b)[k] = a[k]
    BY <2>2
  <2>4. Ordered(a, Before(chain))
    BY <2>1, <2>3 DEF Ordered, a, b
  <2>. QED
    BY <2>4 DEF a
<1>8. Ordered(Unseen, Before(chain))
  BY <1>1, <1>3, <1>7, PrintsOrdered
<1>. QED
  BY <1>2, <1>4, <1>5, <1>6, <1>8 DEF PrintEvents

-----------------------------------------------------------------------------
(* The inductive invariant.                                                *)

\* The transaction that is, or is about to be, recorded as the last seen.
Mark == newEvents[1].tx

\* The cron works from the recorded transaction until it records another,
\* and with a tip it has read.
Stages ==
    /\ step = "idle" => newEvents = <<>> /\ offset = 0
    /\ step \in {"page", "endTip", "setLast"} => seen = lastSeen
    /\ startTip <= tip

\* While the tip is the one the run started with, what was collected are the
\* prints of the log down to the offset, and none of the transaction seen
\* last is among them.
Paging ==
    step = "page" /\ tip = startTip =>
        /\ offset <= Len(ContractLog)
        /\ newEvents = Prints(SubSeq(ContractLog, 1, offset))
        /\ \A o \in 1 .. offset : ContractLog[o].tx # seen

\* What is recorded as seen has events, so that the log shows it.
Marked == lastSeen # NoTx => Logs[lastSeen] # <<>>

\* Events are enqueued at all only after the tip was compared, and every one
\* once.
Batch ==
    step \in {"setLast", "addBulk"} =>
        /\ newEvents # <<>>
        /\ \A k, l \in 1 .. Len(newEvents) : newEvents[k] = newEvents[l] => k = l

\* The transaction seen last is on the chain, and the cron has enqueued
\* nothing above it.
OnChain ==
    ~uprooted =>
        /\ lastSeen # NoTx => lastSeen \in ToSet(chain)
        /\ \A e \in Events : enqueued[e] > 0 => e.tx \in UpTo(chain, lastSeen)

\* Until the mark is recorded, the batch is of the transactions above the
\* one seen last, up to the mark.
BeforeMark ==
    ~uprooted /\ step = "setLast" =>
        /\ Mark \in ToSet(chain)
        /\ UpTo(chain, lastSeen) \subseteq UpTo(chain, Mark)
        /\ ToSet(newEvents) = {e \in PrintEvents : e.tx \in UpTo(chain, Mark) \ UpTo(chain, lastSeen)}

\* Once it is, they are up to the mark, and not enqueued yet.
AfterMark ==
    ~uprooted /\ step = "addBulk" =>
        /\ lastSeen = Mark
        /\ \A e \in ToSet(newEvents) : e.tx \in UpTo(chain, lastSeen) /\ enqueued[e] = 0

\* Every print up to the transaction seen last was enqueued, or is about to
\* be, or a fault hit in between.
Covered ==
    ~uprooted =>
        \A e \in PrintEvents :
            e.tx \in UpTo(chain, lastSeen) => enqueued[e] > 0 \/ e \in InHand \cup lost

\* What a job of the events queue may still deliver.
InWork(e) == IF task = e /\ taskStep \in {"deserialize", "add"} THEN 1 ELSE 0
Deliveries ==
    /\ taskStep # "idle" => task \in Events
    /\ \A e \in Events :
          delivered[e] + waiting[e] + InWork(e) <= enqueued[e] + IF e \in stalled THEN 1 ELSE 0

\* What the cron and the chain keep between them.
CronInv ==
    /\ IsChain(chain)
    /\ Stages
    /\ Paging
    /\ BatchIsExact
    /\ Marked
    /\ Batch
    /\ OnChain
    /\ BeforeMark
    /\ AfterMark
    /\ Covered
    /\ EnqueuedOnce

IInv == TypeOK /\ CronInv /\ Deliveries

\* It holds at the start.
LEMMA InitIInv == Init => IInv
<1>. SUFFICES ASSUME Init PROVE IInv
  OBVIOUS
<1>1. TypeOK
  <2>1. 0 \in 0 .. MaxTip /\ 0 \in 0 .. MaxForks /\ 0 \in 0 .. MaxFaults
    BY BoundAssumption
  <2>2. chain \in Seq(Txs) /\ newEvents \in Seq({e \in Events : IsPrint(e)})
    BY EmptySeq DEF Init
  <2>3. [e \in Events |-> 0] \in [Events -> Nat]
    OBVIOUS
  <2>. QED
    BY <2>1, <2>2, <2>3 DEF Init, TypeOK
<1>2. IsChain(chain) /\ Stages /\ Marked /\ Batch /\ BeforeMark /\ AfterMark /\ EnqueuedOnce
  BY BoundAssumption DEF Init, IsChain, Stages, Marked, Batch, BeforeMark, AfterMark, EnqueuedOnce
<1>3. Paging /\ BatchIsExact
  BY DEF Init, Paging, BatchIsExact
<1>4. OnChain
  BY DEF Init, OnChain
<1>5. Covered
  BY DEF Init, Covered, UpTo
<1>6. Deliveries
  BY DEF Init, Deliveries, InWork
<1>. QED
  BY <1>1, <1>2, <1>3, <1>4, <1>5, <1>6 DEF IInv, CronInv

-----------------------------------------------------------------------------
(* Steps that leave the cron, or the jobs, alone.                          *)

\* The log and the batch to be collected depend on the chain only.
LEMMA SameLog ==
    ASSUME chain' = chain
    PROVE  ContractLog' = ContractLog
BY DEF ContractLog

\* And so the part above the transaction seen.
LEMMA SameUnseen ==
    ASSUME chain' = chain, seen' = seen
    PROVE  Unseen' = Unseen
<1>1. (SelectInSeq(chain, LAMBDA t : t = seen))' = SelectInSeq(chain, LAMBDA t : t = seen)
  BY DEF SelectInSeq
<1>. QED
  BY <1>1 DEF Unseen

\* A step of the events worker does not concern the cron.
LEMMA CronFrame ==
    ASSUME CronInv, UNCHANGED <<network, lastSeen, cron, enqueued, lost, uprooted>>
    PROVE  CronInv'
<1>. USE DEF CronInv, network, cron
<1>1. IsChain(chain)' /\ Stages' /\ Marked' /\ Batch' /\ EnqueuedOnce'
  BY DEF IsChain, Stages, Marked, Batch, EnqueuedOnce
<1>2. Paging' /\ BatchIsExact'
  BY SameLog, SameUnseen DEF Paging, BatchIsExact
<1>3. OnChain'
  BY DEF OnChain
<1>4. BeforeMark' /\ AfterMark'
  BY DEF BeforeMark, AfterMark, Mark
<1>5. Covered'
  BY DEF Covered, InHand
<1>. QED
  BY <1>1, <1>2, <1>3, <1>4, <1>5

\* Nor does one of the chain or of the cron concern the jobs, unless it adds
\* some.
LEMMA JobsFrame ==
    ASSUME Deliveries, UNCHANGED <<events, worker, enqueued>>
    PROVE  Deliveries'
BY DEF Deliveries, InWork, events, worker

\* A cron that is idle has nothing but what is recorded to account for.
LEMMA Idles ==
    ASSUME TypeOK, CronInv, step' = "idle", newEvents' = <<>>, offset' = 0, startTip' \in 0 .. tip,
           UNCHANGED <<network, lastSeen, enqueued, uprooted>>, lost' = lost \cup InHand
    PROVE  CronInv'
<1>. USE DEF CronInv, network
<1>1. IsChain(chain)' /\ Stages' /\ Marked' /\ Batch' /\ EnqueuedOnce'
  BY DEF TypeOK, IsChain, Stages, Marked, Batch, EnqueuedOnce
<1>2. Paging' /\ BatchIsExact' /\ BeforeMark' /\ AfterMark'
  BY DEF Paging, BatchIsExact, BeforeMark, AfterMark
<1>3. OnChain'
  BY DEF OnChain
<1>4. Covered'
  BY DEF Covered, InHand
<1>. QED
  BY <1>1, <1>2, <1>3, <1>4

-----------------------------------------------------------------------------
(* The chain's steps.                                                      *)

\* The transactions whose places on the chain the invariant speaks of.
Marks == {lastSeen} \cup IF step \in {"setLast", "addBulk"} THEN {Mark} ELSE {}

\* A block or a fork changes the tip, so that a run of the cron under way
\* will not use what it collects; what is recorded, or about to be, stays
\* where it was.
LEMMA ChainMoves ==
    ASSUME TypeOK, CronInv, IsChain(chain'), tip' = tip + 1,
           UNCHANGED <<lastSeen, cron, enqueued, lost>>,
           ~uprooted' => ~uprooted,
           ~uprooted' => \A t \in Marks : /\ t \in ToSet(chain) => t \in ToSet(chain')
                                          /\ UpTo(chain', t) = UpTo(chain, t)
    PROVE  CronInv'
<1>. USE DEF CronInv, cron
<1>1. tip \in Nat /\ startTip \in Nat /\ startTip <= tip
  BY BoundAssumption DEF TypeOK, Stages
<1>2. startTip' < tip'
  BY <1>1
<1>3. Stages' /\ Marked' /\ Batch' /\ Paging' /\ BatchIsExact'
  BY <1>1, <1>2 DEF Stages, Marked, Batch, Paging, BatchIsExact
<1>4. IsChain(chain)'
  BY DEF IsChain
<1>5. ASSUME ~uprooted'
      PROVE  /\ ~uprooted
             /\ lastSeen \in ToSet(chain) => lastSeen \in ToSet(chain')
             /\ UpTo(chain', lastSeen) = UpTo(chain, lastSeen)
             /\ step \in {"setLast", "addBulk"} =>
                  /\ Mark \in ToSet(chain) => Mark \in ToSet(chain')
                  /\ UpTo(chain', Mark) = UpTo(chain, Mark)
  BY <1>5 DEF Marks
<1>6. Mark' = Mark /\ InHand' = InHand
  BY DEF Mark, InHand
<1>7. OnChain' /\ Covered' /\ EnqueuedOnce'
  <2>. SUFFICES ASSUME ~uprooted' PROVE OnChain' /\ Covered' /\ EnqueuedOnce'
    BY DEF OnChain, Covered, EnqueuedOnce
  <2>1. UpTo(chain, lastSeen)' = UpTo(chain, lastSeen)
    BY <1>5 DEF UpTo
  <2>2. OnChain'
    BY <1>5, <2>1 DEF OnChain
  <2>3. Covered'
    BY <1>5, <1>6, <2>1 DEF Covered
  <2>. QED
    BY <1>5, <2>2, <2>3 DEF EnqueuedOnce
<1>8. BeforeMark' /\ AfterMark'
  <2>. SUFFICES ASSUME ~uprooted', step \in {"setLast", "addBulk"}
                PROVE  BeforeMark' /\ AfterMark'
    BY DEF BeforeMark, AfterMark
  <2>1. UpTo(chain, lastSeen)' = UpTo(chain, lastSeen) /\ UpTo(chain, Mark)' = UpTo(chain, Mark)
    BY <1>5, <1>6 DEF UpTo
  <2>2. BeforeMark'
    BY <1>5, <1>6, <2>1 DEF BeforeMark
  <2>3. AfterMark'
    BY <1>5, <1>6, <2>1 DEF AfterMark
  <2>. QED
    BY <2>2, <2>3
<1>. QED
  BY <1>3, <1>4, <1>7, <1>8

\* What is recorded as seen, or is about to be, is on the chain, unless it is
\* null or a fork took it.
LEMMA MarksOnChain ==
    ASSUME TypeOK, CronInv, ~uprooted, NEW t \in Marks
    PROVE  t = NoTx \/ t \in ToSet(chain)
BY DEF CronInv, OnChain, BeforeMark, AfterMark, Marks

\* A mined transaction is above all that is recorded.
LEMMA MineStep ==
    ASSUME IInv, NEW t \in Txs, Mine(t)
    PROVE  IInv'
<1>. USE DEF IInv, network
<1>1. chain \in Seq(Txs) /\ Len(chain) \in Nat /\ tip \in 0 .. MaxTip /\ MaxTip \in Nat
  BY LenProperties, BoundAssumption DEF TypeOK
<1>2. /\ chain' = Append(chain, t) /\ tip' = tip + 1 /\ tip < MaxTip /\ t \notin ToSet(chain)
      /\ UNCHANGED <<forks, lastSeen, events, cron, worker, faults, enqueued, lost, uprooted>>
  BY DEF Mine
<1>3. /\ chain' \in Seq(Txs) /\ Len(chain') = Len(chain) + 1
      /\ \A k \in 1 .. Len(chain) : chain'[k] = chain[k]
      /\ chain'[Len(chain) + 1] = t
  BY <1>1, <1>2, AppendProperties
<1>4. TypeOK'
  BY <1>1, <1>2, <1>3 DEF TypeOK, events, cron, worker
<1>5. IsChain(chain')
  <2>1. \A k \in 1 .. Len(chain) : chain[k] # t
    BY <1>1, <1>2, LenProperties DEF ToSet
  <2>2. \A k \in 1 .. Len(chain) + 1 : k \in 1 .. Len(chain) \/ k = Len(chain) + 1
    BY <1>1
  <2>3. IsChain(chain)
    BY DEF CronInv
  <2>. QED
    BY <1>3, <2>1, <2>2, <2>3 DEF IsChain
<1>6. ASSUME ~uprooted', NEW u \in Marks
      PROVE  /\ u \in ToSet(chain) => u \in ToSet(chain')
             /\ UpTo(chain', u) = UpTo(chain, u)
  <2>1. u # t
    BY <1>2, <1>6, MarksOnChain, NoTxAssumption
  <2>2. UpTo(chain', u) = UpTo(chain, u)
    BY <1>1, <1>2, <2>1, UpToAppend
  <2>3. ToSet(chain) \subseteq ToSet(chain')
    BY <1>1, <1>3, LenProperties DEF ToSet
  <2>. QED
    BY <2>2, <2>3
<1>7. CronInv'
  BY <1>2, <1>5, <1>6, ChainMoves
<1>. QED
  BY <1>2, <1>4, <1>7, JobsFrame

\* A fork that takes what is recorded is excepted; any other leaves it in place.
LEMMA ForkStep ==
    ASSUME IInv, NEW k \in 0 .. Len(chain), Fork(k)
    PROVE  IInv'
<1>. USE DEF IInv, network
<1>1. /\ chain \in Seq(Txs) /\ Len(chain) \in Nat /\ k \in Nat /\ k <= Len(chain)
      /\ tip \in 0 .. MaxTip /\ MaxTip \in Nat /\ forks \in 0 .. MaxForks /\ MaxForks \in Nat
  BY LenProperties, BoundAssumption DEF TypeOK
<1>2. /\ chain' = SubSeq(chain, 1, k) /\ tip' = tip + 1 /\ tip < MaxTip
      /\ forks' = forks + 1 /\ forks < MaxForks
      /\ uprooted' = (uprooted \/ \E i \in k + 1 .. Len(chain) : chain[i] \in SeenTxs)
      /\ UNCHANGED <<lastSeen, events, cron, worker, faults, enqueued, lost>>
  BY DEF Fork
<1>3. /\ chain' \in Seq(Txs) /\ Len(chain') = k
      /\ \A i \in 1 .. k : chain'[i] = chain[i]
  <2>1. \A i \in 1 .. k : chain[i] \in Txs
    BY <1>1, ElementOfSeq
  <2>. QED
    BY <1>1, <1>2, <2>1
<1>4. TypeOK'
  BY <1>1, <1>2, <1>3 DEF TypeOK, events, cron, worker
<1>5. IsChain(chain')
  <2>1. IsChain(chain) /\ \A i \in 1 .. k : i \in 1 .. Len(chain)
    BY <1>1 DEF CronInv
  <2>. QED
    BY <1>3, <2>1 DEF IsChain
<1>6. ASSUME ~uprooted', NEW u \in Marks
      PROVE  /\ u \in ToSet(chain) => u \in ToSet(chain')
             /\ UpTo(chain', u) = UpTo(chain, u)
  <2>1. \A i \in k + 1 .. Len(chain) : chain[i] # u
    BY <1>2, <1>6 DEF Marks, SeenTxs, Mark
  <2>2. UpTo(chain', u) = UpTo(chain, u)
    BY <1>1, <1>2, <2>1, UpToPrefix
  <2>3. \A i \in 1 .. Len(chain) : i \in 1 .. k \/ i \in k + 1 .. Len(chain)
    BY <1>1
  <2>4. u \in ToSet(chain) => u \in ToSet(chain')
    BY <1>1, <1>3, <2>1, <2>3, LenProperties DEF ToSet
  <2>. QED
    BY <2>2, <2>4
<1>7. CronInv'
  BY <1>2, <1>5, <1>6, ChainMoves
<1>. QED
  BY <1>2, <1>4, <1>7, JobsFrame

-----------------------------------------------------------------------------
(* The cron's steps.                                                       *)

\* A run has collected nothing, down to offset 0.
LEMMA StartCronStep ==
    ASSUME IInv, StartCron
    PROVE  IInv'
<1>. USE DEF IInv, network, StartCron
<1>1. tip \in Nat /\ startTip' = tip /\ seen' = lastSeen
  BY BoundAssumption DEF TypeOK
<1>2. newEvents = <<>> /\ offset = 0 /\ newEvents' = <<>> /\ offset' = 0
  BY DEF CronInv, Stages
<1>3. TypeOK'
  BY DEF TypeOK, events, worker
<1>. USE DEF CronInv
<1>4. IsChain(chain)' /\ Stages' /\ Marked' /\ Batch' /\ BatchIsExact' /\ EnqueuedOnce'
  BY <1>1 DEF IsChain, Stages, Marked, Batch, BatchIsExact, EnqueuedOnce
<1>5. Paging'
  <2>1. ContractLog' = ContractLog /\ Len(ContractLog) \in Nat /\ ContractLog \in Seq(Events)
    BY SameLog, LogOnType, LenProperties DEF ContractLog, LogOn, LogsOn, TypeOK
  <2>2. SubSeq(ContractLog, 1, 0) = <<>>
    BY <2>1, SubSeqEmpty
  <2>3. Prints(<<>>) = <<>>
    BY FlattenEmpty DEF Prints
  <2>4. newEvents' = Prints(SubSeq(ContractLog, 1, offset'))
    BY <1>2, <2>2, <2>3, Zenon
  <2>5. offset' <= Len(ContractLog) /\ \A o \in 1 .. offset' : FALSE
    BY <1>2, <2>1
  <2>. QED
    BY <2>1, <2>4, <2>5 DEF Paging
<1>6. OnChain' /\ BeforeMark' /\ AfterMark' /\ Covered'
  BY DEF OnChain, BeforeMark, AfterMark, Covered, InHand
<1>. QED
  BY <1>3, <1>4, <1>5, <1>6, JobsFrame

\* While the log stays, a page extends what was collected by the prints that
\* follow; the page that reaches the end, or the transaction seen last,
\* completes the batch.
LEMMA PageAdds ==
    ASSUME IInv, GetBridgeEvents, tip = startTip
    PROVE  Paging' /\ BatchIsExact'
<1>. DEFINE log == ContractLog
            page == PageOf(log, offset)
            newer == Newer(page)
<1>1. /\ step = "page" /\ newEvents' = newEvents \o Prints(newer)
      /\ \/ (page = <<>> \/ newer # page) /\ step' = "endTip" /\ offset' = offset
         \/ page # <<>> /\ newer = page /\ step' = "page" /\ offset' = offset + Len(page)
      /\ UNCHANGED <<network, lastSeen, events, seen, startTip, worker, faults, enqueued, lost, uprooted>>
  BY DEF GetBridgeEvents, SelectPrints, NextOffset
<1>2. log' = log /\ Unseen' = Unseen
  BY <1>1, SameLog, SameUnseen DEF network
<1>3. /\ offset \in Nat /\ offset <= Len(log)
      /\ newEvents = Prints(SubSeq(log, 1, offset))
      /\ \A o \in 1 .. offset : log[o].tx # seen
  BY <1>1 DEF IInv, TypeOK, CronInv, Paging
<1>4. /\ log \in Seq(Events)
      /\ \E n : IsUnseenPart(n) /\ Unseen = Prints(SubSeq(log, 1, n))
  BY <1>1, UnseenFacts DEF IInv, TypeOK, CronInv, Stages, Marked
<1>5. /\ page \in Seq(Events) /\ offset + Len(page) <= Len(log)
      /\ \A k \in 1 .. Len(page) : page[k] = log[offset + k]
      /\ page = <<>> => offset = Len(log)
      /\ Len(page) \in Nat /\ Len(log) \in Nat
  BY <1>3, <1>4, PageFacts, LenProperties
<1>. HIDE DEF page
<1>6. PICK n \in 0 .. Len(page) :
          /\ newer = SubSeq(page, 1, n)
          /\ \A k \in 1 .. n : page[k].tx # seen
          /\ n # Len(page) => page[n + 1].tx = seen
  BY <1>5, NewerFacts
<1>. HIDE DEF log, newer
<1>7. newEvents' = Prints(SubSeq(log, 1, offset + n))
  <2>1. SubSeq(log, 1, offset) \o newer = SubSeq(log, 1, offset + n)
    BY <1>3, <1>4, <1>5, <1>6, NextPart
  <2>2. SubSeq(log, 1, offset) \in Seq(Events) /\ newer \in Seq(Events)
    <3>1. \A k \in 1 .. offset : log[k] \in Events
      BY <1>3, <1>4, <1>5, ElementOfSeq
    <3>2. \A k \in 1 .. n : page[k] \in Events
      BY <1>5, ElementOfSeq
    <3>. QED
      BY <1>3, <1>4, <1>5, <1>6, <3>1, <3>2
  <2>. QED
    BY <1>1, <1>3, <2>1, <2>2, PrintsConcat
<1>8. \A k \in 1 .. offset + n : log[k].tx # seen
  <2>. SUFFICES ASSUME NEW k \in 1 .. offset + n PROVE log[k].tx # seen
    OBVIOUS
  <2>1. CASE k <= offset
    BY <1>3, <2>1
  <2>2. CASE ~(k <= offset)
    <3>1. k - offset \in 1 .. n /\ k - offset \in 1 .. Len(page) /\ offset + (k - offset) = k
      BY <1>3, <1>5, <2>2
    <3>. QED
      BY <1>5, <1>6, <3>1
  <2>. QED
    BY <2>1, <2>2
<1>9. CASE (page = <<>> \/ newer # page) /\ step' = "endTip"
  <2>1. offset + n # Len(log) => n + 1 \in 1 .. Len(page) /\ n # Len(page)
    <3>1. CASE page = <<>>
      BY <1>3, <1>5, <1>6, <3>1
    <3>2. CASE page # <<>>
      <4>1. n # Len(page)
        BY <1>5, <1>6, <1>9, <3>2, SubSeqFull
      <4>. QED
        BY <1>5, <4>1
    <3>. QED
      BY <3>1, <3>2
  <2>2. offset + n # Len(log) => log[offset + n + 1].tx = seen
    <3>1. offset + (n + 1) = offset + n + 1
      BY <1>3, <1>5
    <3>. QED
      BY <1>5, <1>6, <2>1, <3>1
  <2>3. IsUnseenPart(offset + n)
    <3>1. offset + n \in 0 .. Len(log)
      BY <1>3, <1>5
    <3>. QED
      BY <1>8, <2>2, <3>1 DEF IsUnseenPart, log
  <2>4. newEvents' = Unseen
    BY <1>4, <1>7, <2>3, UnseenPartUnique DEF log
  <2>. QED
    BY <1>2, <1>9, <2>4 DEF Paging, BatchIsExact
<1>10. CASE newer = page /\ step' = "page" /\ offset' = offset + Len(page)
  <2>1. n = Len(page)
    <3>1. \A k \in 1 .. n : page[k] \in Events
      BY <1>5, ElementOfSeq
    <3>2. Len(SubSeq(page, 1, n)) = n
      BY <1>5, <3>1
    <3>. QED
      BY <1>6, <1>10, <3>2
  <2>2. /\ offset' <= Len(log)
        /\ newEvents' = Prints(SubSeq(log, 1, offset'))
        /\ \A k \in 1 .. offset' : log[k].tx # seen
    BY <1>5, <1>7, <1>8, <1>10, <2>1
  <2>3. ContractLog' = log /\ seen' = seen
    BY <1>1, <1>2 DEF log
  <2>4. Paging'
    BY <2>2, <2>3 DEF Paging
  <2>. QED
    BY <1>10, <2>4 DEF BatchIsExact
<1>. QED
  BY <1>1, <1>9, <1>10

\* A page adds prints to the batch, and nothing else.
LEMMA GetBridgeEventsStep ==
    ASSUME IInv, GetBridgeEvents
    PROVE  IInv'
<1>. DEFINE page == PageOf(ContractLog, offset)
            newer == Newer(page)
<1>1. /\ step = "page" /\ newEvents' = newEvents \o Prints(newer)
      /\ \/ step' = "endTip" /\ offset' = offset
         \/ step' = "page" /\ offset' = offset + Len(page)
      /\ UNCHANGED <<network, lastSeen, events, seen, startTip, worker, faults, enqueued, lost, uprooted>>
  BY DEF GetBridgeEvents, SelectPrints, NextOffset
<1>2. TypeOK'
  <2>1. offset \in Nat /\ ContractLog \in Seq(Events)
    BY LogOnType DEF IInv, TypeOK, ContractLog, LogOn, LogsOn
  <2>2. page \in Seq(Events) /\ Len(page) \in Nat
    BY <2>1, PageFacts, LenProperties
  <2>. HIDE DEF page
  <2>3. newer \in Seq(Events)
    <3>1. PICK n \in 0 .. Len(page) : newer = SubSeq(page, 1, n)
      BY <2>2, NewerFacts
    <3>2. \A k \in 1 .. n : page[k] \in Events
      BY <2>2, <3>1, ElementOfSeq
    <3>. QED
      BY <2>2, <3>1, <3>2
  <2>. HIDE DEF newer
  <2>4. newEvents' \in Seq({e \in Events : IsPrint(e)})
    <3>1. newEvents \in Seq(PrintEvents) /\ Prints(newer) \in Seq(PrintEvents)
      BY <2>3, PrintsType DEF IInv, TypeOK, PrintEvents
    <3>2. newEvents' \in Seq(PrintEvents)
      BY <1>1, <3>1, ConcatProperties
    <3>. QED
      BY <3>2 DEF PrintEvents
  <2>5. offset' \in Nat
    BY <1>1, <2>1, <2>2
  <2>. QED
    BY <1>1, <2>4, <2>5 DEF IInv, TypeOK, network, events, worker
<1>. HIDE DEF page, newer
<1>3. CronInv'
  <2>. USE DEF IInv, CronInv, network
  <2>1. IsChain(chain)' /\ Stages' /\ Marked' /\ Batch' /\ EnqueuedOnce'
    BY <1>1 DEF IsChain, Stages, Marked, Batch, EnqueuedOnce
  <2>2. Paging' /\ BatchIsExact'
    BY <1>1, PageAdds DEF Paging, BatchIsExact
  <2>3. OnChain' /\ BeforeMark' /\ AfterMark' /\ Covered'
    BY <1>1 DEF OnChain, BeforeMark, AfterMark, Covered, InHand
  <2>. QED
    BY <2>1, <2>2, <2>3
<1>. QED
  BY <1>1, <1>2, <1>3, JobsFrame DEF IInv

\* On the chain, whichever of two transactions is not below the other is
\* above it.
LEMMA UpToOrder ==
    ASSUME NEW c \in Seq(Txs), NEW t, NEW u \in ToSet(c) \ UpTo(c, t)
    PROVE  UpTo(c, t) \subseteq UpTo(c, u)
<1>1. Len(c) \in Nat /\ DOMAIN c = 1 .. Len(c)
  BY LenProperties
<1>2. PICK p \in 1 .. Len(c) : c[p] = u
  BY <1>1 DEF ToSet
<1>3. \A q \in 1 .. Len(c) : c[q] = t => q < p
  BY <1>1, <1>2 DEF UpTo
<1>. QED
  BY <1>1, <1>2, <1>3 DEF UpTo

\* The batch the cron is left with when the tip has not moved.
LEMMA BatchFacts ==
    ASSUME TypeOK, CronInv, newEvents = Unseen, newEvents # <<>>
    PROVE  /\ \A k, l \in 1 .. Len(newEvents) : newEvents[k] = newEvents[l] => k = l
           /\ Mark \in ToSet(chain)
           /\ UpTo(chain, seen) \subseteq UpTo(chain, Mark)
           /\ ToSet(newEvents) = {e \in PrintEvents : e.tx \in UpTo(chain, Mark) \ UpTo(chain, seen)}
<1>1. /\ chain \in Seq(Txs) /\ newEvents \in Seq(PrintEvents)
      /\ ToSet(newEvents) = {e \in PrintEvents : e.tx \in ToSet(chain) \ UpTo(chain, seen)}
      /\ Ordered(newEvents, Before(chain))
  BY UnseenSet DEF TypeOK, CronInv
<1>2. Len(newEvents) \in Nat \ {0} /\ DOMAIN newEvents = 1 .. Len(newEvents) /\ 1 \in 1 .. Len(newEvents)
  BY <1>1, LenProperties, EmptySeq
<1>3. ASSUME NEW k \in 1 .. Len(newEvents), NEW l \in 1 .. Len(newEvents), k < l
      PROVE  newEvents[k] # newEvents[l]
  <2>1. <<newEvents[k], newEvents[l]>> \in Before(chain)
    BY <1>1, <1>3 DEF Ordered
  <2>. QED
    BY <2>1 DEF Before
<1>4. \A k, l \in 1 .. Len(newEvents) : newEvents[k] = newEvents[l] => k = l
  BY <1>2, <1>3
<1>5. newEvents[1] \in ToSet(newEvents)
  BY <1>2 DEF ToSet
<1>6. Mark \in ToSet(chain) \ UpTo(chain, seen)
  BY <1>1, <1>5 DEF Mark
<1>7. UpTo(chain, seen) \subseteq UpTo(chain, Mark)
  BY <1>1, <1>6, UpToOrder
<1>8. ASSUME NEW e \in ToSet(newEvents)
      PROVE  e.tx \in UpTo(chain, Mark)
  <2>1. PICK k \in 1 .. Len(newEvents) : e = newEvents[k]
    BY <1>2 DEF ToSet
  <2>2. CASE k = 1
    BY <1>1, <1>6, <2>1, <2>2, UpToFacts DEF Mark
  <2>3. CASE k # 1
    <3>1. <<newEvents[1], e>> \in Before(chain)
      BY <1>1, <1>2, <2>1, <2>3 DEF Ordered
    <3>2. PICK m, l \in 1 .. Len(chain) : l <= m /\ Mark = chain[m] /\ e.tx = chain[l]
      BY <3>1 DEF Before, Mark
    <3>. QED
      BY <3>2 DEF UpTo
  <2>. QED
    BY <2>2, <2>3
<1>9. UpTo(chain, Mark) \subseteq ToSet(chain)
  BY <1>1, UpToFacts
<1>. QED
  BY <1>1, <1>4, <1>6, <1>7, <1>8, <1>9

\* The batch is kept only if the tip has not moved, and is exact then.
LEMMA FetchEndTipStep ==
    ASSUME IInv, FetchEndTip
    PROVE  IInv'
<1>1. /\ step = "endTip"
      /\ UNCHANGED <<network, lastSeen, events, worker, faults, enqueued, lost, uprooted>>
  BY DEF FetchEndTip
<1>2. Deliveries'
  BY <1>1, JobsFrame DEF IInv
<1>3. CASE Leave
  <2>1. TypeOK'
    BY <1>1, <1>3, BoundAssumption, EmptySeq DEF IInv, TypeOK, Leave, network, events, worker
  <2>2. InHand = {} /\ 0 \in 0 .. tip
    BY <1>1, BoundAssumption DEF InHand, IInv, TypeOK
  <2>3. CronInv'
    BY <1>1, <1>3, <2>2, Idles DEF IInv, Leave
  <2>. QED
    BY <1>2, <2>1, <2>3 DEF IInv
<1>4. CASE ~TipMoved /\ newEvents # <<>> /\ step' = "setLast" /\ UNCHANGED <<seen, startTip, newEvents, offset>>
  <2>1. TypeOK'
    BY <1>1, <1>4 DEF IInv, TypeOK, network, events, worker
  <2>2. newEvents = Unseen /\ seen = lastSeen
    BY <1>1, <1>4 DEF IInv, CronInv, BatchIsExact, Stages, TipMoved
  <2>3. /\ \A k, l \in 1 .. Len(newEvents) : newEvents[k] = newEvents[l] => k = l
        /\ Mark \in ToSet(chain)
        /\ UpTo(chain, lastSeen) \subseteq UpTo(chain, Mark)
        /\ ToSet(newEvents) = {e \in PrintEvents : e.tx \in UpTo(chain, Mark) \ UpTo(chain, lastSeen)}
    BY <1>4, <2>2, BatchFacts DEF IInv
  <2>4. CronInv'
    <3>. USE <1>1, <1>4 DEF IInv, CronInv, network
    <3>1. IsChain(chain)' /\ Stages' /\ Marked' /\ EnqueuedOnce' /\ Paging' /\ BatchIsExact'
      BY DEF IsChain, Stages, Marked, EnqueuedOnce, Paging, BatchIsExact
    <3>2. Batch'
      BY <2>3 DEF Batch
    <3>3. BeforeMark'
      BY <2>3 DEF BeforeMark, Mark
    <3>4. OnChain' /\ AfterMark' /\ Covered'
      BY DEF OnChain, AfterMark, Covered, InHand
    <3>. QED
      BY <3>1, <3>2, <3>3, <3>4
  <2>. QED
    BY <1>2, <2>1, <2>4 DEF IInv
<1>. QED
  BY <1>3, <1>4 DEF FetchEndTip

\* The mark moves up by what is in hand.
LEMMA SetLastSeenTxidStep ==
    ASSUME IInv, SetLastSeenTxid
    PROVE  IInv'
<1>1. /\ step = "setLast" /\ lastSeen' = Mark /\ step' = "addBulk"
      /\ UNCHANGED <<network, events, seen, startTip, newEvents, offset, worker, faults, enqueued, lost, uprooted>>
  BY DEF SetLastSeenTxid, FirstEvent, Mark
<1>2. newEvents \in Seq(PrintEvents) /\ newEvents[1] \in PrintEvents /\ newEvents # <<>>
  <2>1. newEvents \in Seq(PrintEvents) /\ newEvents # <<>>
    BY <1>1 DEF IInv, TypeOK, CronInv, Batch, PrintEvents
  <2>2. 1 \in 1 .. Len(newEvents)
    BY <2>1, LenProperties, EmptySeq
  <2>. QED
    BY <2>1, <2>2, ElementOfSeq
<1>3. newEvents[1] \in Events /\ Mark \in Txs /\ newEvents[1] \in EventsOf(Mark)
  BY <1>2, EventFacts DEF PrintEvents, Mark
<1>4. TypeOK'
  BY <1>1, <1>3 DEF IInv, TypeOK, network, events, worker
<1>5. CronInv'
  <2>. USE <1>1 DEF IInv, CronInv, network
  <2>1. IsChain(chain)' /\ Stages' /\ Paging' /\ BatchIsExact' /\ Batch' /\ BeforeMark' /\ EnqueuedOnce'
    BY DEF IsChain, Stages, Paging, BatchIsExact, Batch, BeforeMark, EnqueuedOnce
  <2>2. Marked'
    <3>1. Logs[Mark] \in Seq(Topics) /\ DOMAIN Logs[Mark] # {}
      BY <1>3, LogsAssumption DEF EventsOf
    <3>. QED
      BY <3>1 DEF Marked
  <2>3. ASSUME ~uprooted
        PROVE  OnChain' /\ AfterMark' /\ Covered'
    <3>1. /\ Mark \in ToSet(chain)
          /\ UpTo(chain, lastSeen) \subseteq UpTo(chain, Mark)
          /\ ToSet(newEvents) = {e \in PrintEvents : e.tx \in UpTo(chain, Mark) \ UpTo(chain, lastSeen)}
          /\ \A e \in Events : enqueued[e] > 0 => e.tx \in UpTo(chain, lastSeen)
      BY <2>3 DEF BeforeMark, OnChain
    <3>2. \A e \in Events : enqueued[e] \in Nat
      BY DEF TypeOK
    <3>3. OnChain'
      BY <3>1 DEF OnChain
    <3>4. AfterMark'
      <4>1. \A e \in ToSet(newEvents) : e.tx \in UpTo(chain, Mark) /\ enqueued[e] = 0
        BY <3>1, <3>2 DEF PrintEvents
      <4>. QED
        BY <4>1 DEF AfterMark, Mark
    <3>5. Covered'
      <4>1. \A e \in PrintEvents :
              e.tx \in UpTo(chain, lastSeen) => enqueued[e] > 0 \/ e \in lost
        BY <2>3 DEF Covered, InHand
      <4>. QED
        BY <3>1, <4>1 DEF Covered, InHand
    <3>. QED
      BY <3>3, <3>4, <3>5
  <2>. QED
    BY <2>1, <2>2, <2>3 DEF OnChain, AfterMark, Covered
<1>. QED
  BY <1>1, <1>4, <1>5, JobsFrame DEF IInv

\* An event of a batch without repetitions occurs in it once.
LEMMA OccurrencesFacts ==
    ASSUME TypeOK, \A k, l \in 1 .. Len(newEvents) : newEvents[k] = newEvents[l] => k = l, NEW e
    PROVE  Occurrences(e) = IF e \in ToSet(newEvents) THEN 1 ELSE 0
<1>1. DOMAIN newEvents = 1 .. Len(newEvents)
  BY LenProperties DEF TypeOK
<1>2. CASE e \in ToSet(newEvents)
  <2>1. PICK k \in 1 .. Len(newEvents) : newEvents[k] = e
    BY <1>1, <1>2 DEF ToSet
  <2>2. {l \in DOMAIN newEvents : newEvents[l] = e} = {k}
    BY <1>1, <2>1
  <2>. QED
    BY <1>2, <2>2, FS_Singleton DEF Occurrences
<1>3. CASE e \notin ToSet(newEvents)
  <2>1. {l \in DOMAIN newEvents : newEvents[l] = e} = {}
    BY <1>3 DEF ToSet
  <2>. QED
    BY <1>3, <2>1, FS_EmptySet DEF Occurrences
<1>. QED
  BY <1>2, <1>3

\* What was in hand is enqueued, each event once.
LEMMA AddBulkStep ==
    ASSUME IInv, AddBulk
    PROVE  IInv'
<1>1. /\ step = "addBulk"
      /\ waiting' = [e \in Events |-> waiting[e] + Occurrences(e)]
      /\ enqueued' = [e \in Events |-> enqueued[e] + Occurrences(e)]
      /\ Leave
      /\ UNCHANGED <<network, lastSeen, failed, stalled, delivered, worker, faults, lost, uprooted>>
  BY DEF AddBulk
<1>2. \A e \in Events : Occurrences(e) = IF e \in ToSet(newEvents) THEN 1 ELSE 0
  BY <1>1, OccurrencesFacts DEF IInv, CronInv, Batch
<1>3. /\ \A e \in Events : waiting[e] \in Nat /\ enqueued[e] \in Nat /\ delivered[e] \in Nat
      /\ \A e \in Events : Occurrences(e) \in Nat
  BY <1>2 DEF IInv, TypeOK
<1>4. /\ \A e \in Events : waiting'[e] = waiting[e] + Occurrences(e)
      /\ \A e \in Events : enqueued'[e] = enqueued[e] + Occurrences(e)
  BY <1>1
<1>5. TypeOK'
  <2>1. waiting' \in [Events -> Nat] /\ enqueued' \in [Events -> Nat]
    BY <1>1, <1>3
  <2>2. newEvents' \in Seq({e \in Events : IsPrint(e)}) /\ 0 \in 0 .. MaxTip
    BY <1>1, BoundAssumption, EmptySeq DEF Leave
  <2>. QED
    BY <1>1, <2>1, <2>2 DEF IInv, TypeOK, Leave, network, worker
<1>6. CronInv'
  <2>. USE <1>1 DEF IInv, CronInv, Leave, network
  <2>1. startTip' <= tip'
    BY BoundAssumption DEF TypeOK
  <2>2. IsChain(chain)' /\ Stages' /\ Marked' /\ Batch' /\ Paging' /\ BatchIsExact' /\ BeforeMark' /\ AfterMark'
    BY <2>1 DEF IsChain, Stages, Marked, Batch, Paging, BatchIsExact, BeforeMark, AfterMark
  <2>3. ASSUME ~uprooted
        PROVE  OnChain' /\ Covered' /\ EnqueuedOnce'
    <3>1. /\ lastSeen # NoTx => lastSeen \in ToSet(chain)
          /\ \A e \in Events : enqueued[e] > 0 => e.tx \in UpTo(chain, lastSeen)
          /\ \A e \in ToSet(newEvents) : e.tx \in UpTo(chain, lastSeen) /\ enqueued[e] = 0
          /\ \A e \in Events : enqueued[e] <= 1
          /\ \A e \in PrintEvents :
                e.tx \in UpTo(chain, lastSeen) => enqueued[e] > 0 \/ e \in ToSet(newEvents) \/ e \in lost
      BY <2>3 DEF OnChain, AfterMark, EnqueuedOnce, Covered, InHand
    <3>2. OnChain'
      <4>1. \A e \in Events : enqueued'[e] > 0 => enqueued[e] > 0 \/ e \in ToSet(newEvents)
        BY <1>2, <1>3, <1>4
      <4>. QED
        BY <3>1, <4>1 DEF OnChain
    <3>3. EnqueuedOnce'
      <4>1. \A e \in Events : enqueued'[e] <= 1
        BY <1>2, <1>3, <1>4, <3>1
      <4>. QED
        BY <4>1 DEF EnqueuedOnce
    <3>4. Covered'
      <4>1. \A e \in Events : enqueued[e] > 0 \/ e \in ToSet(newEvents) => enqueued'[e] > 0
        BY <1>2, <1>3, <1>4
      <4>. QED
        BY <3>1, <4>1 DEF Covered, PrintEvents
    <3>. QED
      BY <3>2, <3>3, <3>4
  <2>. QED
    BY <2>2, <2>3 DEF OnChain, Covered, EnqueuedOnce
<1>7. Deliveries'
  <2>1. \A e \in Events : InWork(e)' = InWork(e) /\ InWork(e) \in Nat
    BY <1>1 DEF InWork, worker
  <2>2. ASSUME NEW e \in Events
        PROVE  delivered'[e] + waiting'[e] + InWork(e)' <= enqueued'[e] + IF e \in stalled' THEN 1 ELSE 0
    <3>1. delivered[e] + waiting[e] + InWork(e) <= enqueued[e] + IF e \in stalled THEN 1 ELSE 0
      BY DEF IInv, Deliveries
    <3>. QED
      BY <1>1, <1>3, <1>4, <2>1, <3>1
  <2>. QED
    BY <1>1, <2>2 DEF IInv, Deliveries, worker
<1>. QED
  BY <1>5, <1>6, <1>7 DEF IInv

\* A failed run loses what is in hand, if the mark moved already.
LEMMA CronFailsStep ==
    ASSUME IInv, CronFails
    PROVE  IInv'
<1>1. /\ Leave /\ lost' = lost \cup InHand /\ faults' \in 0 .. MaxFaults
      /\ UNCHANGED <<network, lastSeen, events, worker, enqueued, uprooted>>
  BY BoundAssumption DEF CronFails, Fault, IInv, TypeOK
<1>2. TypeOK'
  <2>1. newEvents' \in Seq({e \in Events : IsPrint(e)}) /\ 0 \in 0 .. MaxTip
    BY <1>1, BoundAssumption, EmptySeq DEF Leave
  <2>2. InHand \subseteq Events
    BY ElementOfSeq, LenProperties DEF InHand, IInv, TypeOK, ToSet
  <2>. QED
    BY <1>1, <2>1, <2>2 DEF IInv, TypeOK, Leave, network, events, worker
<1>3. CronInv'
  BY <1>1, BoundAssumption, Idles DEF IInv, TypeOK, Leave
<1>. QED
  BY <1>1, <1>2, <1>3, JobsFrame DEF IInv

-----------------------------------------------------------------------------
(* The events worker's steps, and a crash.                                 *)

\* What Deliveries says of one event.
Owed(e) == delivered[e] + waiting[e] + InWork(e) <= enqueued[e] + IF e \in stalled THEN 1 ELSE 0

\* The numbers it compares.
LEMMA Numbers ==
    ASSUME IInv, NEW e \in Events
    PROVE  /\ delivered[e] \in Nat /\ waiting[e] \in Nat /\ enqueued[e] \in Nat /\ failed[e] \in Nat
           /\ InWork(e) \in {0, 1} /\ Owed(e)
BY DEF IInv, TypeOK, Deliveries, InWork, Owed

\* A job leaves the waiting list for the worker.
LEMMA TakeEventStep ==
    ASSUME IInv, NEW e \in Events, TakeEvent(e)
    PROVE  IInv'
<1>1. /\ waiting[e] > 0 /\ waiting' = [waiting EXCEPT ![e] = waiting[e] - 1]
      /\ task' = e /\ taskStep' = "deserialize"
      /\ UNCHANGED <<network, lastSeen, failed, stalled, delivered, cron, faults, enqueued, lost, uprooted>>
  BY DEF TakeEvent
<1>2. waiting' \in [Events -> Nat]
  BY <1>1, Numbers DEF IInv, TypeOK
<1>3. TypeOK'
  BY <1>1, <1>2 DEF IInv, TypeOK, network, cron
<1>4. ASSUME NEW x \in Events
      PROVE  Owed(x)'
  <2>1. waiting'[x] = IF x = e THEN waiting[x] - 1 ELSE waiting[x]
    BY <1>1 DEF IInv, TypeOK
  <2>2. InWork(x)' = IF x = e THEN 1 ELSE 0
    BY <1>1 DEF InWork
  <2>. QED
    BY <1>1, <2>1, <2>2, Numbers DEF Owed
<1>. QED
  BY <1>1, <1>3, <1>4, CronFrame DEF IInv, Deliveries, Owed

\* A job may go on, end, or fail; it delivers nothing yet.
LEMMA DeserializeEventStep ==
    ASSUME IInv, DeserializeEvent
    PROVE  IInv'
<1>1. /\ taskStep = "deserialize"
      /\ UNCHANGED <<network, lastSeen, waiting, stalled, delivered, cron, enqueued, lost, uprooted>>
  BY DEF DeserializeEvent
<1>2. task \in Events
  BY <1>1 DEF IInv, Deliveries
<1>3. CASE taskStep' \in {"add", "complete"} /\ UNCHANGED <<failed, task, faults>>
  <2>1. TypeOK'
    BY <1>1, <1>3 DEF IInv, TypeOK, network, cron
  <2>2. ASSUME NEW x \in Events
        PROVE  Owed(x)'
    <3>1. InWork(x)' \in {0, 1} /\ InWork(x)' <= InWork(x)
      BY <1>1, <1>3 DEF InWork
    <3>. QED
      BY <1>1, <3>1, Numbers DEF Owed
  <2>. QED
    BY <1>1, <1>2, <1>3, <2>1, <2>2, CronFrame DEF IInv, Deliveries, Owed
<1>4. CASE /\ faults' \in 0 .. MaxFaults
           /\ failed' = [failed EXCEPT ![task] = failed[task] + 1]
           /\ Rest
  <2>1. failed' \in [Events -> Nat]
    BY <1>2, <1>4, Numbers DEF IInv, TypeOK
  <2>2. TypeOK'
    BY <1>1, <1>4, <2>1 DEF IInv, TypeOK, Rest, network, cron
  <2>3. ASSUME NEW x \in Events
        PROVE  Owed(x)'
    <3>1. InWork(x)' = 0
      BY <1>4 DEF InWork, Rest
    <3>. QED
      BY <1>1, <3>1, Numbers DEF Owed
  <2>. QED
    BY <1>1, <1>4, <2>2, <2>3, CronFrame DEF IInv, Deliveries, Owed, Rest
<1>5. Fault \/ UNCHANGED faults => faults' \in 0 .. MaxFaults
  BY BoundAssumption DEF Fault, IInv, TypeOK
<1>. QED
  BY <1>3, <1>4, <1>5 DEF DeserializeEvent

\* A job delivers its event, and has nothing more to deliver.
LEMMA AddJobStep ==
    ASSUME IInv, AddJob
    PROVE  IInv'
<1>1. /\ taskStep = "add" /\ taskStep' = "complete"
      /\ delivered' = [delivered EXCEPT ![task] = delivered[task] + 1]
      /\ UNCHANGED <<network, lastSeen, waiting, failed, stalled, cron, task, faults, enqueued, lost, uprooted>>
  BY DEF AddJob
<1>2. task \in Events
  BY <1>1 DEF IInv, Deliveries
<1>3. delivered' \in [Events -> Nat]
  BY <1>1, <1>2, Numbers DEF IInv, TypeOK
<1>4. TypeOK'
  BY <1>1, <1>3 DEF IInv, TypeOK, network, cron
<1>5. ASSUME NEW x \in Events
      PROVE  Owed(x)'
  <2>1. delivered'[x] = IF x = task THEN delivered[x] + 1 ELSE delivered[x]
    BY <1>1 DEF IInv, TypeOK
  <2>2. InWork(x) = (IF x = task THEN 1 ELSE 0) /\ InWork(x)' = 0
    BY <1>1 DEF InWork
  <2>. QED
    BY <1>1, <2>1, <2>2, Numbers DEF Owed
<1>. QED
  BY <1>1, <1>2, <1>4, <1>5, CronFrame DEF IInv, Deliveries, Owed

\* A job ends.
LEMMA CompleteJobStep ==
    ASSUME IInv, CompleteJob
    PROVE  IInv'
<1>1. Rest /\ UNCHANGED <<network, lastSeen, events, cron, faults, enqueued, lost, uprooted>>
  BY DEF CompleteJob
<1>2. TypeOK'
  BY <1>1 DEF IInv, TypeOK, Rest, network, events, cron
<1>3. ASSUME NEW x \in Events
      PROVE  Owed(x)'
  <2>1. InWork(x)' = 0
    BY <1>1 DEF InWork, Rest
  <2>. QED
    BY <1>1, <2>1, Numbers DEF Owed, events
<1>. QED
  BY <1>1, <1>2, <1>3, CronFrame DEF IInv, Deliveries, Owed, Rest

\* A stalled job may deliver its event once more, and only once: the second
\* time it is found stalled it fails.
LEMMA CrashStep ==
    ASSUME IInv, Crash
    PROVE  IInv'
<1>1. /\ Leave /\ Rest /\ lost' = lost \cup InHand /\ faults' \in 0 .. MaxFaults
      /\ IF task = NoEvent THEN UNCHANGED <<waiting, failed, stalled>> ELSE Requeue
      /\ UNCHANGED <<network, lastSeen, delivered, enqueued, uprooted>>
  BY BoundAssumption DEF Crash, Fault, IInv, TypeOK
<1>2. /\ waiting' \in [Events -> Nat] /\ failed' \in [Events -> Nat] /\ stalled' \subseteq Events
      /\ \A x \in Events :
            waiting'[x] + (IF x \in stalled THEN 1 ELSE 0)
                <= waiting[x] + IF x \in stalled' THEN 1 ELSE 0
  <2>1. CASE UNCHANGED <<waiting, failed, stalled>>
    BY <2>1, Numbers DEF IInv, TypeOK
  <2>2. CASE task \in Events /\ task \in stalled /\ Requeue
    <3>1. failed' \in [Events -> Nat]
      BY <2>2, Numbers DEF Requeue, IInv, TypeOK
    <3>. QED
      BY <2>2, <3>1, Numbers DEF Requeue, IInv, TypeOK
  <2>3. CASE task \in Events /\ task \notin stalled /\ Requeue
    <3>1. /\ waiting' = [waiting EXCEPT ![task] = waiting[task] + 1]
          /\ stalled' = stalled \cup {task} /\ failed' = failed
      BY <2>3 DEF Requeue
    <3>2. waiting' \in [Events -> Nat]
      BY <2>3, <3>1, Numbers DEF IInv, TypeOK
    <3>3. \A x \in Events : waiting'[x] = IF x = task THEN waiting[x] + 1 ELSE waiting[x]
      BY <3>1 DEF IInv, TypeOK
    <3>. QED
      BY <2>3, <3>1, <3>2, <3>3, Numbers DEF IInv, TypeOK
  <2>. QED
    BY <1>1, <2>1, <2>2, <2>3 DEF IInv, TypeOK
<1>3. TypeOK'
  <2>1. newEvents' \in Seq({e \in Events : IsPrint(e)}) /\ 0 \in 0 .. MaxTip
    BY <1>1, BoundAssumption, EmptySeq DEF Leave
  <2>2. InHand \subseteq Events
    BY ElementOfSeq, LenProperties DEF InHand, IInv, TypeOK, ToSet
  <2>. QED
    BY <1>1, <1>2, <2>1, <2>2 DEF IInv, TypeOK, Leave, Rest, network
<1>4. CronInv'
  BY <1>1, BoundAssumption, Idles DEF IInv, TypeOK, Leave
<1>5. ASSUME NEW x \in Events
      PROVE  Owed(x)'
  <2>1. InWork(x)' = 0
    BY <1>1 DEF InWork, Rest
  <2>2. waiting'[x] \in Nat
    BY <1>2
  <2>. QED
    BY <1>1, <1>2, <2>1, <2>2, Numbers DEF Owed
<1>. QED
  BY <1>1, <1>3, <1>4, <1>5 DEF IInv, Deliveries, Owed, Rest

-----------------------------------------------------------------------------
(* The theorems.                                                           *)

\* Every step keeps the invariant.
LEMMA NextIInv == IInv /\ [Next]_vars => IInv'
<1>. SUFFICES ASSUME IInv, [Next]_vars PROVE IInv'
  OBVIOUS
<1>1. CASE \E t \in Txs : Mine(t)
  BY <1>1, MineStep
<1>2. CASE \E k \in 0 .. Len(chain) : Fork(k)
  BY <1>2, ForkStep
<1>3. CASE Cron
  BY <1>3, StartCronStep, GetBridgeEventsStep, FetchEndTipStep, SetLastSeenTxidStep, AddBulkStep
     DEF Cron
<1>4. CASE CronFails
  BY <1>4, CronFailsStep
<1>5. CASE Work
  BY <1>5, TakeEventStep, DeserializeEventStep, AddJobStep, CompleteJobStep DEF Work
<1>6. CASE Crash
  BY <1>6, CrashStep
<1>7. CASE UNCHANGED vars
  <2>1. UNCHANGED <<network, lastSeen, events, cron, worker, faults, enqueued, lost, uprooted>>
    BY <1>7 DEF vars
  <2>2. TypeOK'
    BY <2>1 DEF IInv, TypeOK, network, events, cron, worker
  <2>. QED
    BY <2>1, <2>2, CronFrame, JobsFrame DEF IInv
<1>. QED
  BY <1>1, <1>2, <1>3, <1>4, <1>5, <1>6, <1>7 DEF Next

\* The inductive invariant holds in every reachable state.
LEMMA Invariance == Spec => []IInv
BY InitIInv, NextIInv, PTL DEF Spec

\* The variables keep their types.
THEOREM TypeCorrect == Spec => []TypeOK
<1>1. IInv => TypeOK
  BY DEF IInv
<1>. QED
  BY <1>1, Invariance, PTL

\* The pages the cron collects (getContractEventsUntil) add up to the prints
\* of all transactions above the one seen last, when the tip is still the
\* one it started from: however the log is cut into pages, and wherever in a
\* page that transaction shows up.
THEOREM BatchesAreExact == Spec => []BatchIsExact
<1>1. IInv => BatchIsExact
  BY DEF IInv, CronInv
<1>. QED
  BY <1>1, Invariance, PTL

\* Whatever is mined, forked or lost in between, an event the cron will
\* never look at again (eventCronJob) has been given a job, or was in the
\* cron's hand when a fault hit it between setLastSeenTxid and addBulk,
\* unless a fork took a transaction the cron had seen.
THEOREM NoEventSkipped == Spec => []NothingSkipped
<1>1. ASSUME IInv
      PROVE  NothingSkipped
  <2>. SUFFICES ASSUME ~uprooted,
                       NEW i \in DOMAIN chain, NEW k \in DOMAIN chain, i <= k, chain[k] = lastSeen,
                       NEW e \in EventsOf(chain[i]), IsPrint(e)
                PROVE  enqueued[e] > 0 \/ e \in InHand \cup lost
    BY DEF NothingSkipped, NeverSkipped
  <2>1. chain \in Seq(Txs) /\ DOMAIN chain = 1 .. Len(chain)
    BY <1>1, LenProperties DEF IInv, TypeOK
  <2>2. chain[i] \in Txs /\ chain[i] \in UpTo(chain, lastSeen)
    BY <2>1, ElementOfSeq DEF UpTo
  <2>3. e \in PrintEvents /\ e.tx = chain[i]
    BY <2>2, EventFacts DEF PrintEvents
  <2>. QED
    BY <1>1, <2>2, <2>3 DEF IInv, CronInv, Covered
<1>. QED
  BY <1>1, Invariance, PTL

\* No event is given two jobs by eventCronJob, however often it repeats,
\* fails or dies, unless a fork took a transaction it had seen.
THEOREM NoEventTwice == Spec => []EnqueuedOnce
<1>1. IInv => EnqueuedOnce
  BY DEF IInv, CronInv
<1>. QED
  BY <1>1, Invariance, PTL

\* The events worker (eventJobHandler) adds an event to the queue of its
\* topic once per job, and a second time only when the job stalled.
THEOREM EventDeliveredOnce == Spec => []DeliveredOnce
<1>1. ASSUME IInv
      PROVE  DeliveredOnce
  <2>. SUFFICES ASSUME NEW e \in Events
                PROVE  delivered[e] <= enqueued[e] + IF e \in stalled THEN 1 ELSE 0
    BY DEF DeliveredOnce
  <2>. QED
    BY <1>1, Numbers DEF Owed
<1>. QED
  BY <1>1, Invariance, PTL

=============================================================================
