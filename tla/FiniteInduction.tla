---------------------------- MODULE FiniteInduction ----------------------------
(***************************************************************************)
(* Induction on numbers up to a bound, from the library's well-founded      *)
(* order of the finite sets: its induction theorems take an operator, which *)
(* these do not.  With it, what FlattenSeq makes of a sequence of sequences *)
(* (initialize() fills the queue of modules to construct with it), stated   *)
(* as the places of the one in the other.                                   *)
(***************************************************************************)
EXTENDS Integers, Sequences, FiniteSets, SequencesExt, FiniteSetTheorems, WellFoundedInduction, TLAPS

\* A set of numbers has a least one: a smallest of the intervals 0..k, k in the set.
LEMMA LeastNatural ==
    ASSUME NEW S \in SUBSET Nat, S # {}
    PROVE  \E m \in S : \A k \in S : m <= k
<1>1. PICK n \in S : TRUE
  OBVIOUS
<1> DEFINE Below == {0..k : k \in {j \in S : j <= n}}
<1>2. Below \subseteq FiniteSubsetsOf(Nat) /\ Below # {}
  <2>1. \A k \in Nat : IsFiniteSet(0..k) /\ 0..k \subseteq Nat
    BY FS_Interval
  <2>2. \A T \in Below : T \in FiniteSubsetsOf(Nat)
    BY <2>1 DEF FiniteSubsetsOf
  <2>3. 0..n \in Below
    BY <1>1
  <2> QED
    BY <2>2, <2>3
<1>3. IsWellFoundedOn(StrictSubsetOrdering(Nat), FiniteSubsetsOf(Nat))
  BY FS_StrictSubsetOrderingWellFounded
<1> HIDE DEF Below
<1>4. PICK T \in Below : \A U \in Below : <<U, T>> \notin StrictSubsetOrdering(Nat)
  BY <1>2, <1>3, WFMin
<1> USE DEF Below
<1>5. PICK m \in S : m <= n /\ T = 0..m
  OBVIOUS
<1>6. ASSUME NEW k \in S, k < m PROVE FALSE
  <2>1. 0..k \in Below
    BY <1>5, <1>6
  <2>2. 0..k \subseteq 0..m /\ m \in 0..m /\ m \notin 0..k /\ 0..m \subseteq Nat
    BY <1>6
  <2>3. <<0..k, 0..m>> \in StrictSubsetOrdering(Nat)
    BY <2>2 DEF StrictSubsetOrdering
  <2> QED
    BY <1>4, <1>5, <2>1, <2>3
<1> QED
  BY <1>6

\* Induction, with the set of numbers a formula is true of for the formula.
LEMMA UpTo ==
    ASSUME NEW n \in Nat, NEW S, 1 \in S, \A k \in 1..(n - 1) : k \in S => k + 1 \in S
    PROVE  1..n \subseteq S
<1> SUFFICES ASSUME (1..n) \ S # {} PROVE FALSE
  OBVIOUS
<1>1. PICK m \in (1..n) \ S : \A k \in (1..n) \ S : m <= k
  <2>1. (1..n) \ S \in SUBSET Nat
    OBVIOUS
  <2> QED BY <2>1, LeastNatural
<1>2. m # 1 /\ m - 1 \in 1..(n - 1) /\ ~(m <= m - 1)
  OBVIOUS
<1>3. m - 1 \in S
  BY <1>1, <1>2
<1>4. (m - 1) + 1 = m
  OBVIOUS
<1> QED BY <1>2, <1>3, <1>4

\* The same from 0.
LEMMA UpToFromZero ==
    ASSUME NEW n \in Nat, NEW S, 0 \in S, \A k \in 0..(n - 1) : k \in S => k + 1 \in S
    PROVE  0..n \subseteq S
<1> DEFINE T == {k \in 1..(n + 1) : k - 1 \in S}
<1>1. 1 \in T
  OBVIOUS
<1>2. ASSUME NEW k \in 1..((n + 1) - 1), k \in T PROVE k + 1 \in T
  <2>1. k - 1 \in 0..(n - 1) /\ (k - 1) + 1 = k /\ (k + 1) - 1 = k /\ k + 1 \in 1..(n + 1)
    OBVIOUS
  <2>2. k \in S
    BY <1>2, <2>1
  <2> QED BY <2>1, <2>2
<1>3. n + 1 \in Nat
  OBVIOUS
<1> HIDE DEF T
<1>4. 1..(n + 1) \subseteq T
  BY <1>1, <1>2, <1>3, UpTo
<1> USE DEF T
<1>5. ASSUME NEW i \in 0..n PROVE i \in S
  <2>1. i + 1 \in 1..(n + 1) /\ (i + 1) - 1 = i
    OBVIOUS
  <2> QED BY <1>4, <2>1
<1> QED BY <1>5

\* A value that is changed n times goes through n + 1 values.
GoesThrough(f, n, first, step) == f[0] = first /\ \A i \in 1..n : f[i] = step[i][f[i - 1]]
LEMMA Iterated ==
    ASSUME NEW n \in Nat, NEW T, NEW first \in T, NEW step \in [1..n -> [T -> T]]
    PROVE  \E f \in [0..n -> T] : GoesThrough(f, n, first, step)
<1> USE DEF GoesThrough
<1> DEFINE Goes(f, k) == GoesThrough(f, k, first, step)
           Good == {k \in 0..n : \E f \in [0..k -> T] : Goes(f, k)}
<1>1. 0 \in Good
  <2> DEFINE f == [i \in 0..0 |-> first]
  <2>1. f \in [0..0 -> T] /\ f[0] = first /\ 1..0 = {}
    OBVIOUS
  <2> HIDE DEF f
  <2> QED BY <2>1
<1>2. ASSUME NEW k \in 0..(n - 1), k \in Good PROVE k + 1 \in Good
  <2>1. PICK f \in [0..k -> T] : Goes(f, k)
    BY <1>2
  <2>2. k \in 0..k /\ k \in Nat /\ k + 1 \in 1..n /\ k + 1 \in 0..n /\ k + 1 \notin 0..k
    OBVIOUS
  <2> DEFINE v == step[k + 1][f[k]]
             g == [i \in 0..(k + 1) |-> IF i \in 0..k THEN f[i] ELSE v]
  <2>3. v \in T
    BY <2>2
  <2> HIDE DEF v
  <2>4. g \in [0..(k + 1) -> T]
    BY <2>3
  <2>5. \A i \in 0..k : g[i] = f[i]
    OBVIOUS
  <2>6. g[k + 1] = v
    BY <2>2
  <2> HIDE DEF g
  <2>7. g[0] = first
    BY <2>1, <2>2, <2>5
  <2>8. ASSUME NEW i \in 1..(k + 1) PROVE g[i] = step[i][g[i - 1]]
    <3>1. i - 1 \in 0..k /\ g[i - 1] = f[i - 1]
      BY <2>5
    <3>2. CASE i \in 1..k
      BY <2>1, <2>5, <3>1, <3>2
    <3>3. CASE i = k + 1
      <4>1. i - 1 = k
        BY <3>3
      <4> QED BY <2>6, <3>1, <3>3, <4>1 DEF v
    <3> QED BY <3>2, <3>3
  <2> QED BY <2>2, <2>4, <2>7, <2>8
<1> HIDE DEF Good
<1>3. 0..n \subseteq Good
  BY <1>1, <1>2, UpToFromZero
<1> USE DEF Good
<1>4. n \in Good
  BY <1>3
<1> QED BY <1>4

\* A function of 1..n is a sequence of that length.
LEMMA FunctionIsSequence ==
    ASSUME NEW S, NEW n \in Nat, NEW f \in [1..n -> S]
    PROVE  f \in Seq(S) /\ Len(f) = n
OBVIOUS

-----------------------------------------------------------------------------
\* x is at place u of the sequence a of ss, one of the first k.
InPlace(x, ss, k, a, u) == a \in 1..k /\ u \in DOMAIN ss[a] /\ ss[a][u] = x

\* r is made of the first k sequences of ss, in their order.
IsFlat(r, ss, k) ==
    /\ \A a \in 1..k : \A u \in DOMAIN ss[a] : \E i \in DOMAIN r : r[i] = ss[a][u]
    /\ \A i \in DOMAIN r : \E a, u : InPlace(r[i], ss, k, a, u)
    /\ \A i, j \in DOMAIN r : i < j =>
          \E a, b, u, w : /\ InPlace(r[i], ss, k, a, u) /\ InPlace(r[j], ss, k, b, w)
                          /\ a < b \/ (a = b /\ u < w)

\* The first of the sequences is made of the first one.
LEMMA FlatOne ==
    ASSUME NEW S, NEW ss \in Seq(Seq(S)), ss # <<>>
    PROVE  ss[1] \in Seq(S) /\ IsFlat(ss[1], ss, 1)
<1>1. ss[1] \in Seq(S)
  OBVIOUS
<1>2. 1..1 = {1}
  OBVIOUS
<1>3. \A i \in DOMAIN ss[1] : InPlace(ss[1][i], ss, 1, 1, i)
  BY <1>2 DEF InPlace
<1>4. \A i, j \in DOMAIN ss[1] : i < j =>
         \E a, b, u, w : /\ InPlace(ss[1][i], ss, 1, a, u) /\ InPlace(ss[1][j], ss, 1, b, w)
                         /\ a < b \/ (a = b /\ u < w)
  BY <1>3
<1> QED
  BY <1>1, <1>2, <1>3, <1>4 DEF IsFlat

\* What is made of k sequences, followed by the next one, is made of k + 1.
LEMMA FlatNext ==
    ASSUME NEW S, NEW ss \in Seq(Seq(S)), NEW k \in 1..(Len(ss) - 1), NEW r \in Seq(S), IsFlat(r, ss, k)
    PROVE  r \o ss[k + 1] \in Seq(S) /\ IsFlat(r \o ss[k + 1], ss, k + 1)
<1> DEFINE t == ss[k + 1]
           q == r \o t
<1>1. t \in Seq(S) /\ q \in Seq(S)
  OBVIOUS
<1>2. /\ DOMAIN r = 1..Len(r) /\ DOMAIN t = 1..Len(t) /\ DOMAIN q = 1..(Len(r) + Len(t))
      /\ Len(r) \in Nat /\ Len(t) \in Nat
      /\ \A i \in 1..Len(r) : q[i] = r[i]
      /\ \A i \in 1..Len(t) : q[Len(r) + i] = t[i]
  BY <1>1
<1> HIDE DEF q
<1>3. k + 1 \in 1..(k + 1) /\ \A a \in 1..k : a < k + 1 /\ a \in 1..(k + 1)
  OBVIOUS
<1>4. /\ \A x, a, u : InPlace(x, ss, k, a, u) => InPlace(x, ss, k + 1, a, u) /\ a < k + 1
      /\ \A u \in 1..Len(t) : InPlace(t[u], ss, k + 1, k + 1, u)
  BY <1>2, <1>3 DEF InPlace
<1> HIDE DEF t
\* Each place of q is one of r, or one of the sequence that is added.
<1>5. \A i \in DOMAIN q :
         \/ i \in DOMAIN r /\ q[i] = r[i]
         \/ /\ i \notin DOMAIN r /\ i - Len(r) \in 1..Len(t)
            /\ q[i] = t[i - Len(r)]
  <2> SUFFICES ASSUME NEW i \in 1..(Len(r) + Len(t)), i \notin 1..Len(r)
               PROVE  i - Len(r) \in 1..Len(t) /\ q[i] = t[i - Len(r)]
    BY <1>2
  <2>1. i - Len(r) \in 1..Len(t) /\ Len(r) + (i - Len(r)) = i
    BY <1>2
  <2> QED
    BY <1>2, <2>1
<1>6. ASSUME NEW i \in DOMAIN q
      PROVE  \E a, u : InPlace(q[i], ss, k + 1, a, u)
  <2>1. CASE i \in DOMAIN r /\ q[i] = r[i]
    <3>1. PICK a, u : InPlace(r[i], ss, k, a, u)
      BY <2>1 DEF IsFlat
    <3> QED
      BY <1>4, <2>1, <3>1
  <2>2. CASE i - Len(r) \in 1..Len(t) /\ q[i] = t[i - Len(r)]
    BY <1>4, <2>2
  <2> QED
    BY <1>5, <2>1, <2>2
<1>7. ASSUME NEW i \in DOMAIN q, NEW j \in DOMAIN q, i < j
      PROVE  \E a, b, u, w : /\ InPlace(q[i], ss, k + 1, a, u) /\ InPlace(q[j], ss, k + 1, b, w)
                             /\ a < b \/ (a = b /\ u < w)
  <2>1. CASE i \in DOMAIN r /\ q[i] = r[i] /\ j \in DOMAIN r /\ q[j] = r[j]
    <3>1. PICK a, b, u, w : /\ InPlace(r[i], ss, k, a, u) /\ InPlace(r[j], ss, k, b, w)
                            /\ a < b \/ (a = b /\ u < w)
      BY <1>7, <2>1 DEF IsFlat
    <3>2. InPlace(q[i], ss, k + 1, a, u) /\ InPlace(q[j], ss, k + 1, b, w)
      BY <1>4, <2>1, <3>1
    <3> QED
      BY <3>1, <3>2
  <2>2. CASE i \in DOMAIN r /\ q[i] = r[i] /\ j - Len(r) \in 1..Len(t) /\ q[j] = t[j - Len(r)]
    <3>1. PICK a, u : InPlace(r[i], ss, k, a, u)
      BY <2>2 DEF IsFlat
    <3>2. InPlace(q[i], ss, k + 1, a, u) /\ a < k + 1 /\ InPlace(q[j], ss, k + 1, k + 1, j - Len(r))
      BY <1>4, <2>2, <3>1
    <3> QED
      BY <3>2
  <2>3. CASE i \notin DOMAIN r /\ i - Len(r) \in 1..Len(t) /\ q[i] = t[i - Len(r)]
    <3>1. j \notin DOMAIN r /\ i - Len(r) < j - Len(r)
      BY <1>2, <1>7, <2>3
    <3>2. j - Len(r) \in 1..Len(t) /\ q[j] = t[j - Len(r)]
      BY <1>5, <3>1
    <3>3. /\ InPlace(q[i], ss, k + 1, k + 1, i - Len(r))
          /\ InPlace(q[j], ss, k + 1, k + 1, j - Len(r))
      BY <1>4, <2>3, <3>2
    <3> QED
      BY <3>1, <3>3
  <2> QED
    BY <1>5, <2>1, <2>2, <2>3
<1>8. ASSUME NEW a \in 1..(k + 1), NEW u \in DOMAIN ss[a]
      PROVE  \E i \in DOMAIN q : q[i] = ss[a][u]
  <2>1. CASE a \in 1..k
    <3>1. PICK i \in DOMAIN r : r[i] = ss[a][u]
      BY <2>1 DEF IsFlat
    <3>2. i \in DOMAIN q /\ q[i] = r[i]
      BY <1>2
    <3> QED
      BY <3>1, <3>2
  <2>2. CASE a = k + 1
    <3>1. u \in 1..Len(t) /\ ss[a] = t
      BY <1>2, <2>2 DEF t
    <3>2. Len(r) + u \in DOMAIN q
      BY <1>2, <3>1
    <3>3. q[Len(r) + u] = t[u]
      BY <1>2, <3>1
    <3> QED
      BY <3>1, <3>2, <3>3
  <2>3. a \in 1..k \/ a = k + 1
    OBVIOUS
  <2> QED
    BY <2>1, <2>2, <2>3
<1>9. q \in Seq(S) /\ IsFlat(q, ss, k + 1)
  BY <1>1, <1>6, <1>7, <1>8 DEF IsFlat
<1> QED
  BY <1>9 DEF q, t

\* The equation of the function FlattenSeq is defined with has a solution.
Concatenates(f, ss, k) == f = [i \in 1..k |-> IF i = 1 THEN ss[i] ELSE f[i - 1] \o ss[i]]

\* ... by induction: the solution for k sequences is one for k + 1 with the value there.
LEMMA Concatenated ==
    ASSUME NEW n \in Nat, NEW ss
    PROVE  \E f : Concatenates(f, ss, n)
<1> DEFINE Good == {k \in 1..n : \E f : Concatenates(f, ss, k)}
<1>0. CASE n = 0
  <2>1. 1..n = {}
    BY <1>0
  <2>2. Concatenates([i \in {} |-> {}], ss, n)
    BY <2>1 DEF Concatenates
  <2> QED BY <2>2
<1>1. ASSUME n # 0 PROVE 1 \in Good
  <2> DEFINE f == [i \in 1..1 |-> ss[i]]
  <2>1. f = [i \in 1..1 |-> IF i = 1 THEN ss[i] ELSE f[i - 1] \o ss[i]]
    OBVIOUS
  <2> HIDE DEF f
  <2>2. Concatenates(f, ss, 1)
    BY <2>1 DEF Concatenates
  <2> QED BY <1>1, <2>2
<1>2. ASSUME NEW k \in 1..(n - 1), k \in Good PROVE k + 1 \in Good
  <2>1. PICK f : Concatenates(f, ss, k)
    BY <1>2
  <2> DEFINE v == f[k] \o ss[k + 1]
             g == [i \in 1..(k + 1) |-> IF i \in 1..k THEN f[i] ELSE v]
             h == [i \in 1..(k + 1) |-> IF i = 1 THEN ss[i] ELSE g[i - 1] \o ss[i]]
  <2>2. ASSUME NEW i \in 1..(k + 1) PROVE g[i] = IF i = 1 THEN ss[i] ELSE g[i - 1] \o ss[i]
    <3>1. CASE i = 1
      BY <2>1, <3>1 DEF Concatenates
    <3>2. CASE i # 1 /\ i \in 1..k
      <4>1. i - 1 \in 1..k /\ i - 1 \in 1..(k + 1)
        BY <3>2
      <4>2. f[i] = f[i - 1] \o ss[i]
        BY <2>1, <3>2 DEF Concatenates
      <4>3. g[i] = f[i] /\ g[i - 1] = f[i - 1]
        BY <3>2, <4>1
      <4> QED BY <3>2, <4>2, <4>3
    <3>3. CASE i = k + 1
      <4>1. i # 1 /\ i \notin 1..k /\ i - 1 = k /\ k \in 1..k /\ k \in 1..(k + 1)
        BY <3>3
      <4>2. g[i] = v /\ g[i - 1] = f[k]
        BY <4>1
      <4> QED BY <3>3, <4>1, <4>2
    <3> QED BY <3>1, <3>2, <3>3
  <2>3. g = h
    BY <2>2
  <2>4. Concatenates(g, ss, k + 1)
    BY <2>3 DEF Concatenates
  <2> HIDE DEF g, h
  <2>5. k + 1 \in 1..n
    OBVIOUS
  <2> QED BY <2>4, <2>5
<1>3. CASE n # 0
  <2> HIDE DEF Good
  <2>1. 1..n \subseteq Good
    BY <1>1, <1>2, <1>3, UpTo
  <2> USE DEF Good
  <2> QED BY <1>3, <2>1
<1> QED BY <1>0, <1>3

\* What FlattenSeq gives.
LEMMA Flattened ==
    ASSUME NEW S, NEW ss \in Seq(Seq(S))
    PROVE  FlattenSeq(ss) \in Seq(S) /\ IsFlat(FlattenSeq(ss), ss, Len(ss))
<1>1. CASE ss = <<>>
  <2>1. FlattenSeq(ss) = <<>>
    BY <1>1 DEF FlattenSeq
  <2>2. Len(ss) = 0 /\ 1..0 = {} /\ DOMAIN <<>> = {} /\ <<>> \in Seq(S)
    BY <1>1
  <2>3. IsFlat(<<>>, ss, 0)
    BY <2>2 DEF IsFlat
  <2> QED BY <2>1, <2>2, <2>3
<1>2. CASE ss # <<>>
  <2> DEFINE n == Len(ss)
             f == CHOOSE g : g = [i \in 1..Len(ss) |-> IF i = 1 THEN ss[i] ELSE g[i - 1] \o ss[i]]
  <2>1. n \in Nat /\ n # 0
    BY <1>2
  <2>2. FlattenSeq(ss) = f[n]
    BY <2>1 DEF FlattenSeq
  <2>3. Concatenates(f, ss, n)
    BY <2>1, Concatenated DEF Concatenates
  <2> HIDE DEF f
  <2> DEFINE Good == {k \in 1..n : f[k] \in Seq(S) /\ IsFlat(f[k], ss, k)}
  <2>4. 1 \in Good
    <3>1. f[1] = ss[1]
      BY <2>1, <2>3 DEF Concatenates
    <3> QED BY <1>2, <2>1, <3>1, FlatOne
  <2>5. ASSUME NEW k \in 1..(n - 1), k \in Good PROVE k + 1 \in Good
    <3>1. k + 1 \in 1..n /\ k + 1 # 1 /\ (k + 1) - 1 = k
      BY <2>1
    <3>2. f[k + 1] = f[k] \o ss[k + 1]
      BY <2>3, <3>1 DEF Concatenates
    <3> QED BY <2>5, <3>1, <3>2, FlatNext
  <2> HIDE DEF Good
  <2>6. 1..n \subseteq Good
    BY <2>1, <2>4, <2>5, UpTo
  <2> USE DEF Good
  <2> QED BY <2>1, <2>2, <2>6
<1> QED BY <1>1, <1>2
===============================================================================
