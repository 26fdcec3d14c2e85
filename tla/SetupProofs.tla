----------------------------- MODULE SetupProofs -----------------------------
(***************************************************************************)
(* Proofs about Registry, for all programs and libraries, and about Setup, *)
(* for all configuration files and whatever lua makes of their expressions *)
(* and of the sets of parameters that are frozen.                          *)
(***************************************************************************)
EXTENDS Setup, FiniteInduction, TLAPS

RegistryTypeOK ==
    /\ linked \in Seq(STRING) /\ deferred \in Seq(STRING)
    /\ initialized \in BOOLEAN /\ broken \in BOOLEAN
    /\ loaded \subseteq DOMAIN Libraries

\* All that registered is in one of the two lists, in `deferred' before the
\* first question and in the registry after it; and the factory has it already.
InOneOfTheLists ==
    /\ ~initialized => registry = {} /\ ~broken /\ NamesOf(deferred) = Known
    /\ initialized /\ ~broken => registry = Known
    /\ registry \subseteq Known
InTheFactory == Known \ InternalNames \subseteq plugins

RegistryInv == RegistryTypeOK /\ InOneOfTheLists /\ InTheFactory

-----------------------------------------------------------------------------
\* The names of two lists, one after the other (deferred_.push_back()).
LEMMA NamesOfBoth ==
    ASSUME NEW s \in Seq(STRING), NEW t \in Seq(STRING)
    PROVE  NamesOf(s \o t) = NamesOf(s) \cup NamesOf(t)
<1>1. NamesOf(s \o t) \subseteq NamesOf(s) \cup NamesOf(t)
  <2> SUFFICES ASSUME NEW i \in DOMAIN (s \o t)
               PROVE  (s \o t)[i] \in NamesOf(s) \cup NamesOf(t)
    BY DEF NamesOf
  <2>1. CASE i <= Len(s)
    <3>1. i \in DOMAIN s /\ (s \o t)[i] = s[i]
      BY <2>1
    <3> QED  BY <3>1 DEF NamesOf
  <2>2. CASE ~(i <= Len(s))
    <3>1. i - Len(s) \in DOMAIN t /\ (s \o t)[i] = t[i - Len(s)]
      BY <2>2
    <3> QED  BY <3>1 DEF NamesOf
  <2> QED  BY <2>1, <2>2
<1>2. NamesOf(s) \subseteq NamesOf(s \o t)
  <2> SUFFICES ASSUME NEW i \in DOMAIN s
               PROVE  s[i] \in NamesOf(s \o t)
    BY DEF NamesOf
  <2>1. i \in DOMAIN (s \o t) /\ (s \o t)[i] = s[i]
    OBVIOUS
  <2> QED  BY <2>1 DEF NamesOf
<1>3. NamesOf(t) \subseteq NamesOf(s \o t)
  <2> SUFFICES ASSUME NEW i \in DOMAIN t
               PROVE  t[i] \in NamesOf(s \o t)
    BY DEF NamesOf
  <2>1. i + Len(s) \in DOMAIN (s \o t) /\ (s \o t)[i + Len(s)] = t[i]
    OBVIOUS
  <2> QED  BY <2>1 DEF NamesOf
<1> QED  BY <1>1, <1>2, <1>3

\* What callDeferred() registers is deferred, and when nothing throws it is all.
LEMMA AllAreCalled ==
    ASSUME NEW list \in Seq(STRING)
    PROVE  LET called == {list[i] : i \in {k \in DOMAIN list : \A j \in 1..k : ~Fails(list, j)}}
           IN  /\ called \subseteq NamesOf(list)
               /\ (\A i \in DOMAIN list : ~Fails(list, i)) => called = NamesOf(list)
<1>1. ASSUME \A i \in DOMAIN list : ~Fails(list, i), NEW k \in DOMAIN list
      PROVE  \A j \in 1..k : ~Fails(list, j)
  <2> SUFFICES ASSUME NEW j \in 1..k  PROVE ~Fails(list, j)
    OBVIOUS
  <2>1. j \in DOMAIN list
    OBVIOUS
  <2> QED  BY <1>1, <2>1
<1> QED  BY <1>1 DEF NamesOf

-----------------------------------------------------------------------------
LEMMA RegistryInvInit == RegistryInit => RegistryInv
<1> SUFFICES ASSUME RegistryInit PROVE RegistryInv
  OBVIOUS
<1>1. Known = NamesOf(linked)
  BY DEF RegistryInit, Known
<1> QED  BY <1>1, RegistryAssumption DEF RegistryInit, RegistryInv, RegistryTypeOK, InOneOfTheLists, InTheFactory

\* The first question moves the names from one list to the other.
LEMMA RegistryInvExportList == RegistryInv /\ exportList => RegistryInv'
<1> SUFFICES ASSUME RegistryInv, exportList PROVE RegistryInv'
  OBVIOUS
<1> USE DEF RegistryInv, RegistryTypeOK
<1>1. Known' = Known /\ InTheFactory'
  BY DEF exportList, Known, InTheFactory
<1>2. CASE initialized
  BY <1>1, <1>2 DEF exportList, callDeferred, InOneOfTheLists
<1>3. CASE ~initialized
  <2>1. /\ initialized' = TRUE
        /\ registry' = {deferred[i] : i \in {k \in DOMAIN deferred : \A j \in 1..k : ~Fails(deferred, j)}}
        /\ broken' = \E i \in DOMAIN deferred : Fails(deferred, i)
        /\ deferred' = IF broken' THEN deferred ELSE <<>>
    BY <1>3 DEF exportList, callDeferred
  <2>2. NamesOf(deferred) = Known
    BY <1>3 DEF InOneOfTheLists
  <2>3. registry' \subseteq Known /\ (~broken' => registry' = Known)
    BY <2>1, <2>2, AllAreCalled
  <2>4. InOneOfTheLists'
    BY <1>1, <2>1, <2>3 DEF InOneOfTheLists
  <2>5. RegistryTypeOK'
    <3>1. broken' \in BOOLEAN
      <4>1. CASE \E i \in DOMAIN deferred : Fails(deferred, i)
        BY <2>1, <4>1
      <4>2. CASE ~\E i \in DOMAIN deferred : Fails(deferred, i)
        BY <2>1, <4>2
      <4> QED  BY <4>1, <4>2
    <3>2. deferred' = deferred \/ deferred' = <<>>
      BY <2>1
    <3>3. deferred' \in Seq(STRING)
      <4>1. <<>> \in Seq(STRING)
        OBVIOUS
      <4>2. CASE deferred' = <<>>
        BY <4>1, <4>2, Zenon
      <4>3. CASE deferred' = deferred
        BY <4>3
      <4> QED  BY <3>2, <4>2, <4>3
    <3> QED  BY <2>1, <3>1, <3>3 DEF exportList
  <2> QED  BY <1>1, <2>4, <2>5
<1> QED  BY <1>2, <1>3

\* A library that is loaded adds its names to the list of the moment.
LEMMA RegistryInvRegisterLibrary ==
    ASSUME RegistryInv, NEW l \in DOMAIN Libraries, registerLibrary(l)
    PROVE  RegistryInv'
<1> USE DEF RegistryInv, RegistryTypeOK
<1>1. CASE l \in loaded
  BY <1>1 DEF registerLibrary, registryVars, InOneOfTheLists, InTheFactory, Known
<1>2. CASE l \notin loaded
  <2>1. /\ loaded' = loaded \cup {l}
        /\ plugins' = plugins \cup (NamesOf(Libraries[l]) \ InternalNames)
        /\ UNCHANGED <<linked, initialized, broken>>
    BY <1>2 DEF registerLibrary
  <2>2. Libraries[l] \in Seq(STRING)
    BY RegistryAssumption
  <2>3. Known' = Known \cup NamesOf(Libraries[l])
    BY <2>1 DEF Known
  <2>4. InTheFactory'
    BY <2>1, <2>3 DEF InTheFactory
  <2>5. CASE initialized
    <3>1. registry' = registry \cup NamesOf(Libraries[l]) /\ deferred' = deferred
      BY <1>2, <2>5 DEF registerLibrary
    <3> QED  BY <2>1, <2>3, <2>4, <2>5, <3>1 DEF InOneOfTheLists
  <2>6. CASE ~initialized
    <3>1. deferred' = deferred \o Libraries[l] /\ registry' = registry
      BY <1>2, <2>6 DEF registerLibrary
    <3>2. NamesOf(deferred') = NamesOf(deferred) \cup NamesOf(Libraries[l])
      BY <2>2, <3>1, NamesOfBoth
    <3>3. deferred' \in Seq(STRING)
      BY <2>2, <3>1
    <3> QED  BY <2>1, <2>3, <2>4, <2>6, <3>1, <3>2, <3>3 DEF InOneOfTheLists
  <2> QED  BY <2>5, <2>6
<1> QED  BY <1>1, <1>2

LEMMA RegistryInvNext == RegistryInv /\ [RegistryNext]_registryVars => RegistryInv'
<1> SUFFICES ASSUME RegistryInv, [RegistryNext]_registryVars PROVE RegistryInv'
  OBVIOUS
<1>1. CASE exportList
  BY <1>1, RegistryInvExportList
<1>2. CASE \E l \in DOMAIN Libraries : registerLibrary(l)
  BY <1>2, RegistryInvRegisterLibrary
<1>3. CASE UNCHANGED registryVars
  BY <1>3 DEF registryVars, RegistryInv, RegistryTypeOK, InOneOfTheLists, InTheFactory, Known
<1> QED  BY <1>1, <1>2, <1>3 DEF RegistryNext

LEMMA RegistryInvAlways == RegistrySpec => []RegistryInv
BY RegistryInvInit, RegistryInvNext, PTL DEF RegistrySpec

-----------------------------------------------------------------------------
\* Whatever a program is linked with, loads and asks, in whatever order, its
\* registry finds all of it, unless a registration threw, and the factory can
\* construct all the registry finds.
THEOREM RegistryCompleteness == RegistrySpec => []RegistryIsComplete
<1>1. RegistryInv => RegistryIsComplete
  BY DEF RegistryInv, InOneOfTheLists, InTheFactory, RegistryIsComplete
<1> QED  BY <1>1, RegistryInvAlways, PTL

\* No step takes away what the registry finds (registry_ only grows).
FoundStaysFound == registry \subseteq registry'

\* A module that was found once is found for ever, also after a registration
\* that threw.
THEOREM RegistryGrows == RegistrySpec => [][FoundStaysFound]_registryVars
<1>1. RegistryInv /\ [RegistryNext]_registryVars => [FoundStaysFound]_registryVars
  <2> SUFFICES ASSUME RegistryInv, RegistryNext PROVE FoundStaysFound
    OBVIOUS
  <2>1. CASE exportList
    BY <2>1 DEF exportList, callDeferred, FoundStaysFound, RegistryInv, RegistryTypeOK, InOneOfTheLists
  <2>2. CASE \E l \in DOMAIN Libraries : registerLibrary(l)
    <3> PICK l \in DOMAIN Libraries : registerLibrary(l)
      BY <2>2
    <3> QED  BY DEF registerLibrary, registryVars, FoundStaysFound
  <2> QED  BY <2>1, <2>2 DEF RegistryNext
<1> QED  BY <1>1, RegistryInvAlways, PTL DEF RegistrySpec

-----------------------------------------------------------------------------
(* Sequences of anything                                                   *)

IsList(s) == Len(s) \in Nat /\ s = [i \in 1..Len(s) |-> s[i]]

\* Only sequences of a set can be joined; a list is one of its own elements.
LEMMA ListIsOfItsElements ==
    ASSUME NEW s, IsList(s)
    PROVE  \E S : s \in Seq(S)
<1> DEFINE n == Len(s)
           S == {s[i] : i \in 1..n}
           f == [i \in 1..n |-> s[i]]
<1>1. n \in Nat /\ s = f
  BY DEF IsList
<1>2. f \in [1..n -> S]
  OBVIOUS
<1> HIDE DEF n, S, f
<1>3. f \in Seq(S)
  BY <1>1, <1>2, FunctionIsSequence
<1> QED  BY <1>1, <1>3

LEMMA SequenceIsList ==
    ASSUME NEW S, NEW s \in Seq(S)
    PROVE  IsList(s)
BY DEF IsList

\* A function of 1..n is one.
LEMMA FunctionIsList ==
    ASSUME NEW n \in Nat, NEW s, s = [i \in 1..n |-> s[i]]
    PROVE  IsList(s) /\ Len(s) = n
<1> DEFINE S == {s[i] : i \in 1..n}
           f == [i \in 1..n |-> s[i]]
<1>1. f \in [1..n -> S] /\ s = f
  OBVIOUS
<1> HIDE DEF S, f
<1>2. s \in Seq(S) /\ Len(s) = n
  BY <1>1, FunctionIsSequence
<1> QED  BY <1>2, SequenceIsList

LEMMA DomainOfList ==
    ASSUME NEW s, IsList(s)
    PROVE  Len(s) \in Nat /\ DOMAIN s = 1..Len(s)
<1>1. PICK S : s \in Seq(S)
  BY ListIsOfItsElements
<1> QED  BY <1>1

\* Two lists, one after the other.
LEMMA JoinedLists ==
    ASSUME NEW s, NEW t, IsList(s), IsList(t)
    PROVE  /\ IsList(s \o t) /\ Len(s \o t) = Len(s) + Len(t)
           /\ \A i \in 1..Len(s) : (s \o t)[i] = s[i]
           /\ \A i \in 1..Len(t) : (s \o t)[Len(s) + i] = t[i]
           /\ \A i \in 1..(Len(s) + Len(t)) : i \in 1..Len(s) \/ (i - Len(s) \in 1..Len(t) /\ (s \o t)[i] = t[i - Len(s)])
<1>1. PICK S : s \in Seq(S)
  BY ListIsOfItsElements
<1>2. PICK T : t \in Seq(T)
  BY ListIsOfItsElements
<1> DEFINE U == S \cup T
<1>3. s \in Seq(U)
  <2>1. Len(s) \in Nat /\ s \in [1..Len(s) -> U]
    BY <1>1
  <2> QED  BY <2>1, FunctionIsSequence
<1>4. t \in Seq(U)
  <2>1. Len(t) \in Nat /\ t \in [1..Len(t) -> U]
    BY <1>2
  <2> QED  BY <2>1, FunctionIsSequence
<1> HIDE DEF U
<1>5. s \o t \in Seq(U) /\ Len(s \o t) = Len(s) + Len(t)
  BY <1>3, <1>4
<1>6. IsList(s \o t)
  BY <1>5, SequenceIsList
<1>7. \A i \in 1..Len(s) : (s \o t)[i] = s[i]
  BY <1>3, <1>4
<1>8. \A i \in 1..Len(t) : (s \o t)[Len(s) + i] = t[i]
  BY <1>3, <1>4
<1>9. \A i \in 1..(Len(s) + Len(t)) : i \in 1..Len(s) \/ (i - Len(s) \in 1..Len(t) /\ (s \o t)[i] = t[i - Len(s)])
  <2> SUFFICES ASSUME NEW i \in 1..(Len(s) + Len(t)), i \notin 1..Len(s)
               PROVE  i - Len(s) \in 1..Len(t) /\ (s \o t)[i] = t[i - Len(s)]
    OBVIOUS
  <2>1. Len(s) \in Nat /\ Len(t) \in Nat
    BY <1>3, <1>4
  <2>2. i - Len(s) \in 1..Len(t) /\ Len(s) + (i - Len(s)) = i
    BY <2>1
  <2> QED  BY <1>8, <2>2
<1> QED  BY <1>5, <1>6, <1>7, <1>8, <1>9

\* A list with one more element.
LEMMA AppendedList ==
    ASSUME NEW s, NEW x, IsList(s)
    PROVE  /\ IsList(Append(s, x)) /\ Len(Append(s, x)) = Len(s) + 1
           /\ \A i \in 1..Len(s) : Append(s, x)[i] = s[i]
           /\ Append(s, x)[Len(s) + 1] = x
<1>1. PICK S : s \in Seq(S)
  BY ListIsOfItsElements
<1> DEFINE U == S \cup {x}
<1>2. s \in Seq(U)
  <2>1. Len(s) \in Nat /\ s \in [1..Len(s) -> U]
    BY <1>1
  <2> QED  BY <2>1, FunctionIsSequence
<1>3. x \in U
  OBVIOUS
<1> HIDE DEF U
<1>4. Append(s, x) \in Seq(U) /\ Len(Append(s, x)) = Len(s) + 1
  BY <1>2, <1>3
<1>5. IsList(Append(s, x))
  BY <1>4, SequenceIsList
<1>6. /\ \A i \in 1..Len(s) : Append(s, x)[i] = s[i]
      /\ Append(s, x)[Len(s) + 1] = x
  BY <1>2, <1>3
<1> QED  BY <1>4, <1>5, <1>6
-----------------------------------------------------------------------------
(* The sets of parameters                                                  *)

\* No name leads to the set itself.
LEMMA NotNested == ASSUME NEW pset PROVE findPSet(<<>>, pset) = {pset}
<1> DEFINE Step(r, i) == IF i = 0 THEN {pset}
                         ELSE {Get(s, <<>>[i])[2] : s \in {t \in r[i - 1] : ExistsAs(t, <<>>[i], "pset")}}
           Eq(r) == r = [i \in 0..Len(<<>>) |-> Step(r, i)]
           reached == CHOOSE r : Eq(r)
           f == [i \in 0..0 |-> {pset}]
<1>1. findPSet(<<>>, pset) = reached[Len(<<>>)]
  BY DEF findPSet
<1>2. Len(<<>>) = 0 /\ \A i \in 0..0 : i = 0
  OBVIOUS
<1>3. Eq(f)
  BY <1>2
<1>4. Eq(reached)
  <2> HIDE DEF Eq, f
  <2> QED  BY <1>3
<1> HIDE DEF reached
<1>5. reached[0] = {pset}
  BY <1>2, <1>4
<1> QED  BY <1>1, <1>2, <1>5

\* The sets at some addresses are frozen one after the other.
FrozenInSteps(l, h, addresses, n, done) ==
    /\ done[0].heap = h
    /\ \A k \in 0..(n - 1) :
          done[k + 1].heap =
             [done[k].heap EXCEPT ![addresses[k + 1]] = freeze(Calling(l, done[k].calls), @).pset]
LEMMA FrozenAtInSteps ==
    ASSUME NEW l, NEW h, NEW addresses, Len(addresses) \in Nat
    PROVE  \E done : /\ FrozenAt(l, h, addresses) = done[Len(addresses)]
                     /\ FrozenInSteps(l, h, addresses, Len(addresses), done)
<1> DEFINE n == Len(addresses)
           first == [heap |-> h, calls |-> 0, ok |-> TRUE]
           Then(r, k) == IF k = 0 THEN first ELSE FreezeOne(l, r[k - 1], addresses[k])
           Eq(r, m) == r = [k \in 0..m |-> Then(r, k)]
           done == CHOOSE r : Eq(r, n)
<1>1. FrozenAt(l, h, addresses) = done[n]
  BY DEF FrozenAt
<1> HIDE DEF n, first
<1>2. n \in Nat
  BY DEF n
\* It is defined: each step has a value, whatever freeze() returns.
<1> DEFINE Defined == {m \in 0..n : \E r : Eq(r, m)}
<1>3. 0 \in Defined
  <2> DEFINE r == [k \in 0..0 |-> first]
  <2>1. Eq(r, 0)
    OBVIOUS
  <2> HIDE DEF Eq, r
  <2> QED  BY <1>2, <2>1
<1>4. ASSUME NEW m \in 0..(n - 1), m \in Defined PROVE m + 1 \in Defined
  <2>1. PICK r : Eq(r, m)
    BY <1>4
  <2> DEFINE v == FreezeOne(l, r[m], addresses[m + 1])
             q == [k \in 0..(m + 1) |-> IF k \in 0..m THEN r[k] ELSE v]
             t == [k \in 0..(m + 1) |-> Then(q, k)]
  <2>2. m \in 0..m /\ 0 \in 0..m /\ m + 1 \notin 0..m /\ (m + 1) - 1 = m /\ m + 1 # 0 /\ m + 1 \in 0..n
    BY <1>2
  <2>3. \A k \in 0..m : r[k] = Then(r, k)
    <3> DEFINE p == [k \in 0..m |-> Then(r, k)]
    <3>1. r = p
      BY <2>1
    <3>2. \A k \in 0..m : p[k] = Then(r, k)
      OBVIOUS
    <3> HIDE DEF p, Then
    <3> QED  BY <3>1, <3>2
  <2> HIDE DEF v
  <2>4. (\A k \in 0..m : q[k] = r[k]) /\ q[m + 1] = v
    BY <2>2
  <2>5. ASSUME NEW k \in 0..(m + 1) PROVE q[k] = Then(q, k)
    <3> HIDE DEF q
    <3>1. CASE k = 0
      BY <2>2, <2>3, <2>4, <3>1
    <3>2. CASE k \in 0..m /\ k # 0
      <4>1. k - 1 \in 0..m
        BY <3>2
      <4> QED  BY <2>3, <2>4, <3>2, <4>1
    <3>3. CASE k = m + 1
      BY <2>2, <2>4, <3>3 DEF v
    <3> QED  BY <3>1, <3>2, <3>3
  <2>6. q = t
    <3> HIDE DEF Then
    <3> QED  BY <2>5
  <2>7. Eq(q, m + 1)
    BY <2>6
  <2> HIDE DEF Eq, q
  <2> QED  BY <2>2, <2>7
<1>5. n \in Defined
  <2> HIDE DEF Defined
  <2>1. 0..n \subseteq Defined
    BY <1>2, <1>3, <1>4, UpToFromZero
  <2>2. n \in 0..n
    BY <1>2
  <2> QED  BY <2>1, <2>2
<1>6. Eq(done, n)
  <2> HIDE DEF Eq
  <2> QED  BY <1>5
<1> HIDE DEF done
<1>7. \A k \in 0..n : done[k] = Then(done, k)
  <2> DEFINE p == [k \in 0..n |-> Then(done, k)]
  <2>1. done = p
    BY <1>6
  <2>2. \A k \in 0..n : p[k] = Then(done, k)
    OBVIOUS
  <2> HIDE DEF p, Then
  <2> QED  BY <2>1, <2>2
<1>8. done[0].heap = h
  BY <1>2, <1>7 DEF first
<1>9. ASSUME NEW k \in 0..(n - 1)
      PROVE  done[k + 1].heap = [done[k].heap EXCEPT ![addresses[k + 1]] = freeze(Calling(l, done[k].calls), @).pset]
  <2>1. k + 1 \in 0..n /\ k + 1 # 0 /\ (k + 1) - 1 = k
    BY <1>2
  <2>2. done[k + 1] = FreezeOne(l, done[k], addresses[k + 1])
    BY <1>7, <2>1
  <2> QED  BY <2>2 DEF FreezeOne
<1>10. FrozenInSteps(l, h, addresses, n, done)
  BY <1>8, <1>9 DEF FrozenInSteps
<1> HIDE DEF Eq, Then
<1> QED  BY <1>1, <1>10 DEF n

\* That leaves the heap what it is elsewhere, and each of the sets is frozen in
\* a state of lua that some calls of add_dimension() led to.
LEMMA FrozenElsewhere ==
    ASSUME NEW l, NEW h, NEW addresses, Len(addresses) \in Nat
    PROVE  LET heapAfter == FrozenAt(l, h, addresses).heap
           IN  /\ DOMAIN heapAfter = DOMAIN h
               /\ \A a \in DOMAIN h : (\A j \in 1..Len(addresses) : addresses[j] # a) => heapAfter[a] = h[a]
<1> DEFINE n == Len(addresses)
<1>1. PICK done : FrozenAt(l, h, addresses) = done[n] /\ FrozenInSteps(l, h, addresses, n, done)
  BY FrozenAtInSteps
<1>2. n \in Nat
  OBVIOUS
<1> HIDE DEF n
<1> DEFINE Alike == {k \in 0..n : /\ DOMAIN done[k].heap = DOMAIN h
                                 /\ \A a \in DOMAIN h : (\A j \in 1..n : addresses[j] # a) => done[k].heap[a] = h[a]}
<1>3. 0 \in Alike
  BY <1>1, <1>2 DEF FrozenInSteps
<1>4. ASSUME NEW k \in 0..(n - 1), k \in Alike PROVE k + 1 \in Alike
  <2>1. k + 1 \in 0..n /\ k + 1 \in 1..n
    BY <1>2
  <2> DEFINE p == freeze(Calling(l, done[k].calls), done[k].heap[addresses[k + 1]]).pset
  <2>2. done[k + 1].heap = [done[k].heap EXCEPT ![addresses[k + 1]] = p]
    BY <1>1 DEF FrozenInSteps
  <2> HIDE DEF p
  <2>3. DOMAIN done[k + 1].heap = DOMAIN h
    BY <1>4, <2>2
  <2>4. ASSUME NEW a \in DOMAIN h, \A j \in 1..n : addresses[j] # a
        PROVE  done[k + 1].heap[a] = h[a]
    BY <1>4, <2>1, <2>2, <2>4
  <2> QED  BY <2>1, <2>3, <2>4
<1>5. 0..n \subseteq Alike
  <2> HIDE DEF Alike
  <2> QED  BY <1>2, <1>3, <1>4, UpToFromZero
<1>6. n \in 0..n
  BY <1>2
<1> QED  BY <1>1, <1>5, <1>6 DEF n

LEMMA FrozenThere ==
    ASSUME NEW l, NEW h, NEW addresses, Len(addresses) \in Nat,
           \A i, j \in 1..Len(addresses) : addresses[i] = addresses[j] => i = j,
           NEW j \in 1..Len(addresses), addresses[j] \in DOMAIN h
    PROVE  \E calls : FrozenAt(l, h, addresses).heap[addresses[j]] = freeze(Calling(l, calls), h[addresses[j]]).pset
<1> DEFINE n == Len(addresses)
           a == addresses[j]
<1>1. PICK done : FrozenAt(l, h, addresses) = done[n] /\ FrozenInSteps(l, h, addresses, n, done)
  BY FrozenAtInSteps
<1>2. n \in Nat /\ j \in 1..n
  OBVIOUS
<1> HIDE DEF n
<1> DEFINE p == freeze(Calling(l, done[j - 1].calls), h[a]).pset
           Done == {k \in 0..n : /\ DOMAIN done[k].heap = DOMAIN h
                                 /\ done[k].heap[a] = IF j <= k THEN p ELSE h[a]}
<1>3. 0 \in Done
  BY <1>1, <1>2 DEF FrozenInSteps
<1>4. ASSUME NEW k \in 0..(n - 1), k \in Done PROVE k + 1 \in Done
  <2> DEFINE q == freeze(Calling(l, done[k].calls), done[k].heap[addresses[k + 1]]).pset
  <2>1. done[k + 1].heap = [done[k].heap EXCEPT ![addresses[k + 1]] = q]
    BY <1>1 DEF FrozenInSteps
  <2>2. k + 1 \in 0..n /\ k + 1 \in 1..n /\ k \in Nat
    BY <1>2
  <2>3. CASE k + 1 = j
    <3>1. k = j - 1 /\ ~(j <= k) /\ j <= k + 1
      BY <1>2, <2>2, <2>3
    <3>2. done[k].heap[a] = h[a] /\ a \in DOMAIN done[k].heap
      BY <1>4, <3>1
    <3>3. q = p
      BY <2>3, <3>1, <3>2
    <3> HIDE DEF p, q
    <3> QED  BY <1>4, <2>1, <2>2, <2>3, <3>1, <3>2, <3>3
  <2>4. CASE k + 1 # j
    <3>1. addresses[k + 1] # a
      BY <1>2, <2>2, <2>4 DEF n
    <3>2. (j <= k + 1) <=> (j <= k)
      BY <1>2, <2>2, <2>4
    <3>3. a \in DOMAIN h
      OBVIOUS
    <3> HIDE DEF p, q, a
    <3>4. DOMAIN done[k + 1].heap = DOMAIN h /\ done[k + 1].heap[a] = done[k].heap[a]
      BY <1>4, <2>1, <3>1, <3>3
    <3> QED  BY <1>4, <2>2, <3>2, <3>4
  <2> QED  BY <2>3, <2>4
<1>5. 0..n \subseteq Done
  <2> HIDE DEF Done
  <2> QED  BY <1>2, <1>3, <1>4, UpToFromZero
<1>6. n \in 0..n /\ j <= n
  BY <1>2
<1>7. done[n].heap[a] = p
  <2> HIDE DEF p, a
  <2> QED  BY <1>5, <1>6
<1> QED  BY <1>1, <1>7

-----------------------------------------------------------------------------
(* The inductive invariant of Setup.  The strings of `types' and of the    *)
(* modules of a configuration are names of R, the registry.                *)

LuaOK(l, R) == {"globals", "types", "inputs", "dimension"} \subseteq DOMAIN l /\ l.types \subseteq R

ConfigurationOK(c, R) ==
    /\ {"modules", "inputs", "integrands", "paths", "n_dimensions", "global", "cuba"} \subseteq DOMAIN c
    /\ IsList(c.modules) /\ IsList(c.inputs)
    /\ \A i \in DOMAIN c.modules : {"type", "name", "parameters"} \subseteq DOMAIN c.modules[i] /\ c.modules[i].type \in R

\* Nothing is loaded before the registry was asked, and then it has the
\* internal modules, whatever threw.
InternalFirst ==
    /\ linked \in Programs
    /\ ~initialized => deferred = linked /\ pc = "started"
    /\ initialized => Internal \subseteq registry

\* The reader's own sets are the first two, and what was frozen has others,
\* none of which it shares with the reader.
HeapOK ==
    /\ IsList(heap)
    /\ pc \in {"started", "script"} => frozen = <<>> /\ heap = <<>>
    /\ pc = "read" => Len(heap) >= 2 /\ config.global = 1 /\ config.cuba = 2

FrozenOK ==
    /\ IsList(frozen)
    /\ \A f \in DOMAIN frozen :
          /\ ConfigurationOK(frozen[f].config, registry)
          /\ DOMAIN config.modules \subseteq DOMAIN frozen[f].config.modules
          /\ Addresses(frozen[f].config) \subseteq 3..Len(heap)

BuiltOK == built.of \in 0..Len(frozen) /\ TypesAreKnown /\ ValidatedIsConstructed

SetupInv ==
    /\ RegistryInv /\ InternalFirst
    /\ LuaOK(lua, registry) /\ ConfigurationOK(config, registry)
    /\ HeapOK /\ FrozenOK /\ BuiltOK

-----------------------------------------------------------------------------
(* The registry of a program that reads a configuration                    *)

\* The steps of Setup ask the registry, load a library or leave it alone.
LEMMA RegistrySteps == [Next]_vars => [RegistryNext]_registryVars
<1> SUFFICES ASSUME [Next]_vars PROVE [RegistryNext]_registryVars
  OBVIOUS
<1>1. ASSUME NEW name \in DOMAIN Scripts, Start(name) PROVE RegistryNext
  BY <1>1 DEF Start, RegistryNext
<1>2. CASE LoadModules
  <2>1. UNCHANGED registryVars \/ registerLibrary(Statement.library)
    BY <1>2 DEF LoadModules
  <2>2. CASE registerLibrary(Statement.library)
    BY <2>2 DEF registerLibrary, RegistryNext
  <2> QED  BY <2>1, <2>2
<1>3. CASE Declare \/ Assign \/ DeclareInput \/ AddPermutations \/ SetFinalModule \/ NewPath
  <2>1. UNCHANGED registryVars
    BY <1>3 DEF Declare, Assign, DeclareInput, AddPermutations, SetFinalModule, NewPath
  <2> QED  BY <2>1
<1>4. CASE ReadConfiguration \/ Freeze
  BY <1>4 DEF ReadConfiguration, Freeze
<1>5. ASSUME NEW where, NEW name, NEW v, SetParameter(where, name, v) PROVE UNCHANGED registryVars
  BY <1>5 DEF SetParameter
<1>6. ASSUME NEW f, NEW kept, Construct(f, kept) PROVE RegistryNext
  BY <1>6 DEF Construct, RegistryNext
<1>7. CASE UNCHANGED vars
  BY <1>7 DEF vars
<1>8. CASE Exec
  BY <1>2, <1>3, <1>8 DEF Exec
<1> QED  BY <1>1, <1>4, <1>5, <1>6, <1>7, <1>8 DEF Next

\* A program that reads configurations uses its registry as module Registry says.
THEOREM SetupUsesTheRegistry == Spec => RegistrySpec
<1>1. Init => RegistryInit
  BY DEF Init
<1> QED  BY <1>1, RegistrySteps, PTL DEF Spec, RegistrySpec

LEMMA RegistryInvInSetup == Spec => []RegistryInv
BY SetupUsesTheRegistry, RegistryInvAlways, PTL

\* The registry finds what it found, and is linked with what it was.
LEMMA Growing ==
    ASSUME RegistryInv, RegistryNext \/ UNCHANGED registryVars
    PROVE  registry \subseteq registry' /\ linked' = linked
<1>1. CASE exportList
  BY <1>1 DEF exportList, callDeferred, RegistryInv, RegistryTypeOK, InOneOfTheLists
<1>2. CASE \E l \in DOMAIN Libraries : registerLibrary(l)
  <2> PICK l \in DOMAIN Libraries : registerLibrary(l)
    BY <1>2
  <2> QED  BY DEF registerLibrary, registryVars
<1>3. CASE UNCHANGED registryVars
  BY <1>3 DEF registryVars
<1> QED  BY <1>1, <1>2, <1>3 DEF RegistryNext

\* What asks the registry finds the internal modules in it, also if the first
\* question threw: those of the core come first.
LEMMA InternalIsFound ==
    ASSUME RegistryInv, InternalFirst, exportList
    PROVE  initialized' /\ Internal \subseteq registry'
<1>1. CASE initialized
  BY <1>1 DEF exportList, callDeferred, InternalFirst
<1>2. CASE ~initialized
  <2>1. /\ initialized' = TRUE
        /\ registry' = {deferred[i] : i \in {k \in DOMAIN deferred : \A j \in 1..k : ~Fails(deferred, j)}}
    BY <1>2 DEF exportList, callDeferred
  <2>2. deferred = linked /\ linked \in Programs
    BY <1>2 DEF InternalFirst
  <2>3. ASSUME NEW n \in Internal PROVE n \in registry'
    <3>1. PICK i \in DOMAIN deferred : deferred[i] = n /\ \A j \in 1..i : ~Fails(deferred, j)
      BY <2>2, CoreComesFirst
    <3> QED  BY <2>1, <3>1
  <2> QED  BY <2>1, <2>3
<1> QED  BY <1>1, <1>2

-----------------------------------------------------------------------------
(* What keeps a configuration and the lua state as they should be          *)

LEMMA ConfigurationGrows ==
    ASSUME NEW c, NEW R, NEW T, R \subseteq T, ConfigurationOK(c, R)
    PROVE  ConfigurationOK(c, T)
BY DEF ConfigurationOK

\* A change of anything but the modules and the inputs of a configuration.
LEMMA ConfigurationCounts ==
    ASSUME NEW c, NEW R, NEW calls, ConfigurationOK(c, R)
    PROVE  ConfigurationOK(Counted(c, calls), R) /\ Counted(c, calls).modules = c.modules
           /\ Counted(c, calls).global = c.global /\ Counted(c, calls).cuba = c.cuba
<1>1. /\ DOMAIN Counted(c, calls) = DOMAIN c
      /\ Counted(c, calls).modules = c.modules /\ Counted(c, calls).inputs = c.inputs
      /\ Counted(c, calls).global = c.global /\ Counted(c, calls).cuba = c.cuba
  BY DEF Counted, ConfigurationOK
<1> QED  BY <1>1 DEF ConfigurationOK

LEMMA CallingIsOK ==
    ASSUME NEW l, NEW R, NEW calls, LuaOK(l, R)
    PROVE  LuaOK(Calling(l, calls), R)
BY DEF Calling, LuaOK

LEMMA SetFieldIsOK ==
    ASSUME NEW l, NEW R, NEW table, NEW key, NEW v, LuaOK(l, R)
    PROVE  LuaOK(SetField(l, table, key, v), R)
BY DEF SetField, LuaOK

\* A module can only be declared in a table of a type of the registry.
LEMMA DeclaredIsOK ==
    ASSUME NEW l, NEW c, NEW R, NEW of, NEW name, NEW table, LuaOK(l, R), ConfigurationOK(c, R)
    PROVE  LuaOK(Declared(l, c, of, name, table).lua, R) /\ ConfigurationOK(Declared(l, c, of, name, table).config, R)
<1>1. CASE ~IsNew(l, of, name)
  BY <1>1, SetFieldIsOK DEF Declared
<1>2. CASE IsNew(l, of, name)
  <2> DEFINE named == WithField(WithField(table, "@name", <<"string", <<name>>>>), "@type", <<"string", <<of>>>>)
             module == [type |-> of, name |-> name, parameters |-> 0]
             after == [c EXCEPT !.modules = Append(@, module)]
  <2>1. Declared(l, c, of, name, table) = [lua |-> SetField(l, of, name, named), config |-> after]
    BY <1>2 DEF Declared
  <2>2. of \in R
    BY <1>2 DEF IsNew, LuaOK
  <2> HIDE DEF named
  <2>3. {"type", "name", "parameters"} \subseteq DOMAIN module /\ module.type = of
    OBVIOUS
  <2> HIDE DEF module
  <2>4. DOMAIN after = DOMAIN c /\ after.modules = Append(c.modules, module) /\ after.inputs = c.inputs
    BY DEF ConfigurationOK
  <2>5. /\ IsList(Append(c.modules, module)) /\ Len(Append(c.modules, module)) = Len(c.modules) + 1
        /\ \A i \in 1..Len(c.modules) : Append(c.modules, module)[i] = c.modules[i]
        /\ Append(c.modules, module)[Len(c.modules) + 1] = module
    BY AppendedList DEF ConfigurationOK
  <2>6. /\ DOMAIN Append(c.modules, module) = 1..(Len(c.modules) + 1)
        /\ DOMAIN c.modules = 1..Len(c.modules) /\ Len(c.modules) \in Nat
    BY <2>5, DomainOfList DEF ConfigurationOK
  <2>7. \A i \in 1..(Len(c.modules) + 1) : i \in 1..Len(c.modules) \/ i = Len(c.modules) + 1
    BY <2>6
  <2> HIDE DEF after
  <2>8. ConfigurationOK(after, R)
    <3>1. \A i \in DOMAIN after.modules :
             {"type", "name", "parameters"} \subseteq DOMAIN after.modules[i] /\ after.modules[i].type \in R
      BY <2>2, <2>3, <2>4, <2>5, <2>6, <2>7 DEF ConfigurationOK
    <3> QED  BY <2>4, <2>5, <3>1 DEF ConfigurationOK
  <2> QED  BY <2>1, <2>8, SetFieldIsOK
<1> QED  BY <1>1, <1>2

\* A copy has sets after those of the heap, one for each module, and two.
CopyOK(c, h, R, config_, heap_) ==
    /\ ConfigurationOK(config_, R)
    /\ DOMAIN config_.modules = DOMAIN c.modules
    /\ Len(h) \in Nat /\ Len(c.modules) \in Nat /\ DOMAIN c.modules = 1..Len(c.modules)
    /\ IsList(heap_) /\ Len(heap_) = Len(h) + 2 + Len(c.modules)
    /\ \A a \in 1..Len(h) : heap_[a] = h[a]
    /\ heap_[Len(h) + 1] = h[c.global] /\ heap_[Len(h) + 2] = h[c.cuba]
    /\ \A i \in DOMAIN c.modules : heap_[Len(h) + 2 + i] = h[c.modules[i].parameters]
    /\ config_.global = Len(h) + 1 /\ config_.cuba = Len(h) + 2
    /\ \A i \in DOMAIN c.modules : /\ config_.modules[i].parameters = Len(h) + 2 + i
                                   /\ config_.modules[i].type = c.modules[i].type
LEMMA CopyIsOK ==
    ASSUME NEW c, NEW h, NEW R, ConfigurationOK(c, R), IsList(h)
    PROVE  CopyOK(c, h, R, Copy(c, h).config, Copy(c, h).heap)
<1> DEFINE n == Len(h)
           k == Len(c.modules)
           two == <<h[c.global], h[c.cuba]>>
           sets == [i \in DOMAIN c.modules |-> h[c.modules[i].parameters]]
           modules == [i \in DOMAIN c.modules |-> [c.modules[i] EXCEPT !.parameters = n + 2 + i]]
           after == [c EXCEPT !.global = n + 1, !.cuba = n + 2, !.modules = modules]
<1>1. Copy(c, h).heap = h \o two \o sets /\ Copy(c, h).config = after
  <2>1. Copy(c, h) = [heap |-> h \o two \o sets,
                      config |-> [c EXCEPT !.global = n + 1, !.cuba = n + 2,
                                    !.modules = [i \in DOMAIN @ |-> [@[i] EXCEPT !.parameters = n + 2 + i]]]]
    BY DEF Copy
  <2>2. [c EXCEPT !.global = n + 1, !.cuba = n + 2,
                  !.modules = [i \in DOMAIN @ |-> [@[i] EXCEPT !.parameters = n + 2 + i]]] = after
    BY DEF ConfigurationOK
  <2> HIDE DEF two, sets, after
  <2> QED  BY <2>1, <2>2
<1>2. n \in Nat /\ k \in Nat /\ DOMAIN h = 1..n /\ DOMAIN c.modules = 1..k
  BY DomainOfList DEF ConfigurationOK
<1>3. IsList(two) /\ Len(two) = 2 /\ two[1] = h[c.global] /\ two[2] = h[c.cuba]
  <2>1. two = [i \in 1..2 |-> two[i]] /\ two[1] = h[c.global] /\ two[2] = h[c.cuba]
    OBVIOUS
  <2> HIDE DEF two
  <2> QED  BY <2>1, FunctionIsList
<1>4. IsList(sets) /\ Len(sets) = k /\ \A i \in 1..k : sets[i] = h[c.modules[i].parameters]
  <2>1. sets = [i \in 1..k |-> sets[i]] /\ \A i \in 1..k : sets[i] = h[c.modules[i].parameters]
    BY <1>2
  <2> HIDE DEF sets, k
  <2> QED  BY <1>2, <2>1, FunctionIsList
<1>5. IsList(modules) /\ DOMAIN modules = DOMAIN c.modules
  <2>1. modules = [i \in 1..k |-> modules[i]] /\ DOMAIN modules = DOMAIN c.modules
    BY <1>2
  <2> HIDE DEF modules, k
  <2> QED  BY <1>2, <2>1, FunctionIsList
<1>6. \A i \in DOMAIN c.modules : /\ {"type", "name", "parameters"} \subseteq DOMAIN modules[i] /\ modules[i].type = c.modules[i].type
                                  /\ modules[i].parameters = n + 2 + i
  BY DEF ConfigurationOK
<1>7. /\ DOMAIN after = DOMAIN c /\ after.modules = modules /\ after.inputs = c.inputs
      /\ after.global = n + 1 /\ after.cuba = n + 2
  <2> HIDE DEF modules, n
  <2> QED  BY DEF ConfigurationOK
<1> HIDE DEF two, sets, modules, after
<1>8. /\ IsList(h \o two) /\ Len(h \o two) = n + 2 /\ \A a \in 1..n : (h \o two)[a] = h[a]
      /\ (h \o two)[n + 1] = h[c.global] /\ (h \o two)[n + 2] = h[c.cuba]
  <2>1. /\ IsList(h \o two) /\ Len(h \o two) = Len(h) + Len(two)
        /\ \A a \in 1..Len(h) : (h \o two)[a] = h[a]
        /\ \A i \in 1..Len(two) : (h \o two)[Len(h) + i] = two[i]
    <3>1. IsList(two)
      BY <1>3
    <3> QED  BY ONLY IsList(h), <3>1, JoinedLists
  <2>2. 1 \in 1..Len(two) /\ 2 \in 1..Len(two)
    BY <1>3
  <2> QED  BY <1>3, <2>1, <2>2
<1> HIDE DEF n, k
<1> DEFINE first == h \o two
<1>9. IsList(first \o sets) /\ Len(first \o sets) = (n + 2) + k
      /\ \A a \in 1..(n + 2) : (first \o sets)[a] = first[a]
      /\ \A i \in 1..k : (first \o sets)[n + 2 + i] = sets[i]
  <2>1. IsList(first) /\ Len(first) = n + 2
    BY <1>8
  <2> HIDE DEF first
  <2>2. /\ IsList(first \o sets) /\ Len(first \o sets) = Len(first) + Len(sets)
        /\ \A a \in 1..Len(first) : (first \o sets)[a] = first[a]
        /\ \A i \in 1..Len(sets) : (first \o sets)[Len(first) + i] = sets[i]
    <3>1. IsList(first) /\ IsList(sets)
      BY <1>4, <2>1
    <3> QED  BY ONLY <3>1, JoinedLists
  <2> QED  BY <1>4, <2>1, <2>2
<1>10. (\A a \in 1..n : a \in 1..(n + 2)) /\ n + 1 \in 1..(n + 2) /\ n + 2 \in 1..(n + 2)
  BY <1>2
<1>11. ConfigurationOK(after, R)
  BY <1>5, <1>6, <1>7 DEF ConfigurationOK
<1>12. /\ IsList(Copy(c, h).heap) /\ Len(Copy(c, h).heap) = n + 2 + k
       /\ \A a \in 1..n : Copy(c, h).heap[a] = h[a]
       /\ Copy(c, h).heap[n + 1] = h[c.global] /\ Copy(c, h).heap[n + 2] = h[c.cuba]
       /\ \A i \in 1..k : Copy(c, h).heap[n + 2 + i] = h[c.modules[i].parameters]
  <2>1. Copy(c, h).heap = first \o sets
    BY <1>1
  <2>2. /\ \A a \in 1..n : first[a] = h[a]
        /\ first[n + 1] = h[c.global] /\ first[n + 2] = h[c.cuba]
    BY <1>8
  <2> HIDE DEF first
  <2>3. \A a \in 1..n : (first \o sets)[a] = h[a]
    BY <1>9, <1>10, <2>2
  <2>4. (first \o sets)[n + 1] = h[c.global] /\ (first \o sets)[n + 2] = h[c.cuba]
    BY <1>9, <1>10, <2>2
  <2>5. \A i \in 1..k : (first \o sets)[n + 2 + i] = h[c.modules[i].parameters]
    <3> SUFFICES ASSUME NEW i \in 1..k PROVE (first \o sets)[n + 2 + i] = h[c.modules[i].parameters]
      OBVIOUS
    <3>1. (first \o sets)[n + 2 + i] = sets[i]
      BY <1>2, <1>9
    <3> QED  BY <1>4, <3>1
  <2> QED  BY <1>9, <2>1, <2>3, <2>4, <2>5
<1> USE DEF n, k
<1> QED  BY <1>1, <1>2, <1>5, <1>6, <1>7, <1>11, <1>12 DEF CopyOK

\* Freezing the sets of a copy leaves those that came before it.
LEMMA FrozenCopyElsewhere ==
    ASSUME NEW copy, NEW n \in Nat, IsList(copy.config.modules),
           n < copy.config.global, n < copy.config.cuba,
           copy.config.global \in Nat, copy.config.cuba \in Nat,
           \A i \in DOMAIN copy.config.modules : copy.config.modules[i].parameters \in Nat
                                                 /\ n < copy.config.modules[i].parameters
    PROVE  /\ DOMAIN FrozenCopy(copy).heap = DOMAIN copy.heap
           /\ \A a \in DOMAIN copy.heap : a \in 1..n => FrozenCopy(copy).heap[a] = copy.heap[a]
<1> DEFINE two == <<copy.config.global, copy.config.cuba>>
           others == [i \in DOMAIN copy.config.modules |-> copy.config.modules[i].parameters]
           addresses == two \o others
           k == Len(copy.config.modules)
<1>1. k \in Nat /\ DOMAIN copy.config.modules = 1..k
  BY DomainOfList
<1>2. IsList(two) /\ Len(two) = 2 /\ \A j \in 1..2 : two[j] \in Nat /\ n < two[j]
  <2>1. two = [i \in 1..2 |-> two[i]]
    OBVIOUS
  <2>2. \A j \in 1..2 : two[j] \in Nat /\ n < two[j]
    OBVIOUS
  <2> HIDE DEF two
  <2> QED  BY <2>1, <2>2, FunctionIsList
<1>3. IsList(others) /\ Len(others) = k
  <2>1. others = [i \in 1..k |-> others[i]]
    BY <1>1
  <2> HIDE DEF others, k
  <2> QED  BY <1>1, <2>1, FunctionIsList
<1>4. \A j \in 1..k : others[j] \in Nat /\ n < others[j]
  BY <1>1
<1>5. FrozenCopy(copy) = FrozenAt(lua, copy.heap, addresses)
  BY DEF FrozenCopy
<1> HIDE DEF two, others
<1>6. /\ IsList(addresses) /\ Len(addresses) = Len(two) + Len(others)
      /\ \A i \in 1..Len(two) : addresses[i] = two[i]
      /\ \A i \in 1..(Len(two) + Len(others)) :
            i \in 1..Len(two) \/ (i - Len(two) \in 1..Len(others) /\ addresses[i] = others[i - Len(two)])
  <2>1. IsList(two) /\ IsList(others)
    BY <1>2, <1>3
  <2> QED  BY ONLY <2>1, JoinedLists
<1> HIDE DEF addresses, k
<1>7. ASSUME NEW j \in 1..Len(addresses) PROVE n < addresses[j]
  BY <1>2, <1>3, <1>4, <1>6
<1>8. Len(addresses) \in Nat
  BY <1>6, DomainOfList
<1>9. \A a \in 1..n : \A j \in 1..Len(addresses) : addresses[j] # a
  <2>1. ASSUME NEW j \in 1..Len(addresses) PROVE addresses[j] \notin 1..n
    <3>1. addresses[j] \in Nat
      BY <1>2, <1>3, <1>4, <1>6
    <3> QED  BY <1>7, <3>1
  <2> QED  BY <2>1
<1>10. /\ DOMAIN FrozenAt(lua, copy.heap, addresses).heap = DOMAIN copy.heap
       /\ \A a \in DOMAIN copy.heap : (\A j \in 1..Len(addresses) : addresses[j] # a)
                                      => FrozenAt(lua, copy.heap, addresses).heap[a] = copy.heap[a]
  BY <1>8, FrozenElsewhere
<1> QED  BY <1>5, <1>9, <1>10

\* The internal modules have types of the registry and sets of their own.
LEMMA WithInternalsIsOK ==
    ASSUME NEW c, NEW h, NEW R, ConfigurationOK(c, R), IsList(h), Internal \subseteq R
    PROVE  LET full == WithInternals(h, c)
           IN  /\ ConfigurationOK(full.config, R)
               /\ IsList(full.heap) /\ Len(full.heap) \in Nat /\ Len(h) \in Nat /\ Len(h) <= Len(full.heap)
               /\ \A a \in 1..Len(h) : full.heap[a] = h[a]
               /\ full.config.global = c.global /\ full.config.cuba = c.cuba
               /\ DOMAIN c.modules \subseteq DOMAIN full.config.modules
               /\ \A i \in DOMAIN c.modules : full.config.modules[i] = c.modules[i]
               /\ \A i \in DOMAIN full.config.modules \ DOMAIN c.modules :
                     full.config.modules[i].parameters \in (Len(h) + 1)..Len(full.heap)
<1> DEFINE empty == PSet(<<>>)
           integrands == Emplaced(empty, "integrands", <<"vector of tag", c.integrands>>, FALSE)
           first == <<<<"_met", "met", empty>>, <<"_cuba", "cuba", empty>>>>
           inputs == [i \in DOMAIN c.inputs |-> <<"_input", c.inputs[i], empty>>]
           last == <<<<"_momemta", "momemta", integrands>>>>
           new == first \o inputs \o last
           n == Len(new)
           m == Len(c.modules)
           sets == [i \in DOMAIN new |-> new[i][3]]
           modules == [i \in DOMAIN new |-> [type |-> new[i][1], name |-> new[i][2], parameters |-> Len(h) + i]]
           full == WithInternals(h, c)
<1>1. full = [heap |-> h \o sets, config |-> [c EXCEPT !.modules = @ \o modules]]
  BY DEF WithInternals
<1> HIDE DEF empty, integrands, full
<1>2. /\ IsList(first) /\ IsList(inputs) /\ IsList(last)
      /\ \A i \in DOMAIN first : first[i][1] \in Internal
      /\ \A i \in DOMAIN inputs : inputs[i][1] \in Internal
      /\ \A i \in DOMAIN last : last[i][1] \in Internal
  <2>1. first = [i \in 1..2 |-> first[i]] /\ last = [i \in 1..1 |-> last[i]]
    OBVIOUS
  <2>2. Len(c.inputs) \in Nat /\ inputs = [i \in 1..Len(c.inputs) |-> inputs[i]]
    BY DomainOfList DEF ConfigurationOK
  <2>3. /\ \A i \in 1..2 : first[i][1] \in Internal
        /\ \A i \in DOMAIN inputs : inputs[i][1] \in Internal
        /\ \A i \in 1..1 : last[i][1] \in Internal
    BY DEF Internal
  <2> HIDE DEF first, inputs, last
  <2>4. IsList(first) /\ Len(first) = 2
    BY <2>1, FunctionIsList
  <2>5. IsList(inputs)
    BY <2>2, FunctionIsList
  <2>6. IsList(last) /\ Len(last) = 1
    BY <2>1, FunctionIsList
  <2>7. DOMAIN first = 1..2 /\ DOMAIN last = 1..1
    BY <2>4, <2>6, DomainOfList
  <2> QED  BY <2>3, <2>4, <2>5, <2>6, <2>7
<1> HIDE DEF first, inputs, last
<1>3. /\ IsList(first \o inputs)
      /\ \A i \in DOMAIN (first \o inputs) : (first \o inputs)[i][1] \in Internal
  <2> DEFINE both == first \o inputs
  <2>1. /\ IsList(both) /\ Len(both) = Len(first) + Len(inputs)
        /\ \A i \in 1..Len(first) : both[i] = first[i]
        /\ \A i \in 1..(Len(first) + Len(inputs)) :
              i \in 1..Len(first) \/ (i - Len(first) \in 1..Len(inputs) /\ both[i] = inputs[i - Len(first)])
    BY ONLY <1>2, JoinedLists
  <2> HIDE DEF both
  <2>2. /\ DOMAIN both = 1..(Len(first) + Len(inputs)) /\ DOMAIN first = 1..Len(first)
        /\ DOMAIN inputs = 1..Len(inputs)
    BY <1>2, <2>1, DomainOfList
  <2>3. \A i \in DOMAIN both : both[i][1] \in Internal
    BY <1>2, <2>1, <2>2
  <2> QED  BY <2>1, <2>3 DEF both
<1>4. IsList(new) /\ \A i \in DOMAIN new : new[i][1] \in Internal
  <2> DEFINE both == first \o inputs
             all == both \o last
  <2>1. IsList(both) /\ \A i \in DOMAIN both : both[i][1] \in Internal
    BY <1>3
  <2> HIDE DEF both
  <2>2. /\ IsList(all) /\ Len(all) = Len(both) + Len(last)
        /\ \A i \in 1..Len(both) : all[i] = both[i]
        /\ \A i \in 1..(Len(both) + Len(last)) :
              i \in 1..Len(both) \/ (i - Len(both) \in 1..Len(last) /\ all[i] = last[i - Len(both)])
    BY ONLY <1>2, <2>1, JoinedLists
  <2> HIDE DEF all
  <2>3. /\ DOMAIN all = 1..(Len(both) + Len(last)) /\ DOMAIN both = 1..Len(both)
        /\ DOMAIN last = 1..Len(last)
    BY <1>2, <2>1, <2>2, DomainOfList
  <2>4. \A i \in DOMAIN all : all[i][1] \in Internal
    BY <1>2, <2>1, <2>2, <2>3
  <2>5. new = all
    BY DEF all, both
  <2> QED  BY <2>2, <2>4, <2>5
<1> HIDE DEF new
<1>5. n \in Nat /\ DOMAIN new = 1..n /\ m \in Nat /\ DOMAIN c.modules = 1..m /\ Len(h) \in Nat
  BY <1>4, DomainOfList DEF ConfigurationOK
<1>6. IsList(sets) /\ Len(sets) = n
  <2>1. sets = [i \in 1..n |-> sets[i]]
    BY <1>5
  <2> HIDE DEF sets, n
  <2> QED  BY <1>5, <2>1, FunctionIsList
<1>7. /\ IsList(modules) /\ Len(modules) = n
      /\ \A i \in 1..n : /\ {"type", "name", "parameters"} \subseteq DOMAIN modules[i] /\ modules[i].type \in R
                         /\ modules[i].parameters = Len(h) + i
  <2>1. modules = [i \in 1..n |-> modules[i]]
    BY <1>5
  <2>2. \A i \in 1..n : /\ {"type", "name", "parameters"} \subseteq DOMAIN modules[i] /\ modules[i].type \in R
                        /\ modules[i].parameters = Len(h) + i
    BY <1>4, <1>5
  <2> HIDE DEF modules, n
  <2> QED  BY <1>5, <2>1, <2>2, FunctionIsList
<1> HIDE DEF sets, modules, n
<1>8. /\ IsList(h \o sets) /\ Len(h \o sets) = Len(h) + Len(sets)
      /\ \A a \in 1..Len(h) : (h \o sets)[a] = h[a]
  BY ONLY IsList(h), <1>6, JoinedLists
<1> DEFINE all == c.modules \o modules
<1>9. /\ IsList(all) /\ Len(all) = m + Len(modules)
      /\ \A i \in 1..m : all[i] = c.modules[i]
      /\ \A i \in 1..(m + Len(modules)) : i \in 1..m \/ (i - m \in 1..Len(modules) /\ all[i] = modules[i - m])
  <2>1. IsList(c.modules)
    BY DEF ConfigurationOK
  <2>2. IsList(modules)
    BY <1>7
  <2> QED  BY ONLY <2>1, <2>2, JoinedLists, SMTT(30)
<1> HIDE DEF all, m
<1>10. /\ full.heap = h \o sets /\ full.config = [c EXCEPT !.modules = all]
  BY <1>1 DEF all
<1>11. /\ DOMAIN full.config = DOMAIN c /\ full.config.modules = all /\ full.config.inputs = c.inputs
       /\ full.config.global = c.global /\ full.config.cuba = c.cuba
  BY <1>10 DEF ConfigurationOK
<1>12. DOMAIN all = 1..(m + n)
  BY <1>7, <1>9, DomainOfList
<1>13. DOMAIN c.modules \subseteq DOMAIN all
  BY <1>5, <1>12
<1>14. ASSUME NEW i \in DOMAIN all
       PROVE  {"type", "name", "parameters"} \subseteq DOMAIN all[i] /\ all[i].type \in R
  <2>1. CASE i \in 1..m
    BY <1>5, <1>9, <2>1 DEF ConfigurationOK
  <2>2. CASE i \notin 1..m
    <3>1. i - m \in 1..n /\ all[i] = modules[i - m]
      BY <1>7, <1>9, <1>12, <2>2
    <3> HIDE DEF all
    <3> QED  BY <1>7, <3>1
  <2> QED  BY <2>1, <2>2
<1>15. ASSUME NEW i \in DOMAIN all \ DOMAIN c.modules
       PROVE  all[i].parameters \in (Len(h) + 1)..(Len(h) + n)
  <2>1. i - m \in 1..n /\ all[i] = modules[i - m]
    BY <1>5, <1>7, <1>9, <1>12
  <2>2. all[i].parameters = Len(h) + (i - m)
    BY <1>7, <2>1
  <2> HIDE DEF all
  <2> QED  BY <1>5, <2>1, <2>2
<1>16. ConfigurationOK(full.config, R)
  BY <1>9, <1>11, <1>14 DEF ConfigurationOK
<1>17. full.heap = h \o sets /\ Len(full.heap) = Len(h) + n
  BY <1>6, <1>8, <1>10
<1> QED  BY <1>5, <1>8, <1>9, <1>11, <1>13, <1>15, <1>16, <1>17 DEF full, m

-----------------------------------------------------------------------------
(* The steps                                                               *)

LEMMA SetupInvInit == Init /\ RegistryInv => SetupInv
<1> SUFFICES ASSUME Init, RegistryInv PROVE SetupInv
  OBVIOUS
<1>1. IsList(<<>>) /\ Len(<<>>) = 0 /\ DOMAIN <<>> = {}
  <2>1. <<>> \in Seq({}) /\ Len(<<>>) = 0 /\ DOMAIN <<>> = {}
    OBVIOUS
  <2> QED  BY <2>1, SequenceIsList
<1>2. InternalFirst
  BY DEF Init, RegistryInit, InternalFirst
<1>3. LuaOK(lua, registry)
  BY DEF Init, LuaOK
<1>4. ConfigurationOK(config, registry)
  BY <1>1 DEF Init, NoConfiguration, ConfigurationOK
<1>5. HeapOK
  BY <1>1 DEF Init, HeapOK
<1>6. FrozenOK
  BY <1>1 DEF Init, FrozenOK
<1>7. BuiltOK
  <2>1. built.of = 0 /\ built.outcome = "none" /\ built.missing = {}
    BY DEF Init
  <2> QED  BY <1>1, <2>1 DEF Init, BuiltOK, TypesAreKnown, ValidatedIsConstructed
<1> QED  BY <1>2, <1>3, <1>4, <1>5, <1>6, <1>7 DEF SetupInv

\* Of a step that freezes nothing and builds nothing, what remains to be shown.
LEMMA SetupInvNothingFrozen ==
    ASSUME SetupInv, RegistryInv', registry \subseteq registry', linked' = linked,
           ~initialized' => deferred' = linked' /\ pc' = "started",
           initialized' => Internal \subseteq registry',
           LuaOK(lua', registry'), ConfigurationOK(config', registry'),
           UNCHANGED <<frozen, built>>,
           IsList(heap'), Len(heap) <= Len(heap'),
           pc' \in {"started", "script"} => frozen = <<>> /\ heap' = <<>>,
           pc' = "read" => Len(heap') >= 2 /\ config'.global = 1 /\ config'.cuba = 2,
           frozen = <<>> \/ DOMAIN config'.modules = DOMAIN config.modules
    PROVE  SetupInv'
<1>1. InternalFirst'
  BY DEF SetupInv, InternalFirst
<1>2. HeapOK'
  BY DEF HeapOK
<1>3. FrozenOK'
  <2>1. IsList(frozen')
    BY DEF SetupInv, FrozenOK
  <2>2. ASSUME NEW f \in DOMAIN frozen'
        PROVE  /\ ConfigurationOK(frozen'[f].config, registry')
               /\ DOMAIN config'.modules \subseteq DOMAIN frozen'[f].config.modules
               /\ Addresses(frozen'[f].config) \subseteq 3..Len(heap')
    <3>1. f \in DOMAIN frozen /\ frozen # <<>> /\ frozen' = frozen
      OBVIOUS
    <3>2. /\ ConfigurationOK(frozen[f].config, registry)
          /\ DOMAIN config.modules \subseteq DOMAIN frozen[f].config.modules
          /\ Addresses(frozen[f].config) \subseteq 3..Len(heap)
      BY <3>1 DEF SetupInv, FrozenOK
    <3>3. ConfigurationOK(frozen[f].config, registry')
      BY <3>2, ConfigurationGrows
    <3>4. 3..Len(heap) \subseteq 3..Len(heap')
      <4>1. Len(heap) \in Nat /\ Len(heap') \in Nat
        BY DomainOfList DEF SetupInv, HeapOK
      <4> QED  BY <4>1
    <3> QED  BY <3>1, <3>2, <3>3, <3>4
  <2> QED  BY <2>1, <2>2 DEF FrozenOK, Addresses
<1>4. BuiltOK'
  BY DEF SetupInv, BuiltOK, TypesAreKnown, ValidatedIsConstructed
<1> QED  BY <1>1, <1>2, <1>3, <1>4 DEF SetupInv

LEMMA SetupInvStart ==
    ASSUME SetupInv, RegistryInv', NEW name \in DOMAIN Scripts, Start(name)
    PROVE  SetupInv'
<1> USE DEF SetupInv
<1>1. exportList /\ pc = "started" /\ UNCHANGED <<config, heap, frozen, built>>
  BY DEF Start
<1>2. registry \subseteq registry' /\ linked' = linked
  BY <1>1, Growing DEF RegistryNext
<1>3. initialized' /\ Internal \subseteq registry'
  BY <1>1, InternalIsFound
<1>4. pc' \in {"started", "script"}
  BY DEF Start
<1>5. LuaOK(lua', registry')
  <2>1. CASE UNCHANGED lua
    BY <1>2, <2>1 DEF LuaOK
  <2>2. CASE lua' = inject_parameters(register_modules(lua, Listed(TRUE)), Scripts[name].injected)
    <3> DEFINE l == register_modules(lua, Listed(TRUE))
    <3>1. Listed(TRUE) \subseteq registry'
      BY DEF Listed
    <3>2. LuaOK(l, registry')
      BY <1>2, <3>1 DEF register_modules, LuaOK
    <3> HIDE DEF l
    <3>3. LuaOK(inject_parameters(l, Scripts[name].injected), registry')
      BY <3>2 DEF inject_parameters, LuaOK
    <3> QED  BY <2>2, <3>3 DEF l
  <2> QED  BY <2>1, <2>2 DEF Start
<1>6. ConfigurationOK(config', registry')
  BY <1>1, <1>2, ConfigurationGrows
<1>7. IsList(heap') /\ Len(heap) <= Len(heap') /\ frozen = <<>> /\ heap' = <<>>
  BY <1>1, DomainOfList DEF HeapOK
<1> QED  BY <1>1, <1>2, <1>3, <1>4, <1>5, <1>6, <1>7, SetupInvNothingFrozen

\* Of a statement, what remains to be shown is about lua and the configuration.
LEMMA SetupInvStatement ==
    ASSUME SetupInv, RegistryInv', pc = "script", pc' # "started", pc' # "read",
           UNCHANGED <<heap, frozen, built>>, registry \subseteq registry', UNCHANGED <<linked, initialized>>,
           LuaOK(lua', registry'), ConfigurationOK(config', registry')
    PROVE  SetupInv'
<1>1. frozen = <<>> /\ heap' = <<>> /\ IsList(heap') /\ Len(heap) <= Len(heap')
  BY DomainOfList DEF SetupInv, HeapOK
<1>2. initialized' /\ Internal \subseteq registry'
  BY DEF SetupInv, InternalFirst
<1> QED  BY <1>1, <1>2, SetupInvNothingFrozen

\* The same for one that the registry does not notice.
LEMMA SetupInvGoes ==
    ASSUME SetupInv, RegistryInv', pc = "script", UNCHANGED <<heap, frozen, built>>, UNCHANGED registryVars,
           NEW error, NEW l, NEW c, Goes(error, l, c),
           error \/ (LuaOK(l, registry) /\ ConfigurationOK(c, registry))
    PROVE  SetupInv'
<1>1. registry' = registry /\ UNCHANGED <<linked, initialized>>
  BY DEF registryVars
<1>2. CASE error
  <2>1. pc' = "refused" /\ UNCHANGED <<lua, config>>
    BY <1>2 DEF Goes
  <2> QED  BY <1>1, <2>1, SetupInvStatement DEF SetupInv
<1>3. CASE ~error
  <2>1. lua' = l /\ config' = c /\ pc' = pc
    BY <1>3 DEF Goes
  <2> QED  BY <1>1, <1>3, <2>1, SetupInvStatement
<1> QED  BY <1>2, <1>3

LEMMA SetupInvLoadModules ==
    ASSUME SetupInv, RegistryInv', LoadModules
    PROVE  SetupInv'
<1> USE DEF SetupInv
<1>1. pc = "script" /\ UNCHANGED <<heap, frozen, built, config>>
  BY DEF LoadModules, Reached, Outside
<1>2. CASE pc' = "terminated" /\ UNCHANGED <<lua, registryVars>>
  BY <1>1, <1>2, SetupInvStatement DEF registryVars
<1>3. CASE registerLibrary(Statement.library) /\ lua' = register_modules(lua, Listed(TRUE)) /\ UNCHANGED pc
  <2>1. registry \subseteq registry' /\ UNCHANGED <<linked, initialized>>
    BY <1>3 DEF registerLibrary, registryVars
  <2>2. Listed(TRUE) \subseteq registry'
    BY DEF Listed
  <2>3. LuaOK(lua', registry')
    BY <1>3, <2>1, <2>2 DEF register_modules, LuaOK
  <2>4. ConfigurationOK(config', registry')
    BY <1>1, <2>1, ConfigurationGrows
  <2> QED  BY <1>1, <1>3, <2>1, <2>3, <2>4, SetupInvStatement
<1> QED  BY <1>2, <1>3 DEF LoadModules

LEMMA SetupInvDeclare ==
    ASSUME SetupInv, RegistryInv', Declare
    PROVE  SetupInv'
<1> DEFINE s == Statement
           r == Eval(lua, s.value)
           l == Calling(lua, r.calls)
           c == Counted(config, r.calls)
           d == Declared(l, c, s.type, s.name, r.value)
           error == s.type \notin DOMAIN lua.globals \/ (IsNew(lua, s.type, s.name) /\ s.name \in InvalidNames)
<1>1. pc = "script" /\ UNCHANGED <<heap, frozen, built>> /\ UNCHANGED registryVars
  BY DEF Declare, Reached, Outside
<1>2. CASE pc' = "terminated" /\ UNCHANGED <<at, lua, config>>
  BY <1>1, <1>2, SetupInvStatement DEF registryVars, SetupInv
<1>3. CASE Goes(error, d.lua, d.config)
  <2>1. LuaOK(l, registry) /\ ConfigurationOK(c, registry)
    BY CallingIsOK, ConfigurationCounts DEF SetupInv
  <2> HIDE DEF s, r, l, c, error
  <2>2. LuaOK(d.lua, registry) /\ ConfigurationOK(d.config, registry)
    BY <2>1, DeclaredIsOK
  <2> HIDE DEF d
  <2> QED  BY <1>1, <1>3, <2>2, SetupInvGoes
<1> QED  BY <1>2, <1>3 DEF Declare

LEMMA SetupInvAssign ==
    ASSUME SetupInv, RegistryInv', Assign
    PROVE  SetupInv'
<1> DEFINE r == Eval(lua, Statement.value)
           k == Calling(lua, r.calls)
           l == [k EXCEPT !.globals = With(@, Statement.name, r.value), !.types = @ \ {Statement.name}]
           c == Counted(config, r.calls)
<1>1. pc = "script" /\ UNCHANGED <<heap, frozen, built>> /\ UNCHANGED registryVars
  BY DEF Assign, Reached, Outside
<1>2. Goes(FALSE, l, c)
  BY DEF Assign
<1>3. LuaOK(k, registry) /\ ConfigurationOK(c, registry)
  BY CallingIsOK, ConfigurationCounts DEF SetupInv
<1> HIDE DEF r, k, c
<1>4. LuaOK(l, registry)
  BY <1>3 DEF LuaOK
<1> HIDE DEF l
<1> QED  BY <1>1, <1>2, <1>3, <1>4, SetupInvGoes

LEMMA SetupInvDeclareInput ==
    ASSUME SetupInv, RegistryInv', DeclareInput
    PROVE  SetupInv'
<1> DEFINE l == [lua EXCEPT !.inputs = With(@, Statement.name, InputTable(Statement.name))]
           c == [config EXCEPT !.inputs = Append(@, Statement.name)]
<1>1. pc = "script" /\ UNCHANGED <<heap, frozen, built>> /\ UNCHANGED registryVars
  BY DEF DeclareInput, Reached, Outside
<1>2. Goes(FALSE, l, c)
  BY DEF DeclareInput
<1>3. LuaOK(l, registry)
  BY DEF SetupInv, LuaOK
<1>4. ConfigurationOK(c, registry)
  <2>1. DOMAIN c = DOMAIN config /\ c.inputs = Append(config.inputs, Statement.name) /\ c.modules = config.modules
    BY DEF SetupInv, ConfigurationOK
  <2>2. IsList(c.inputs)
    BY <2>1, AppendedList DEF SetupInv, ConfigurationOK
  <2> QED  BY <2>1, <2>2 DEF SetupInv, ConfigurationOK
<1> HIDE DEF l, c
<1> QED  BY <1>1, <1>2, <1>3, <1>4, SetupInvGoes

LEMMA SetupInvAddPermutations ==
    ASSUME SetupInv, RegistryInv', AddPermutations
    PROVE  SetupInv'
<1> DEFINE s == Statement
           d == Permutate(lua, config, s.kind, s.names)
           l == Redirected(d.lua, s.kind, s.names)
           error == "Permutator" \notin DOMAIN lua.globals \/ ~IsNew(lua, "Permutator", PermutatorOf(s.kind, s.names))
<1>1. pc = "script" /\ UNCHANGED <<heap, frozen, built>> /\ UNCHANGED registryVars
  BY DEF AddPermutations, Reached, Outside
<1>2. Goes(error, l, d.config)
  BY DEF AddPermutations
<1>3. LuaOK(d.lua, registry) /\ ConfigurationOK(d.config, registry)
  <2>1. LuaOK(Calling(lua, 1), registry) /\ ConfigurationOK(Counted(config, 1), registry)
    BY CallingIsOK, ConfigurationCounts DEF SetupInv
  <2> DEFINE name == PermutatorOf(s.kind, s.names)
             inputs == [i \in DOMAIN s.names |-> <<"string", IF s.kind = "reco" THEN lua.inputs[s.names[i]].reco_p4
                                                             ELSE lua.inputs[s.names[i]].gen_p4>>]
             table == <<"table", [ps_point |-> NextDimension(lua), inputs |-> <<"array", inputs>>]>>
  <2>2. d = Declared(Calling(lua, 1), Counted(config, 1), "Permutator", name, table)
    BY DEF Permutate
  <2> HIDE DEF name, table, d
  <2> QED  BY <2>1, <2>2, DeclaredIsOK
<1> HIDE DEF d, s, error
<1>4. LuaOK(l, registry)
  BY <1>3 DEF Redirected, LuaOK
<1> HIDE DEF l
<1> QED  BY <1>1, <1>2, <1>3, <1>4, SetupInvGoes

LEMMA SetupInvOther ==
    ASSUME SetupInv, RegistryInv', SetFinalModule \/ NewPath
    PROVE  SetupInv'
<1>1. pc = "script" /\ UNCHANGED <<heap, frozen, built>> /\ UNCHANGED registryVars
  BY DEF SetFinalModule, NewPath, Reached, Outside
<1>2. CASE SetFinalModule
  <2> DEFINE c == [config EXCEPT !.integrands = Append(@, fromString(Statement.tag))]
  <2>1. ConfigurationOK(c, registry)
    BY DEF SetupInv, ConfigurationOK
  <2>2. Goes(~isInputTag(Statement.tag), lua, c)
    BY <1>2 DEF SetFinalModule
  <2> HIDE DEF c
  <2>3. LuaOK(lua, registry)
    BY DEF SetupInv
  <2> QED  BY <1>1, <2>1, <2>2, <2>3, SetupInvGoes
<1>3. CASE NewPath
  <2> DEFINE c == [config EXCEPT !.paths = Append(@, Statement.elements)]
  <2>1. ConfigurationOK(c, registry)
    BY DEF SetupInv, ConfigurationOK
  <2>2. Goes(Statement.elements = <<>>, lua, c)
    BY <1>3 DEF NewPath
  <2> HIDE DEF c
  <2>3. LuaOK(lua, registry)
    BY DEF SetupInv
  <2> QED  BY <1>1, <2>1, <2>2, <2>3, SetupInvGoes
<1> QED  BY <1>2, <1>3

LEMMA SetupInvReadConfiguration ==
    ASSUME SetupInv, RegistryInv', ReadConfiguration
    PROVE  SetupInv'
<1> DEFINE two == <<LazyTable(lua, "parameters"), LazyTable(lua, "cuba")>>
           sets == [i \in 1..Len(config.modules) |-> parse(Declaration(lua, config.modules[i])[2], to_any)]
           modules == [i \in DOMAIN config.modules |-> [config.modules[i] EXCEPT !.parameters = i + 2]]
           after == [config EXCEPT !.global = 1, !.cuba = 2, !.modules = modules]
<1>1. /\ pc = "script" /\ frozen = <<>> /\ UNCHANGED <<lua, frozen, built>> /\ UNCHANGED registryVars
      /\ heap = <<>> /\ IsList(heap) /\ registry' = registry /\ UNCHANGED <<linked, initialized>>
  BY DEF ReadConfiguration, SetupInv, HeapOK, registryVars
<1>2. initialized' /\ Internal \subseteq registry'
  BY <1>1 DEF SetupInv, InternalFirst
<1>3. Len(config.modules) \in Nat /\ DOMAIN config.modules = 1..Len(config.modules)
  BY DomainOfList DEF SetupInv, ConfigurationOK
<1>4. CASE pc' \in {"refused", "terminated"} /\ UNCHANGED <<heap, config>>
  BY <1>1, <1>4, SetupInvStatement DEF SetupInv
<1>5. CASE pc' = "read" /\ heap' = two \o sets /\ config' = after
  <2>1. IsList(two) /\ Len(two) = 2
    <3>1. two = [i \in 1..2 |-> two[i]]
      OBVIOUS
    <3> HIDE DEF two
    <3> QED  BY <3>1, FunctionIsList
  <2>2. IsList(sets)
    <3>1. sets = [i \in 1..Len(config.modules) |-> sets[i]]
      BY <1>3
    <3> HIDE DEF sets
    <3> QED  BY <1>3, <3>1, FunctionIsList
  <2>3. /\ IsList(modules) /\ DOMAIN modules = DOMAIN config.modules
        /\ \A i \in DOMAIN modules :
              {"type", "name", "parameters"} \subseteq DOMAIN modules[i] /\ modules[i].type = config.modules[i].type
    <3>1. modules = [i \in 1..Len(config.modules) |-> modules[i]]
      BY <1>3
    <3>2. /\ DOMAIN modules = DOMAIN config.modules
          /\ \A i \in DOMAIN modules :
                {"type", "name", "parameters"} \subseteq DOMAIN modules[i] /\ modules[i].type = config.modules[i].type
      BY DEF SetupInv, ConfigurationOK
    <3> HIDE DEF modules
    <3> QED  BY <1>3, <3>1, <3>2, FunctionIsList
  <2> HIDE DEF two, sets, modules
  <2>4. /\ DOMAIN after = DOMAIN config /\ after.global = 1 /\ after.cuba = 2
        /\ after.modules = modules /\ after.inputs = config.inputs
    BY DEF SetupInv, ConfigurationOK
  <2>5. IsList(two \o sets) /\ Len(two \o sets) = Len(two) + Len(sets)
    <3>1. IsList(two)
      BY <2>1
    <3> QED  BY ONLY <2>2, <3>1, JoinedLists
  <2>6. Len(two \o sets) >= 2 /\ Len(heap) <= Len(two \o sets)
    BY <1>1, <2>1, <2>2, <2>5, DomainOfList
  <2>7. ConfigurationOK(after, registry')
    BY <1>1, <2>3, <2>4 DEF SetupInv, ConfigurationOK
  <2>8. LuaOK(lua', registry')
    BY <1>1 DEF SetupInv
  <2> HIDE DEF after
  <2>9. /\ IsList(heap') /\ Len(heap) <= Len(heap')
        /\ Len(heap') >= 2 /\ config'.global = 1 /\ config'.cuba = 2
    BY <1>5, <2>4, <2>5, <2>6
  <2> QED  BY <1>1, <1>2, <1>5, <2>7, <2>8, <2>9, SetupInvNothingFrozen
<1> QED  BY <1>1, <1>4, <1>5 DEF ReadConfiguration

\* The program changes the first or the second set.
LEMMA SetParameterChanges ==
    ASSUME SetupInv, NEW where, NEW name, NEW v, SetParameter(where, name, v)
    PROVE  \/ UNCHANGED heap
           \/ /\ IsList(heap') /\ Len(heap') = Len(heap)
              /\ \A a \in 3..Len(heap) : heap'[a] = heap[a]
<1> DEFINE address == AddressOf(config, where)
           done == Set(lua, heap[address], where, name, v)
<1>1. pc = "read" /\ (UNCHANGED heap \/ heap' = [heap EXCEPT ![address] = done.pset])
  BY DEF SetParameter
<1>2. address \in {1, 2} /\ IsList(heap)
  BY <1>1 DEF SetupInv, HeapOK, AddressOf
<1> HIDE DEF address, done
<1>3. DOMAIN heap = 1..Len(heap) /\ Len(heap) \in Nat
  BY <1>2, DomainOfList
<1> DEFINE h == [heap EXCEPT ![address] = done.pset]
<1>4. h = [a \in 1..Len(heap) |-> h[a]] /\ \A a \in 3..Len(heap) : h[a] = heap[a]
  <2>1. \A a \in 3..Len(heap) : a \in 1..Len(heap) /\ a # 1 /\ a # 2
    BY <1>3
  <2> QED  BY <1>2, <1>3, <2>1
<1> HIDE DEF h
<1>5. IsList(h) /\ Len(h) = Len(heap)
  BY <1>3, <1>4, FunctionIsList
<1> QED  BY <1>1, <1>4, <1>5 DEF h

LEMMA SetupInvSetParameter ==
    ASSUME SetupInv, RegistryInv', NEW where, NEW name, NEW v, SetParameter(where, name, v)
    PROVE  SetupInv'
<1> DEFINE address == AddressOf(config, where)
           done == Set(lua, heap[address], where, name, v)
<1>1. /\ pc = "read" /\ UNCHANGED <<config, frozen, built>> /\ UNCHANGED registryVars
      /\ pc' \in {"read", "refused", "terminated"} /\ (lua' = lua \/ lua' = done.lua)
  BY DEF SetParameter
<1>2. registry' = registry /\ UNCHANGED <<linked, initialized>>
  BY <1>1 DEF registryVars
<1>3. initialized' /\ Internal \subseteq registry'
  BY <1>1, <1>2 DEF SetupInv, InternalFirst
<1>4. LuaOK(lua', registry')
  <2>1. done.lua = SetField(lua, where, name, push_any(v))
    BY DEF Set
  <2>2. LuaOK(done.lua, registry)
    BY <2>1, SetFieldIsOK DEF SetupInv
  <2> HIDE DEF done
  <2> QED  BY <1>1, <1>2, <2>2 DEF SetupInv
<1> HIDE DEF address, done
<1>5. ConfigurationOK(config', registry')
  BY <1>1, <1>2 DEF SetupInv
<1>6. IsList(heap') /\ Len(heap') = Len(heap)
  BY SetParameterChanges DEF SetupInv, HeapOK
<1>7. /\ Len(heap) <= Len(heap') /\ Len(heap') >= 2 /\ config'.global = 1 /\ config'.cuba = 2
  <2>1. Len(heap) \in Nat
    BY DomainOfList DEF SetupInv, HeapOK
  <2> QED  BY <1>1, <1>6, <2>1 DEF SetupInv, HeapOK
<1>8. DOMAIN config'.modules = DOMAIN config.modules
  BY <1>1
<1> QED  BY <1>1, <1>2, <1>3, <1>4, <1>5, <1>6, <1>7, <1>8, SetupInvNothingFrozen

\* What freeze() makes of a copy: sets after those of the heap, and a
\* configuration with no other.
LEMMA FreezeAppends ==
    ASSUME SetupInv, pc = "read"
    PROVE  LET copy == Copy(config, heap)
               done == FrozenCopy(copy)
               full == WithInternals(WithGlobals(done.heap, copy.config), copy.config)
           IN  /\ ConfigurationOK(full.config, registry)
               /\ DOMAIN config.modules \subseteq DOMAIN full.config.modules
               /\ IsList(full.heap) /\ Len(heap) \in Nat /\ Len(full.heap) \in Nat /\ Len(heap) <= Len(full.heap)
               /\ \A a \in 1..Len(heap) : full.heap[a] = heap[a]
               /\ Addresses(full.config) \subseteq 3..Len(full.heap)
<1> DEFINE copy == Copy(config, heap)
           c == copy.config
           done == FrozenCopy(copy)
           h == WithGlobals(done.heap, c)
           full == WithInternals(h, c)
           n == Len(heap)
           k == Len(config.modules)
<1>1. ConfigurationOK(config, registry) /\ IsList(heap) /\ n >= 2 /\ n \in Nat /\ Internal \subseteq registry
  <2>1. initialized
    BY DEF SetupInv, InternalFirst
  <2> QED  BY <2>1, DomainOfList DEF SetupInv, HeapOK, InternalFirst
<1>2. /\ ConfigurationOK(c, registry)
      /\ DOMAIN c.modules = DOMAIN config.modules
      /\ n \in Nat /\ k \in Nat /\ DOMAIN config.modules = 1..k
      /\ IsList(copy.heap) /\ Len(copy.heap) = n + 2 + k
      /\ \A a \in 1..n : copy.heap[a] = heap[a]
      /\ c.global = n + 1 /\ c.cuba = n + 2
      /\ \A i \in DOMAIN config.modules : c.modules[i].parameters = n + 2 + i
  <2>1. CopyOK(config, heap, registry, c, copy.heap)
    BY <1>1, CopyIsOK
  <2> HIDE DEF copy, c
  <2> QED  BY <2>1 DEF CopyOK
<1> HIDE DEF copy, n, k
<1>3. IsList(c.modules)
  BY <1>2 DEF ConfigurationOK
<1>4. /\ DOMAIN done.heap = DOMAIN copy.heap
      /\ \A a \in DOMAIN copy.heap : a \in 1..n => done.heap[a] = copy.heap[a]
  <2>1. /\ n < c.global /\ n < c.cuba /\ c.global \in Nat /\ c.cuba \in Nat
        /\ \A i \in DOMAIN c.modules : c.modules[i].parameters \in Nat /\ n < c.modules[i].parameters
    BY <1>2
  <2> QED  BY <1>2, <1>3, <2>1, FrozenCopyElsewhere
<1> HIDE DEF done
<1>5. DOMAIN copy.heap = 1..(n + 2 + k)
  BY <1>2, DomainOfList
<1>6. h = [a \in 1..(n + 2 + k) |-> h[a]] /\ \A a \in 1..n : h[a] = heap[a]
  <2>1. DOMAIN done.heap = 1..(n + 2 + k)
    BY <1>4, <1>5
  <2>2. h = [a \in 1..(n + 2 + k) |-> h[a]]
    BY <2>1 DEF WithGlobals
  <2>3. ASSUME NEW a \in 1..n PROVE h[a] = heap[a]
    <3>1. a \in 1..(n + 2 + k)
      BY <1>2
    <3>2. ~\E i \in DOMAIN c.modules : c.modules[i].parameters = a
      BY <1>2
    <3>3. h[a] = done.heap[a]
      BY <2>1, <3>1, <3>2 DEF WithGlobals
    <3> HIDE DEF h, c
    <3> QED  BY <1>2, <1>4, <1>5, <3>1, <3>3
  <2> QED  BY <2>2, <2>3
<1> HIDE DEF h
<1>7. IsList(h) /\ Len(h) = n + 2 + k
  <2>1. n + 2 + k \in Nat
    BY <1>2
  <2> QED  BY <1>6, <2>1, FunctionIsList
<1> HIDE DEF c
<1>8. /\ ConfigurationOK(full.config, registry)
      /\ IsList(full.heap) /\ Len(full.heap) \in Nat /\ Len(h) \in Nat /\ Len(h) <= Len(full.heap)
      /\ \A a \in 1..Len(h) : full.heap[a] = h[a]
      /\ full.config.global = c.global /\ full.config.cuba = c.cuba
      /\ DOMAIN c.modules \subseteq DOMAIN full.config.modules
      /\ \A i \in DOMAIN c.modules : full.config.modules[i] = c.modules[i]
      /\ \A i \in DOMAIN full.config.modules \ DOMAIN c.modules :
            full.config.modules[i].parameters \in (Len(h) + 1)..Len(full.heap)
  BY ONLY <1>1, <1>2, <1>7, WithInternalsIsOK
<1> HIDE DEF full
<1>9. \A a \in 1..n : full.heap[a] = heap[a]
  <2>1. \A a \in 1..n : a \in 1..(n + 2 + k)
    BY <1>2
  <2> QED  BY <1>6, <1>7, <1>8, <2>1
<1>10. Addresses(full.config) \subseteq 3..Len(full.heap)
  <2>1. full.config.global \in 3..Len(full.heap) /\ full.config.cuba \in 3..Len(full.heap)
    BY <1>1, <1>2, <1>7, <1>8
  <2>2. ASSUME NEW i \in DOMAIN full.config.modules
        PROVE  full.config.modules[i].parameters \in 3..Len(full.heap)
    <3>1. CASE i \in DOMAIN c.modules
      <4>1. full.config.modules[i].parameters = n + 2 + i /\ i \in 1..k
        BY <1>2, <1>8, <3>1
      <4> QED  BY <1>1, <1>2, <1>7, <1>8, <4>1
    <3>2. CASE i \notin DOMAIN c.modules
      <4>1. full.config.modules[i].parameters \in (n + 2 + k + 1)..Len(full.heap)
        BY <1>7, <1>8, <3>2
      <4> QED  BY <1>1, <1>2, <1>8, <4>1
    <3> QED  BY <3>1, <3>2
  <2> QED  BY <2>1, <2>2 DEF Addresses
<1>11. n <= Len(full.heap)
  BY <1>2, <1>7, <1>8
<1> USE DEF n, c
<1> QED  BY <1>2, <1>8, <1>9, <1>10, <1>11 DEF full, h, done, copy

\* What a step does to what was frozen is to add to it.
LEMMA SetupInvFreeze ==
    ASSUME SetupInv, RegistryInv', Freeze
    PROVE  SetupInv' /\ \A a \in 1..Len(heap) : heap'[a] = heap[a]
<1> DEFINE copy == Copy(config, heap)
           done == FrozenCopy(copy)
           full == WithInternals(WithGlobals(done.heap, copy.config), copy.config)
<1>1. /\ pc = "read" /\ UNCHANGED built /\ UNCHANGED registryVars /\ FrozenAs(copy.config, done)
  BY DEF Freeze
<1>2. registry' = registry /\ UNCHANGED <<linked, initialized, deferred>>
  BY <1>1 DEF registryVars
<1>3. lua' = Calling(lua, done.calls) /\ config' = Counted(config, done.calls)
  BY <1>1 DEF FrozenAs
<1>4. /\ ConfigurationOK(full.config, registry)
      /\ DOMAIN config.modules \subseteq DOMAIN full.config.modules
      /\ IsList(full.heap) /\ Len(heap) \in Nat /\ Len(full.heap) \in Nat /\ Len(heap) <= Len(full.heap)
      /\ \A a \in 1..Len(heap) : full.heap[a] = heap[a]
      /\ Addresses(full.config) \subseteq 3..Len(full.heap)
  BY <1>1, FreezeAppends
<1>5. \/ UNCHANGED <<heap, frozen>> /\ pc' = "refused"
      \/ /\ heap' = full.heap /\ UNCHANGED pc
         /\ frozen' = Append(frozen, [config |-> full.config, asked |-> asked, calls |-> done.calls])
  BY <1>1 DEF FrozenAs
<1> HIDE DEF full, done, copy
<1>6. LuaOK(lua', registry')
  BY <1>2, <1>3, CallingIsOK DEF SetupInv
<1>7. /\ ConfigurationOK(config', registry') /\ config'.modules = config.modules
      /\ config'.global = config.global /\ config'.cuba = config.cuba
  BY <1>2, <1>3, ConfigurationCounts DEF SetupInv
<1>8. initialized /\ Internal \subseteq registry
  BY <1>1 DEF SetupInv, InternalFirst
<1>9. Len(heap) >= 2 /\ config.global = 1 /\ config.cuba = 2 /\ IsList(heap) /\ IsList(frozen)
  BY <1>1 DEF SetupInv, HeapOK, FrozenOK
<1>10. CASE UNCHANGED <<heap, frozen>> /\ pc' = "refused"
  <2>1. SetupInv'
    BY <1>1, <1>2, <1>4, <1>6, <1>7, <1>8, <1>9, <1>10, SetupInvNothingFrozen
  <2> QED  BY <1>10, <2>1
<1>11. CASE /\ heap' = full.heap /\ UNCHANGED pc
            /\ frozen' = Append(frozen, [config |-> full.config, asked |-> asked, calls |-> done.calls])
  <2> DEFINE new == [config |-> full.config, asked |-> asked, calls |-> done.calls]
             k == Len(frozen)
  <2>1. new.config = full.config
    OBVIOUS
  <2>2. frozen' = Append(frozen, new)
    BY <1>11
  <2> HIDE DEF new
  <2>3. /\ IsList(Append(frozen, new)) /\ Len(Append(frozen, new)) = Len(frozen) + 1
        /\ \A i \in 1..Len(frozen) : Append(frozen, new)[i] = frozen[i]
        /\ Append(frozen, new)[Len(frozen) + 1] = new
    BY <1>9, AppendedList
  <2>4. /\ DOMAIN frozen' = 1..(k + 1) /\ DOMAIN frozen = 1..k /\ k \in Nat /\ Len(frozen') = k + 1
        /\ IsList(frozen')
    BY <1>9, <2>2, <2>3, DomainOfList
  <2>5. HeapOK'
    BY <1>1, <1>4, <1>7, <1>9, <1>11 DEF HeapOK
  <2>6. ASSUME NEW f \in DOMAIN frozen'
        PROVE  /\ ConfigurationOK(frozen'[f].config, registry')
               /\ DOMAIN config'.modules \subseteq DOMAIN frozen'[f].config.modules
               /\ Addresses(frozen'[f].config) \subseteq 3..Len(heap')
    <3>1. CASE f \in 1..k
      <4>1. frozen'[f] = frozen[f]
        BY <2>2, <2>3, <3>1
      <4>2. /\ ConfigurationOK(frozen[f].config, registry)
            /\ DOMAIN config.modules \subseteq DOMAIN frozen[f].config.modules
            /\ Addresses(frozen[f].config) \subseteq 3..Len(heap)
        BY <2>4, <3>1 DEF SetupInv, FrozenOK
      <4>3. 3..Len(heap) \subseteq 3..Len(heap')
        BY <1>4, <1>11
      <4> QED  BY <1>2, <1>7, <4>1, <4>2, <4>3
    <3>2. CASE f = k + 1
      <4>1. frozen'[f].config = full.config
        BY <2>1, <2>2, <2>3, <3>2
      <4> QED  BY <1>2, <1>4, <1>7, <1>11, <4>1
    <3> QED  BY <2>4, <3>1, <3>2
  <2>7. FrozenOK'
    BY <2>4, <2>6 DEF FrozenOK, Addresses
  <2>8. BuiltOK'
    <3>1. built' = built /\ built.of \in 0..k
      BY <1>1 DEF SetupInv, BuiltOK
    <3>2. built'.of \in 0..(k + 1)
      BY <2>4, <3>1
    <3> QED  BY <2>4, <3>1, <3>2 DEF SetupInv, BuiltOK, TypesAreKnown, ValidatedIsConstructed
  <2>9. InternalFirst'
    BY <1>2, <1>8 DEF SetupInv, InternalFirst
  <2>10. \A a \in 1..Len(heap) : heap'[a] = heap[a]
    BY <1>4, <1>11
  <2> QED  BY <1>6, <1>7, <2>5, <2>7, <2>8, <2>9, <2>10 DEF SetupInv
<1> QED  BY <1>5, <1>10, <1>11

\* Of all a constructor reads without a default, a declaration that was
\* validated has what is neither global nor undeclared.
LEMMA ValidatedHasIt ==
    ASSUME NEW n \in DOMAIN Lines, NEW pset, Validated(Definition[n], pset),
           NEW r \in Lines[n].reads, NotThere(r, pset)
    PROVE  \/ <<n, r.name>> \in Undeclared
           \/ \E i \in DOMAIN Definition[n].attributes :
                 Definition[n].attributes[i].global /\ Definition[n].attributes[i].name = r.name
<1> DEFINE def == Definition[n]
<1>1. ~def.internal /\ (r.default \/ <<n, r.name>> \in Undeclared \/ AsksFor(def, r))
  BY LinesAssumption
<1>2. ~r.default /\ \A s \in findPSet(r.in, pset) : ~Exists(s, r.name)
  BY DEF NotThere
<1>3. validateModuleParameters(def, pset)
  BY <1>1 DEF Validated
<1> HIDE DEF def
<1>4. CASE \E i \in DOMAIN def.inputs : def.inputs[i].name = r.name /\ ~def.inputs[i].optional /\ def.inputs[i].nested = r.in
  <2> PICK i \in DOMAIN def.inputs : def.inputs[i].name = r.name /\ ~def.inputs[i].optional /\ def.inputs[i].nested = r.in
    BY <1>4
  <2>1. \E s \in findPSet(def.inputs[i].nested, pset) : Exists(s, def.inputs[i].name)
    BY <1>3 DEF validateModuleParameters
  <2> QED  BY <1>2, <2>1
<1>5. CASE \E i \in DOMAIN def.attributes : /\ def.attributes[i].name = r.name /\ ~def.attributes[i].global
                                            /\ ~def.attributes[i].optional /\ r.in = <<>>
  <2> PICK i \in DOMAIN def.attributes : /\ def.attributes[i].name = r.name /\ ~def.attributes[i].global
                                         /\ ~def.attributes[i].optional /\ r.in = <<>>
    BY <1>5
  <2>1. Exists(pset, r.name)
    BY <1>3 DEF validateModuleParameters
  <2>2. findPSet(r.in, pset) = {pset}
    BY NotNested
  <2> QED  BY <1>2, <2>1, <2>2
<1>6. CASE \E i \in DOMAIN def.attributes : def.attributes[i].name = r.name /\ def.attributes[i].global
  BY <1>6 DEF def
<1>7. CASE <<n, r.name>> \in Undeclared
  BY <1>7
<1> QED  BY <1>1, <1>2, <1>4, <1>5, <1>6, <1>7 DEF AsksFor

\* Every name the registry finds has lines in the catalogue.
LEMMA KnownHasLines ==
    ASSUME RegistryInv, linked \in Programs
    PROVE  registry \subseteq DOMAIN Lines
<1>1. registry \subseteq NamesOf(linked) \cup UNION {NamesOf(Libraries[l]) : l \in loaded}
  BY DEF RegistryInv, InOneOfTheLists, Known
<1>2. NamesOf(linked) \subseteq DOMAIN Lines
  BY LinesAssumption
<1>3. \A l \in loaded : NamesOf(Libraries[l]) \subseteq DOMAIN Lines
  BY LinesAssumption DEF RegistryInv, RegistryTypeOK
<1> QED  BY <1>1, <1>2, <1>3

\* A MoMEMta leaves the sets of the heap and works on those of its copy, and
\* the first check of validateModules() never fails.
LEMMA ConstructBuilds ==
    ASSUME SetupInv, RegistryInv', NEW f \in 1..Len(frozen), NEW kept \in SUBSET DOMAIN config.modules,
           Construct(f, kept)
    PROVE  /\ IsList(heap') /\ Len(heap) <= Len(heap') /\ \A a \in 1..Len(heap) : heap'[a] = heap[a]
           /\ built'.of = f /\ TypesAreKnown' /\ ValidatedIsConstructed'
<1> DEFINE copy == Copy(frozen[f].config, heap)
           c == copy.config
           h == copy.heap
           missing == Reads(c, h, kept, NotThere)
           mistyped == Reads(c, h, kept, OfAnotherType)
           used == UsedBy(c, h, kept)
           outcome == Outcome(c, h, missing \cup mistyped # {})
           n == Len(heap)
           k == Len(frozen[f].config.modules)
<1>1. exportList
  BY DEF Construct
<1>2. \/ /\ outcome \in {"failed", "built"}
         /\ built' = [of |-> f, outcome |-> outcome, missing |-> missing, mistyped |-> mistyped]
         /\ heap' = IF Cardinality(used) < c.n_dimensions THEN ReindexedHeap(c, h, kept, used) ELSE h
      \/ /\ built' = [of |-> f, outcome |-> outcome, missing |-> {}, mistyped |-> {}]
         /\ heap' = h
  <2>1. ConstructFrom(f, c, h, kept, missing, mistyped, used, outcome)
    BY DEF Construct
  <2> HIDE DEF copy, c, h, missing, mistyped, used, outcome
  <2> QED  BY <2>1 DEF ConstructFrom
<1>3. /\ ConfigurationOK(frozen[f].config, registry) /\ IsList(heap)
      /\ DOMAIN config.modules \subseteq DOMAIN frozen[f].config.modules
  <2>1. f \in DOMAIN frozen
    BY DomainOfList DEF SetupInv, FrozenOK
  <2> QED  BY <2>1 DEF SetupInv, FrozenOK, HeapOK
<1>4. CopyOK(frozen[f].config, heap, registry, c, h)
  BY <1>3, CopyIsOK
<1> HIDE DEF copy, c, h
<1>5. /\ DOMAIN c.modules = DOMAIN frozen[f].config.modules
      /\ n \in Nat /\ k \in Nat
      /\ IsList(h) /\ Len(h) = n + 2 + k
      /\ \A a \in 1..n : h[a] = heap[a]
      /\ \A i \in DOMAIN c.modules : c.modules[i].parameters = n + 2 + i
      /\ ConfigurationOK(c, registry) /\ DOMAIN c.modules = 1..k
  BY <1>4 DEF CopyOK
<1> HIDE DEF n, k
<1>6. DOMAIN h = 1..(n + 2 + k) /\ kept \subseteq DOMAIN c.modules
  BY <1>3, <1>5, DomainOfList
<1>7. /\ IsList(h) /\ n <= Len(h) /\ \A a \in 1..n : h[a] = heap[a]
  BY <1>5
<1>8. LET r == ReindexedHeap(c, h, kept, used) IN IsList(r) /\ n <= Len(r) /\ \A a \in 1..n : r[a] = heap[a]
  <2> DEFINE r == ReindexedHeap(c, h, kept, used)
  <2>1. r = [a \in 1..(n + 2 + k) |-> r[a]]
    BY <1>6 DEF ReindexedHeap
  <2>2. ASSUME NEW a \in 1..n PROVE r[a] = heap[a]
    <3>1. a \in DOMAIN h
      BY <1>5, <1>6
    <3>2. ~\E i \in kept : c.modules[i].parameters = a
      BY <1>5, <1>6
    <3>3. r[a] = h[a]
      BY <3>1, <3>2 DEF ReindexedHeap
    <3> HIDE DEF r
    <3> QED  BY <1>5, <3>3
  <2> HIDE DEF r
  <2>3. n + 2 + k \in Nat
    BY <1>5
  <2>4. IsList(r) /\ Len(r) = n + 2 + k
    BY <2>1, <2>3, FunctionIsList
  <2>5. n <= n + 2 + k
    BY <1>5
  <2> QED  BY <2>2, <2>4, <2>5 DEF r
<1>9. IsList(heap') /\ n <= Len(heap') /\ \A a \in 1..n : heap'[a] = heap[a]
  <2> HIDE DEF outcome, missing, mistyped, used
  <2>1. heap' = h \/ heap' = ReindexedHeap(c, h, kept, used)
    BY <1>2
  <2> QED  BY <1>7, <1>8, <2>1
<1>10. built'.of = f /\ built'.outcome = outcome
  <2> HIDE DEF outcome, missing, mistyped, used
  <2> QED  BY <1>2
<1>11. registry \subseteq registry' /\ linked' = linked
  BY <1>1, Growing DEF RegistryNext, SetupInv
<1>12. outcome # "unknown type"
  <2>1. \A i \in DOMAIN c.modules : c.modules[i].type \in Available
    BY <1>5, <1>11 DEF Available, Listed, ConfigurationOK
  <2> HIDE DEF missing, mistyped
  <2> QED  BY <2>1 DEF Outcome
<1>13. TypesAreKnown'
  BY <1>10, <1>12 DEF TypesAreKnown
<1>14. ValidatedIsConstructed'
  <2>1. CASE built'.missing = {}
    BY <2>1 DEF ValidatedIsConstructed
  <2>2. CASE outcome \in {"failed", "built"} /\ built'.missing = missing
    <3>1. InAll(c, h, Validated)
      <4> HIDE DEF missing, mistyped
      <4> QED  BY <2>2 DEF Outcome
    <3>2. ASSUME NEW m \in missing
          PROVE  \/ m \in Undeclared
                 \/ \E i \in DOMAIN Definition[m[1]].attributes :
                       Definition[m[1]].attributes[i].global /\ Definition[m[1]].attributes[i].name = m[2]
      <4>0. PICK i \in kept : \E r \in Lines[c.modules[i].type].reads :
               NotThere(r, At(c, h, i)) /\ m = <<c.modules[i].type, r.name>>
        BY DEF Reads
      <4>1. PICK r \in Lines[c.modules[i].type].reads :
               NotThere(r, At(c, h, i)) /\ m = <<c.modules[i].type, r.name>>
        BY <4>0
      <4>2. i \in DOMAIN c.modules /\ c.modules[i].type \in registry
        BY <1>5, <1>6 DEF ConfigurationOK
      <4>3. c.modules[i].type \in DOMAIN Lines
        BY <4>2, KnownHasLines DEF SetupInv, InternalFirst
      <4>4. Validated(Definition[c.modules[i].type], At(c, h, i))
        BY <3>1, <4>2 DEF InAll
      <4>5. m[1] = c.modules[i].type /\ m[2] = r.name
        BY <4>1
      <4> DEFINE n_ == c.modules[i].type
      <4>6. n_ \in DOMAIN Lines /\ Validated(Definition[n_], At(c, h, i)) /\ r \in Lines[n_].reads
        BY <4>3, <4>4
      <4> HIDE DEF n_
      <4>7. \/ <<n_, r.name>> \in Undeclared
            \/ \E j \in DOMAIN Definition[n_].attributes :
                  Definition[n_].attributes[j].global /\ Definition[n_].attributes[j].name = r.name
        BY ONLY <4>1, <4>6, ValidatedHasIt
      <4>8. m = <<n_, r.name>> /\ m[1] = n_ /\ m[2] = r.name
        BY <4>1, <4>5 DEF n_
      <4> QED  BY ONLY <4>7, <4>8
    <3> HIDE DEF missing
    <3> QED  BY <2>2, <3>2 DEF ValidatedIsConstructed
  <2>3. built'.missing = {} \/ (outcome \in {"failed", "built"} /\ built'.missing = missing)
    <3> HIDE DEF outcome, missing, mistyped, used
    <3> QED  BY <1>2
  <2> QED  BY <2>1, <2>2, <2>3
<1> QED  BY <1>9, <1>10, <1>13, <1>14 DEF n

LEMMA SetupInvConstruct ==
    ASSUME SetupInv, RegistryInv', NEW f \in 1..Len(frozen), NEW kept \in SUBSET DOMAIN config.modules,
           Construct(f, kept), pc = "read"
    PROVE  SetupInv'
<1>1. exportList /\ UNCHANGED <<pc, lua, config, frozen>>
  BY DEF Construct
<1>2. registry \subseteq registry' /\ linked' = linked
  BY <1>1, Growing DEF RegistryNext, SetupInv
<1>3. initialized' /\ Internal \subseteq registry'
  BY <1>1, InternalIsFound DEF SetupInv
<1>4. IsList(heap') /\ Len(heap) <= Len(heap') /\ built'.of = f /\ TypesAreKnown' /\ ValidatedIsConstructed'
  BY ConstructBuilds
<1>5. Len(heap) \in Nat /\ Len(heap') \in Nat /\ Len(heap) >= 2
  BY <1>4, DomainOfList DEF SetupInv, HeapOK
<1>6. InternalFirst'
  BY <1>2, <1>3 DEF SetupInv, InternalFirst
<1>7. LuaOK(lua', registry') /\ ConfigurationOK(config', registry')
  <2>1. LuaOK(lua, registry')
    BY <1>2 DEF SetupInv, LuaOK
  <2>2. ConfigurationOK(config, registry')
    BY <1>2, ConfigurationGrows DEF SetupInv
  <2> QED  BY <1>1, <2>1, <2>2
<1>8. HeapOK'
  BY <1>1, <1>4, <1>5 DEF SetupInv, HeapOK
<1>9. FrozenOK'
  <2>1. ASSUME NEW g \in DOMAIN frozen
        PROVE  /\ ConfigurationOK(frozen[g].config, registry')
               /\ DOMAIN config.modules \subseteq DOMAIN frozen[g].config.modules
               /\ Addresses(frozen[g].config) \subseteq 3..Len(heap')
    <3>1. /\ ConfigurationOK(frozen[g].config, registry)
          /\ DOMAIN config.modules \subseteq DOMAIN frozen[g].config.modules
          /\ Addresses(frozen[g].config) \subseteq 3..Len(heap)
      BY DEF SetupInv, FrozenOK
    <3>2. ConfigurationOK(frozen[g].config, registry')
      BY <1>2, <3>1, ConfigurationGrows
    <3>3. 3..Len(heap) \subseteq 3..Len(heap')
      BY <1>4, <1>5
    <3> QED  BY <3>1, <3>2, <3>3
  <2>2. IsList(frozen) /\ frozen' = frozen /\ config' = config
    BY <1>1 DEF SetupInv, FrozenOK
  <2> QED  BY <2>1, <2>2 DEF FrozenOK, Addresses
<1>10. BuiltOK'
  <2>1. f \in 0..Len(frozen')
    BY <1>1
  <2> QED  BY <1>4, <2>1 DEF BuiltOK
<1> QED  BY <1>6, <1>7, <1>8, <1>9, <1>10 DEF SetupInv

LEMMA SetupInvUnchanged ==
    ASSUME SetupInv, UNCHANGED vars
    PROVE  SetupInv'
<1>1. /\ UNCHANGED <<linked, deferred, initialized, registry, plugins, loaded, broken>>
      /\ UNCHANGED <<pc, lua, config, heap, frozen, built>>
  BY DEF vars, registryVars
<1>2. RegistryInv'
  BY <1>1 DEF SetupInv, RegistryInv, RegistryTypeOK, InOneOfTheLists, InTheFactory, Known
<1>3. LuaOK(lua', registry') /\ ConfigurationOK(config', registry')
  BY <1>1 DEF SetupInv
<1>4. InternalFirst' /\ HeapOK'
  BY <1>1 DEF SetupInv, InternalFirst, HeapOK
<1>5. FrozenOK'
  BY <1>1 DEF SetupInv, FrozenOK, Addresses
<1>6. BuiltOK'
  BY <1>1 DEF SetupInv, BuiltOK, TypesAreKnown, ValidatedIsConstructed
<1> QED  BY <1>2, <1>3, <1>4, <1>5, <1>6 DEF SetupInv

\* The copy a MoMEMta is made of: the next that was frozen.
LEMMA NextToBuild ==
    ASSUME SetupInv, built.of < Len(frozen)
    PROVE  built.of + 1 \in 1..Len(frozen)
<1>1. Len(frozen) \in Nat /\ built.of \in 0..Len(frozen)
  BY DomainOfList DEF SetupInv, FrozenOK, BuiltOK
<1> QED  BY <1>1

LEMMA SetupInvNext == SetupInv /\ RegistryInv' /\ [Next]_vars => SetupInv'
<1> SUFFICES ASSUME SetupInv, RegistryInv', [Next]_vars PROVE SetupInv'
  OBVIOUS
<1>1. CASE \E name \in DOMAIN Scripts : Start(name)
  BY <1>1, SetupInvStart
<1>2. CASE Exec
  BY <1>2, SetupInvLoadModules, SetupInvDeclare, SetupInvAssign, SetupInvDeclareInput, SetupInvAddPermutations,
     SetupInvOther DEF Exec
<1>3. CASE ReadConfiguration
  BY <1>3, SetupInvReadConfiguration
<1>4. CASE Freeze
  BY <1>4, SetupInvFreeze
<1>5. CASE pc = "read" /\ \E change \in script.changes : SetParameter(change[1], change[2], change[3])
  BY <1>5, SetupInvSetParameter
<1>6. CASE /\ pc = "read" /\ built.of < Len(frozen)
           /\ \E kept \in SUBSET DOMAIN config.modules : Construct(built.of + 1, kept)
  BY <1>6, NextToBuild, SetupInvConstruct
<1>7. CASE UNCHANGED vars
  BY <1>7, SetupInvUnchanged
<1> QED  BY <1>1, <1>2, <1>3, <1>4, <1>5, <1>6, <1>7 DEF Next

LEMMA SetupInvAlways == Spec => []SetupInv
BY SetupInvInit, SetupInvNext, RegistryInvInSetup, PTL DEF Spec

-----------------------------------------------------------------------------
\* In a program that reads a configuration, loads what the file says and builds
\* MoMEMtas, the registry is as complete as module Registry promises.
THEOREM SetupKeepsTheRegistry == Spec => []RegistryIsComplete
BY SetupUsesTheRegistry, RegistryCompleteness, PTL

\* Whatever a configuration file says, and whichever registrations threw before
\* the program tried again, validateModules() never meets a type it does not know.
THEOREM TypesStayKnown == Spec => []TypesAreKnown
<1>1. SetupInv => TypesAreKnown
  BY DEF SetupInv, BuiltOK
<1> QED  BY <1>1, SetupInvAlways, PTL

\* Whatever lua makes of a file, no constructor of a MoMEMta misses a parameter
\* validateModules() could have asked for; this is what the catalogue of
\* definitions and of reads (LinesAssumption) makes of the validation.
THEOREM ValidationIsEnough == Spec => []ValidatedIsConstructed
<1>1. SetupInv => ValidatedIsConstructed
  BY DEF SetupInv, BuiltOK
<1> QED  BY <1>1, SetupInvAlways, PTL

\* A step leaves the sets of what was frozen, once there is any.
LEMMA FrozenSetsStay ==
    ASSUME SetupInv, RegistryInv', Next, NEW f \in DOMAIN frozen, NEW a \in Addresses(frozen[f].config)
    PROVE  heap'[a] = heap[a]
<1>1. a \in 3..Len(heap) /\ Len(heap) \in Nat
  BY DomainOfList DEF SetupInv, FrozenOK, HeapOK
<1>2. a \in 1..Len(heap)
  BY <1>1
<1>3. frozen # <<>>
  OBVIOUS
<1>4. pc \notin {"started", "script"}
  BY <1>3 DEF SetupInv, HeapOK
<1>5. CASE (\E name \in DOMAIN Scripts : Start(name)) \/ Exec \/ ReadConfiguration
  <2>1. pc \in {"started", "script"}
    BY <1>5 DEF Start, Exec, LoadModules, Declare, Assign, DeclareInput, AddPermutations, SetFinalModule, NewPath,
                Reached, ReadConfiguration
  <2> QED  BY <1>4, <2>1
<1>6. CASE Freeze
  BY <1>2, <1>6, SetupInvFreeze
<1>7. CASE \E change \in script.changes : SetParameter(change[1], change[2], change[3])
  <2> PICK change \in script.changes : SetParameter(change[1], change[2], change[3])
    BY <1>7
  <2> QED  BY <1>1, SetParameterChanges
<1>8. CASE /\ pc = "read" /\ built.of < Len(frozen)
           /\ \E kept \in SUBSET DOMAIN config.modules : Construct(built.of + 1, kept)
  BY <1>2, <1>8, NextToBuild, ConstructBuilds
<1> QED  BY <1>5, <1>6, <1>7, <1>8 DEF Next

\* No set of a frozen configuration is changed by what comes after it, however
\* many changes, copies and MoMEMtas a program makes.
THEOREM FrozenStaysAsItIs == Spec => FrozenIsFinal
<1>1. SetupInv /\ [Next]_vars
      => [\A f \in DOMAIN frozen : \A a \in Addresses(frozen[f].config) : heap'[a] = heap[a]]_vars
  <2>1. SetupInv /\ [Next]_vars => RegistryInv'
    BY RegistrySteps, RegistryInvNext DEF SetupInv
  <2> QED  BY <2>1, FrozenSetsStay
<1> QED  BY <1>1, SetupInvAlways, PTL DEF Spec, FrozenIsFinal

-----------------------------------------------------------------------------
(* What lazy values stand for.  Until it is frozen, an element of the      *)
(* reader's first two sets stands for the field of its name, and that of a *)
(* module for what the file gave; and lua has what the program set last.   *)

LazyOK(l, pset, where) ==
    /\ {"set", "frozen"} \subseteq DOMAIN pset /\ ~pset.frozen
    /\ \A k \in DOMAIN pset.set : pset.set[k] = [value |-> <<"field", where, k>>, lazy |-> TRUE]
    /\ DOMAIN pset.set # {} => Global(l, where)[1] = "table"

DeclaredOK(l, c, h) ==
    \A i \in DOMAIN c.modules :
        /\ c.modules[i].parameters = i + 2 /\ i + 2 \in 3..Len(h)
        /\ h[i + 2] = parse(Declaration(l, c.modules[i])[2], to_any)

AskedOK(l, c, h, list) ==
    \A i \in DOMAIN list :
        LET where == list[i][1]  name == list[i][2]
        IN  /\ where \in Tables
            /\ name \in DOMAIN h[AddressOf(c, where)].set
            /\ \A v \in LastAsked(list, where, name) : Field(Global(l, where), name) = push_any(v)

ReaderOK(l, c, h, list) ==
    /\ \A where \in Tables : LazyOK(l, h[AddressOf(c, where)], where)
    /\ DeclaredOK(l, c, h)
    /\ AskedOK(l, c, h, list)

ReaderInv ==
    /\ \A change \in script.changes : change[1] \in Tables
    /\ IsList(asked) /\ (pc \in {"started", "script"} => asked = <<>>)
    /\ pc = "read" => ReaderOK(lua, config, heap, asked)

\* No module is declared in one of the two tables.
LEMMA ModulesAreElsewhere ==
    ASSUME SetupInv, NEW i \in DOMAIN config.modules
    PROVE  config.modules[i].type \notin Tables
<1>1. config.modules[i].type \in Known
  BY DEF SetupInv, ConfigurationOK, RegistryInv, InOneOfTheLists
<1>2. linked \in Programs /\ loaded \subseteq DOMAIN Libraries
  BY DEF SetupInv, InternalFirst, RegistryInv, RegistryTypeOK
<1>3. NamesOf(linked) \cap Tables = {} /\ \A l \in loaded : NamesOf(Libraries[l]) \cap Tables = {}
  BY <1>2, TablesAssumption
<1> QED  BY <1>1, <1>3 DEF Known

\* add_dimension() changes no table.
LEMMA CallingKeepsTables ==
    ASSUME NEW l, NEW R, LuaOK(l, R), NEW calls, NEW name
    PROVE  Global(Calling(l, calls), name) = Global(l, name)
<1>1. Calling(l, calls).globals = l.globals
  BY DEF Calling, LuaOK
<1> QED  BY <1>1 DEF Global

\* What an element stands for is the same after some calls of it.
LEMMA EvaluatedAfterCalls ==
    ASSUME NEW l, NEW R, LuaOK(l, R), NEW calls
    PROVE  /\ \A where, k : Evaluated(Calling(l, calls), <<"field", where, k>>) = Field(Global(l, where), k)
           /\ \A f : f[1] = "function" /\ f[2][1] = "parameter" =>
                 Evaluated(Calling(l, calls), f) =
                    IF Global(l, "parameters")[1] \notin {"table", "string"} THEN <<"string", <<"error">>>>
                    ELSE Field(Global(l, "parameters"), f[2][2])
<1>1. \A name : Global(Calling(l, calls), name) = Global(l, name)
  BY CallingKeepsTables
<1> DEFINE after == Calling(l, calls)
<1> HIDE DEF after
<1>2. ASSUME NEW where, NEW k PROVE Evaluated(after, <<"field", where, k>>) = Field(Global(after, where), k)
  BY DEF Evaluated
<1>3. ASSUME NEW f, f[1] = "function" /\ f[2][1] = "parameter"
      PROVE  Evaluated(after, f) =
                    IF Global(after, "parameters")[1] \notin {"table", "string"} THEN <<"string", <<"error">>>>
                    ELSE Field(Global(after, "parameters"), f[2][2])
  BY <1>3 DEF Evaluated, Called
<1> QED  BY <1>1, <1>2, <1>3 DEF after

\* Freezing a set evaluates its lazy elements.
LEMMA FrozenIsEvaluated ==
    ASSUME NEW l, NEW pset, ~pset.frozen
    PROVE  LET f == freeze(l, pset).pset
           IN  /\ "set" \in DOMAIN f /\ DOMAIN f.set = DOMAIN pset.set
               /\ \A k \in DOMAIN pset.set :
                     pset.set[k].lazy =>
                        \E calls : f.set[k].value = to_any(Evaluated(Calling(l, calls), pset.set[k].value))
BY DEF freeze, ParameterSet_freeze

-----------------------------------------------------------------------------
\* A field of a table is set; no other field, and no other table.
LEMMA SetFieldSets ==
    ASSUME NEW l, NEW R, LuaOK(l, R), NEW where, NEW name, NEW v,
           Global(l, where) = Nil \/ Global(l, where)[1] = "table"
    PROVE  LET after == SetField(l, where, name, v)
           IN  /\ \A other : other # where => Global(after, other) = Global(l, other)
               /\ Global(after, where)[1] = "table"
               /\ \A k : Field(Global(after, where), k) = IF k = name THEN v ELSE Field(Global(l, where), k)
<1> DEFINE old == IF Global(l, where) = Nil THEN <<"table", <<>>>> ELSE Global(l, where)
           new == WithField(old, name, v)
           after == SetField(l, where, name, v)
<1>1. after.globals = With(l.globals, where, new)
  <2>1. after = [l EXCEPT !.globals = With(@, where, new)]
    BY DEF SetField
  <2> HIDE DEF new
  <2> QED  BY <2>1 DEF LuaOK
<1> HIDE DEF after
<1>2. Global(after, where) = new /\ \A other : other # where => Global(after, other) = Global(l, other)
  <2> HIDE DEF new
  <2> QED  BY <1>1 DEF With, Global
<1>3. old[1] = "table" /\ \A k : Field(old, k) = Field(Global(l, where), k)
  <2>1. CASE Global(l, where) = Nil
    <3>1. old = <<"table", <<>>>> /\ Global(l, where)[1] = "nil"
      BY <2>1 DEF Nil
    <3>2. old[1] = "table" /\ DOMAIN old[2] = {}
      BY <3>1
    <3> HIDE DEF old
    <3> QED  BY <3>1, <3>2 DEF Field
  <2>2. CASE Global(l, where) # Nil
    <3>1. old = Global(l, where)
      BY <2>2
    <3> HIDE DEF old
    <3> QED  BY <2>2, <3>1
  <2> QED  BY <2>1, <2>2
<1> HIDE DEF old
<1>4. new[1] = "table" /\ new[2] = With(old[2], name, v)
  BY DEF WithField
<1> HIDE DEF new
<1>5. ASSUME NEW k PROVE Field(new, k) = IF k = name THEN v ELSE Field(old, k)
  <2>1. DOMAIN new[2] = DOMAIN old[2] \cup {name}
    BY <1>4 DEF With
  <2>2. CASE k = name
    BY <1>4, <2>1, <2>2 DEF Field, With
  <2>3. CASE k # name /\ k \in DOMAIN old[2]
    BY <1>3, <1>4, <2>1, <2>3 DEF Field, With
  <2>4. CASE k # name /\ k \notin DOMAIN old[2]
    BY <1>3, <1>4, <2>1, <2>4 DEF Field
  <2> QED  BY <2>2, <2>3, <2>4
<1> QED  BY <1>2, <1>3, <1>4, <1>5 DEF after

\* What was asked last, when something is asked.
LEMMA LastAskedGrows ==
    ASSUME NEW list, IsList(list), NEW new, NEW w, NEW x
    PROVE  LastAsked(Append(list, new), w, x) =
              IF w = new[1] /\ x = new[2] THEN {new[3]} ELSE LastAsked(list, w, x)
<1> DEFINE n == Len(list)
           longer == Append(list, new)
<1>1. /\ IsList(longer) /\ Len(longer) = n + 1 /\ n \in Nat
      /\ DOMAIN longer = 1..(n + 1) /\ DOMAIN list = 1..n
      /\ \A i \in 1..n : longer[i] = list[i]
      /\ longer[n + 1] = new
  BY AppendedList, DomainOfList
<1> HIDE DEF longer, n
<1> SUFFICES LastAsked(longer, w, x) = IF w = new[1] /\ x = new[2] THEN {new[3]} ELSE LastAsked(list, w, x)
  BY DEF longer
<1> DEFINE Is(s, i) == s[i][1] = w /\ s[i][2] = x
           LastAt(s, m) == {j \in 1..m : Is(s, j) /\ \A k \in (j + 1)..m : s[k][1] # w \/ s[k][2] # x}
<1>2. LastAsked(longer, w, x) = {longer[i][3] : i \in LastAt(longer, n + 1)}
  BY <1>1 DEF LastAsked
<1>3. LastAsked(list, w, x) = {list[i][3] : i \in LastAt(list, n)}
  <2>1. Len(list) = n
    BY DEF n
  <2> QED  BY <1>1, <2>1 DEF LastAsked
<1>4. CASE w = new[1] /\ x = new[2]
  <2>1. Is(longer, n + 1) /\ n + 1 \in 1..(n + 1) /\ (\A k \in (n + 2)..(n + 1) : FALSE)
    BY <1>1, <1>4
  <2>2. \A j \in 1..n : n + 1 \in (j + 1)..(n + 1)
    BY <1>1
  <2>3. \A j \in 1..(n + 1) : j \in 1..n \/ j = n + 1
    BY <1>1
  <2>4. LastAt(longer, n + 1) = {n + 1}
    BY <1>1, <2>1, <2>2, <2>3
  <2> HIDE DEF LastAt
  <2> QED  BY <1>1, <1>2, <1>4, <2>4
<1>5. CASE ~(w = new[1] /\ x = new[2])
  <2>1. ~Is(longer, n + 1)
    BY <1>1, <1>5
  <2>2. \A j \in 1..(n + 1) : j \in 1..n \/ j = n + 1
    BY <1>1
  <2>3. ASSUME NEW j \in 1..n
        PROVE  (\A k \in (j + 1)..(n + 1) : longer[k][1] # w \/ longer[k][2] # x)
               <=> \A k \in (j + 1)..n : list[k][1] # w \/ list[k][2] # x
    <3>1. \A k \in (j + 1)..(n + 1) : (k \in (j + 1)..n /\ k \in 1..n) \/ k = n + 1
      BY <1>1
    <3>2. \A k \in (j + 1)..n : k \in (j + 1)..(n + 1) /\ k \in 1..n
      BY <1>1
    <3> QED  BY <1>1, <2>1, <3>1, <3>2
  <2>4. \A j \in 1..n : Is(longer, j) <=> Is(list, j)
    BY <1>1
  <2>5. \A j \in 1..n : j \in 1..(n + 1)
    BY <1>1
  <2>6. LastAt(longer, n + 1) = LastAt(list, n) /\ \A i \in LastAt(list, n) : longer[i] = list[i]
    <3>1. \A i \in LastAt(list, n) : longer[i] = list[i]
      BY <1>1
    <3>2. \A j \in LastAt(longer, n + 1) : j \in LastAt(list, n)
      BY <2>1, <2>2, <2>3, <2>4
    <3>3. \A j \in LastAt(list, n) : j \in LastAt(longer, n + 1)
      BY <2>3, <2>4, <2>5
    <3> HIDE DEF LastAt
    <3> QED  BY <3>1, <3>2, <3>3
  <2> HIDE DEF LastAt
  <2>7. {longer[i][3] : i \in LastAt(longer, n + 1)} = {list[i][3] : i \in LastAt(list, n)}
    BY <2>6
  <2> QED  BY <1>2, <1>3, <1>5, <2>7
<1> QED  BY <1>4, <1>5

\* An element that is lazy is added to a set.
EmplacedLazy(pset, name, v) == Emplaced(pset, name, v, TRUE)
LEMMA EmplacedIsThere ==
    ASSUME NEW pset, {"set", "frozen"} \subseteq DOMAIN pset, NEW name, NEW v
    PROVE  LET after == EmplacedLazy(pset, name, v)
           IN  /\ {"set", "frozen"} \subseteq DOMAIN after /\ after.frozen = pset.frozen
               /\ DOMAIN after.set = DOMAIN pset.set \cup {name}
               /\ \A k \in DOMAIN pset.set : after.set[k] = pset.set[k]
               /\ name \notin DOMAIN pset.set => after.set[name] = [value |-> v, lazy |-> TRUE]
<1> DEFINE new == [value |-> v, lazy |-> TRUE]
<1>1. CASE Exists(pset, name)
  BY <1>1 DEF EmplacedLazy, Emplaced, Exists
<1>2. CASE ~Exists(pset, name)
  <2>1. EmplacedLazy(pset, name, v) = [pset EXCEPT !.set = With(@, name, new)]
    BY <1>2 DEF EmplacedLazy, Emplaced
  <2> HIDE DEF new
  <2>2. /\ {"set", "frozen"} \subseteq DOMAIN EmplacedLazy(pset, name, v)
        /\ EmplacedLazy(pset, name, v).frozen = pset.frozen
        /\ EmplacedLazy(pset, name, v).set = With(pset.set, name, new)
    BY <2>1
  <2> QED  BY <1>2, <2>2 DEF With, Exists, new
<1> QED  BY <1>1, <1>2

\* A parameter that is set is a field of lua, and the set of the reader has an
\* element for it.
LEMMA ReaderOKSetParameter ==
    ASSUME SetupInv, ReaderInv, pc = "read", pc' = "read",
           NEW where \in Tables, NEW name, NEW v, SetParameter(where, name, v)
    PROVE  ReaderOK(lua', config', heap', asked')
<1> DEFINE address == AddressOf(config, where)
           pset == heap[address]
           field == <<"field", where, name>>
           after == EmplacedLazy(pset, name, field)
           l == SetField(lua, where, name, push_any(v))
<1>1. /\ config' = config /\ lua' = l
      /\ heap' = [heap EXCEPT ![address] = after]
      /\ asked' = Append(asked, <<where, name, v>>)
      /\ Global(lua, where) = Nil \/ Global(lua, where)[1] = "table"
  BY DEF SetParameter, Set, EmplacedLazy
<1>2. ReaderOK(lua, config, heap, asked) /\ LuaOK(lua, registry) /\ IsList(asked)
  BY DEF ReaderInv, SetupInv
<1>3. /\ IsList(heap) /\ Len(heap) \in Nat /\ Len(heap) >= 2 /\ DOMAIN heap = 1..Len(heap)
      /\ config.global = 1 /\ config.cuba = 2
  BY DomainOfList DEF SetupInv, HeapOK
<1>4. /\ AddressOf(config, "parameters") = 1 /\ AddressOf(config, "cuba") = 2
      /\ \A w \in Tables : AddressOf(config, w) \in 1..2 /\ AddressOf(config, w) \in DOMAIN heap
      /\ \A w \in Tables : AddressOf(config, w) = address <=> w = where
  BY <1>3 DEF AddressOf, Tables
<1>5. LazyOK(lua, pset, where)
  BY <1>2 DEF ReaderOK
<1>6. /\ \A other : other # where => Global(l, other) = Global(lua, other)
      /\ Global(l, where)[1] = "table"
      /\ \A k : Field(Global(l, where), k) = IF k = name THEN push_any(v) ELSE Field(Global(lua, where), k)
  BY <1>1, <1>2, SetFieldSets
<1>7. /\ {"set", "frozen"} \subseteq DOMAIN after /\ after.frozen = pset.frozen
      /\ DOMAIN after.set = DOMAIN pset.set \cup {name}
      /\ \A k \in DOMAIN pset.set : after.set[k] = pset.set[k]
      /\ name \notin DOMAIN pset.set => after.set[name] = [value |-> <<"field", where, name>>, lazy |-> TRUE]
  <2>1. {"set", "frozen"} \subseteq DOMAIN pset
    BY <1>5 DEF LazyOK
  <2> HIDE DEF pset, field
  <2>2. /\ {"set", "frozen"} \subseteq DOMAIN after /\ after.frozen = pset.frozen
        /\ DOMAIN after.set = DOMAIN pset.set \cup {name}
        /\ \A k \in DOMAIN pset.set : after.set[k] = pset.set[k]
        /\ name \notin DOMAIN pset.set => after.set[name] = [value |-> field, lazy |-> TRUE]
    BY <2>1, EmplacedIsThere
  <2> QED  BY <2>2 DEF field
<1> HIDE DEF address, after, l
<1>8. heap'[address] = after /\ \A a \in DOMAIN heap : a # address => heap'[a] = heap[a]
  BY <1>1, <1>4
<1>9. ASSUME NEW w \in Tables PROVE LazyOK(lua', heap'[AddressOf(config', w)], w)
  <2>1. CASE w = where
    <3>1. \A k \in DOMAIN after.set : after.set[k] = [value |-> <<"field", where, k>>, lazy |-> TRUE]
      BY <1>5, <1>7 DEF LazyOK
    <3>2. heap'[AddressOf(config', w)] = after
      BY <1>1, <1>4, <1>8, <2>1
    <3>3. LazyOK(l, after, where)
      BY <1>5, <1>6, <1>7, <3>1 DEF LazyOK
    <3> QED  BY <1>1, <2>1, <3>2, <3>3
  <2>2. CASE w # where
    <3>1. heap'[AddressOf(config', w)] = heap[AddressOf(config, w)]
      BY <1>1, <1>4, <1>8, <2>2
    <3>2. LazyOK(lua, heap[AddressOf(config, w)], w) /\ Global(l, w) = Global(lua, w)
      BY <1>2, <1>6, <2>2 DEF ReaderOK
    <3> QED  BY <1>1, <3>1, <3>2 DEF LazyOK
  <2> QED  BY <2>1, <2>2
<1>10. DeclaredOK(lua', config', heap')
  <2>1. Len(heap') = Len(heap)
    <3>1. heap' = [a \in 1..Len(heap) |-> heap'[a]]
      BY <1>1, <1>3
    <3> QED  BY <1>3, <3>1, FunctionIsList
  <2>2. ASSUME NEW i \in DOMAIN config.modules
        PROVE  /\ config.modules[i].parameters = i + 2 /\ i + 2 \in 3..Len(heap')
               /\ heap'[i + 2] = parse(Declaration(l, config.modules[i])[2], to_any)
    <3>1. /\ config.modules[i].parameters = i + 2 /\ i + 2 \in 3..Len(heap)
          /\ heap[i + 2] = parse(Declaration(lua, config.modules[i])[2], to_any)
      BY <1>2 DEF ReaderOK, DeclaredOK
    <3>2. Declaration(l, config.modules[i]) = Declaration(lua, config.modules[i])
      BY <1>6, ModulesAreElsewhere DEF Declaration
    <3>3. i + 2 \in DOMAIN heap /\ i + 2 # address
      BY <1>3, <1>4, <3>1 DEF address
    <3> QED  BY <1>8, <2>1, <3>1, <3>2, <3>3
  <2> QED  BY <1>1, <2>2 DEF DeclaredOK
<1>11. AskedOK(lua', config', heap', asked')
  <2> DEFINE new == <<where, name, v>>
  <2>1. new[1] = where /\ new[2] = name /\ new[3] = v
    OBVIOUS
  <2>3. asked' = Append(asked, new)
    BY <1>1
  <2> HIDE DEF new
  <2>2. \A w, x : LastAsked(asked', w, x) = IF w = where /\ x = name THEN {v} ELSE LastAsked(asked, w, x)
    <3>1. \A w, x : LastAsked(Append(asked, new), w, x) =
                       IF w = new[1] /\ x = new[2] THEN {new[3]} ELSE LastAsked(asked, w, x)
      BY <1>2, LastAskedGrows
    <3> QED  BY <2>1, <2>3, <3>1
  <2>4. /\ DOMAIN asked' = 1..(Len(asked) + 1) /\ DOMAIN asked = 1..Len(asked) /\ Len(asked) \in Nat
        /\ \A i \in 1..Len(asked) : asked'[i] = asked[i]
        /\ asked'[Len(asked) + 1] = new
    BY <1>2, <2>3, AppendedList, DomainOfList
  <2>5. ASSUME NEW w \in Tables, NEW x, (w = where /\ x = name) \/ x \in DOMAIN heap[AddressOf(config, w)].set
        PROVE  x \in DOMAIN heap'[AddressOf(config', w)].set
    <3>1. CASE w = where
      <4>1. heap'[AddressOf(config', w)] = after /\ heap[AddressOf(config, w)] = pset
        BY <1>1, <1>4, <1>8, <3>1 DEF address
      <4> QED  BY <1>7, <2>5, <4>1
    <3>2. CASE w # where
      <4>1. heap'[AddressOf(config', w)] = heap[AddressOf(config, w)]
        BY <1>1, <1>4, <1>8, <3>2
      <4> QED  BY <2>5, <3>2, <4>1
    <3> QED  BY <3>1, <3>2
  <2>6. ASSUME NEW i \in DOMAIN asked'
        PROVE  /\ asked'[i][1] \in Tables
               /\ asked'[i][2] \in DOMAIN heap'[AddressOf(config', asked'[i][1])].set
               /\ \A u \in LastAsked(asked', asked'[i][1], asked'[i][2]) :
                     Field(Global(lua', asked'[i][1]), asked'[i][2]) = push_any(u)
    <3> DEFINE w == asked'[i][1]
               x == asked'[i][2]
    <3>1. CASE w = where /\ x = name
      BY <1>1, <1>6, <2>2, <2>5, <3>1
    <3>2. CASE ~(w = where /\ x = name)
      <4>1. i \in DOMAIN asked /\ asked'[i] = asked[i]
        BY <2>1, <2>4, <3>2
      <4>2. /\ w \in Tables /\ x \in DOMAIN heap[AddressOf(config, w)].set
            /\ \A u \in LastAsked(asked, w, x) : Field(Global(lua, w), x) = push_any(u)
        BY <1>2, <4>1 DEF ReaderOK, AskedOK
      <4>3. Field(Global(lua', w), x) = Field(Global(lua, w), x)
        BY <1>1, <1>6, <3>2
      <4> QED  BY <2>2, <2>5, <3>2, <4>2, <4>3
    <3> QED  BY <3>1, <3>2
  <2> QED  BY <2>6 DEF AskedOK
<1> QED  BY <1>9, <1>10, <1>11 DEF ReaderOK

\* What parameter() gives for a name, before it is made a C++ value.
OfParameter(l, x) ==
    IF Global(l, "parameters")[1] \notin {"table", "string"} THEN <<"string", <<"error">>>>
    ELSE Field(Global(l, "parameters"), x)

\* What a frozen set has for the lazy elements it is made of, whichever calls of
\* add_dimension() came before.
FrozenFrom(l, pset, frozen_) ==
    /\ DOMAIN pset.set \subseteq DOMAIN frozen_.set
    /\ \A where, k : k \in DOMAIN pset.set /\ pset.set[k] = [value |-> <<"field", where, k>>, lazy |-> TRUE]
                     => frozen_.set[k].value = to_any(Field(Global(l, where), k))
    /\ \A k \in DOMAIN pset.set :
          LET e == pset.set[k]
          IN  e.lazy /\ e.value[1] = "function" /\ e.value[2][1] = "parameter"
              => frozen_.set[k].value = to_any(OfParameter(l, e.value[2][2]))
LEMMA FreezingIsFrozenFrom ==
    ASSUME NEW l, NEW R, LuaOK(l, R), NEW calls, NEW pset, ~pset.frozen
    PROVE  LET f == freeze(Calling(l, calls), pset).pset
           IN  FrozenFrom(l, pset, f) /\ DOMAIN f.set = DOMAIN pset.set /\ "set" \in DOMAIN f
<1> DEFINE now == Calling(l, calls)
           f == freeze(now, pset).pset
<1>1. LuaOK(now, R) /\ \A name : Global(now, name) = Global(l, name)
  BY CallingIsOK, CallingKeepsTables
<1> HIDE DEF now
<1>2. /\ "set" \in DOMAIN f /\ DOMAIN f.set = DOMAIN pset.set
      /\ \A k \in DOMAIN pset.set :
            pset.set[k].lazy => \E n : f.set[k].value = to_any(Evaluated(Calling(now, n), pset.set[k].value))
  BY FrozenIsEvaluated
<1> HIDE DEF f
<1>3. ASSUME NEW where, NEW k \in DOMAIN pset.set, pset.set[k] = [value |-> <<"field", where, k>>, lazy |-> TRUE]
      PROVE  f.set[k].value = to_any(Field(Global(l, where), k))
  <2>1. pset.set[k].lazy /\ pset.set[k].value = <<"field", where, k>>
    BY <1>3
  <2>2. PICK n : f.set[k].value = to_any(Evaluated(Calling(now, n), pset.set[k].value))
    BY <1>2, <2>1
  <2>3. Evaluated(Calling(now, n), <<"field", where, k>>) = Field(Global(now, where), k)
    BY <1>1, EvaluatedAfterCalls
  <2>4. Evaluated(Calling(now, n), pset.set[k].value) = Field(Global(l, where), k)
    BY <1>1, <2>1, <2>3
  <2> QED  BY <2>2, <2>4
<1>4. ASSUME NEW k \in DOMAIN pset.set, pset.set[k].lazy,
             pset.set[k].value[1] = "function", pset.set[k].value[2][1] = "parameter"
      PROVE  f.set[k].value = to_any(OfParameter(l, pset.set[k].value[2][2]))
  <2> DEFINE v == pset.set[k].value
  <2>1. PICK n : f.set[k].value = to_any(Evaluated(Calling(now, n), v))
    BY <1>2, <1>4
  <2>2. v[1] = "function" /\ v[2][1] = "parameter"
    BY <1>4
  <2> HIDE DEF v
  <2>3. Evaluated(Calling(now, n), v) = OfParameter(now, v[2][2])
    BY <1>1, <2>2, EvaluatedAfterCalls DEF OfParameter
  <2>4. OfParameter(now, v[2][2]) = OfParameter(l, v[2][2])
    BY <1>1 DEF OfParameter
  <2>5. f.set[k].value = to_any(OfParameter(l, v[2][2]))
    BY <2>1, <2>3, <2>4
  <2> QED  BY <2>5 DEF v
<1>5. FrozenFrom(l, pset, f)
  BY <1>2, <1>3, <1>4 DEF FrozenFrom
<1> QED  BY <1>2, <1>5 DEF f, now

\* Every set of a copy whose addresses are those after n is frozen once.
LEMMA FrozenCopyThere ==
    ASSUME NEW copy, NEW n \in Nat, IsList(copy.config.modules), IsList(copy.heap),
           Len(copy.heap) = n + 2 + Len(copy.config.modules),
           copy.config.global = n + 1, copy.config.cuba = n + 2,
           \A i \in DOMAIN copy.config.modules : copy.config.modules[i].parameters = n + 2 + i,
           NEW a \in (n + 1)..Len(copy.heap)
    PROVE  \E calls : FrozenCopy(copy).heap[a] = freeze(Calling(lua, calls), copy.heap[a]).pset
<1> DEFINE two == <<copy.config.global, copy.config.cuba>>
           others == [i \in DOMAIN copy.config.modules |-> copy.config.modules[i].parameters]
           addresses == two \o others
           k == Len(copy.config.modules)
<1>1. k \in Nat /\ DOMAIN copy.config.modules = 1..k
  BY DomainOfList
<1>2. IsList(two) /\ Len(two) = 2 /\ two[1] = n + 1 /\ two[2] = n + 2
  <2>1. two = [i \in 1..2 |-> two[i]] /\ two[1] = n + 1 /\ two[2] = n + 2
    OBVIOUS
  <2> HIDE DEF two
  <2> QED  BY <2>1, FunctionIsList
<1>3. IsList(others) /\ Len(others) = k /\ \A i \in 1..k : others[i] = n + 2 + i
  <2>1. others = [i \in 1..k |-> others[i]] /\ \A i \in 1..k : others[i] = n + 2 + i
    BY <1>1
  <2> HIDE DEF others, k
  <2> QED  BY <1>1, <2>1, FunctionIsList
<1>4. FrozenCopy(copy) = FrozenAt(lua, copy.heap, addresses)
  BY DEF FrozenCopy
<1> HIDE DEF two, others
<1>5. /\ IsList(addresses) /\ Len(addresses) = Len(two) + Len(others)
      /\ \A i \in 1..Len(two) : addresses[i] = two[i]
      /\ \A i \in 1..Len(others) : addresses[Len(two) + i] = others[i]
  <2>1. IsList(two) /\ IsList(others)
    BY <1>2, <1>3
  <2> QED  BY ONLY <2>1, JoinedLists
<1> HIDE DEF addresses
<1>6. Len(addresses) = k + 2 /\ \A j \in 1..(k + 2) : addresses[j] = n + j
  <2>1. ASSUME NEW j \in 1..(k + 2) PROVE addresses[j] = n + j
    <3>1. CASE j \in 1..2
      <4>1. 1 \in 1..Len(two) /\ 2 \in 1..Len(two) /\ (j = 1 \/ j = 2)
        BY <1>2, <3>1
      <4> QED  BY <1>2, <1>5, <4>1
    <3>2. CASE j \notin 1..2
      <4>1. j - 2 \in 1..Len(others) /\ Len(two) + (j - 2) = j
        BY <1>1, <1>2, <1>3, <3>2
      <4>2. addresses[j] = others[j - 2] /\ others[j - 2] = n + 2 + (j - 2)
        BY <1>3, <1>5, <4>1
      <4> QED  BY <4>2
    <3> QED  BY <3>1, <3>2
  <2> QED  BY <1>1, <1>2, <1>3, <1>5, <2>1
<1>7. a - n \in 1..Len(addresses) /\ addresses[a - n] = a /\ a \in DOMAIN copy.heap /\ Len(addresses) \in Nat
  <2>1. Len(copy.heap) = n + 2 + k /\ DOMAIN copy.heap = 1..(n + 2 + k)
    BY DomainOfList
  <2>2. n \in Nat /\ k \in Nat /\ a \in (n + 1)..(n + 2 + k)
    BY <1>1, <2>1
  <2> HIDE DEF k
  <2>3. a - n \in 1..(k + 2) /\ a \in 1..(n + 2 + k) /\ n + (a - n) = a
    BY ONLY <2>2
  <2>4. addresses[a - n] = n + (a - n)
    BY <1>6, <2>3
  <2> QED  BY <1>1, <1>6, <2>1, <2>3, <2>4
<1>8. \A i, j \in 1..Len(addresses) : addresses[i] = addresses[j] => i = j
  <2> SUFFICES ASSUME NEW i \in 1..(k + 2), NEW j \in 1..(k + 2), addresses[i] = addresses[j] PROVE i = j
    BY <1>6
  <2>1. n + i = n + j
    BY <1>6
  <2> QED  BY <1>1, <2>1
<1> DEFINE j == a - n
<1>9. j \in 1..Len(addresses) /\ addresses[j] = a
  BY <1>7
<1> HIDE DEF j
<1>10. \E calls : FrozenAt(lua, copy.heap, addresses).heap[addresses[j]]
                     = freeze(Calling(lua, calls), copy.heap[addresses[j]]).pset
  <2>1. /\ Len(addresses) \in Nat /\ addresses[j] \in DOMAIN copy.heap
        /\ \A i, m \in 1..Len(addresses) : addresses[i] = addresses[m] => i = m
    BY <1>7, <1>8, <1>9
  <2> DEFINE h == copy.heap
  <2>2. /\ Len(addresses) \in Nat /\ addresses[j] \in DOMAIN h /\ j \in 1..Len(addresses)
        /\ \A i, m \in 1..Len(addresses) : addresses[i] = addresses[m] => i = m
    BY <1>9, <2>1
  <2> HIDE DEF h
  <2>3. \E calls : FrozenAt(lua, h, addresses).heap[addresses[j]] = freeze(Calling(lua, calls), h[addresses[j]]).pset
    BY ONLY <2>2, FrozenThere
  <2> QED  BY <2>3 DEF h
<1> QED  BY <1>4, <1>9, <1>10

\* setGlobalParameters() leaves the elements a set has, and what is no set of a module.
EmplacedValue(pset, name, v) == Emplaced(pset, name, v, FALSE)
LEMMA ValueIsAdded ==
    ASSUME NEW pset, "set" \in DOMAIN pset, NEW name, NEW v
    PROVE  LET after == EmplacedValue(pset, name, v)
           IN  DOMAIN pset.set \subseteq DOMAIN after.set /\ \A k \in DOMAIN pset.set : after.set[k] = pset.set[k]
<1> DEFINE new == [value |-> v, lazy |-> FALSE]
<1>1. CASE Exists(pset, name)
  BY <1>1 DEF EmplacedValue, Emplaced, Exists
<1>2. CASE ~Exists(pset, name)
  <2>1. EmplacedValue(pset, name, v) = [pset EXCEPT !.set = With(@, name, new)]
    BY <1>2 DEF EmplacedValue, Emplaced
  <2> HIDE DEF new
  <2>2. EmplacedValue(pset, name, v).set = With(pset.set, name, new)
    BY <2>1
  <2> QED  BY <1>2, <2>2 DEF With, Exists
<1> QED  BY <1>1, <1>2

LEMMA GlobalsAreAdded ==
    ASSUME NEW h, NEW c, NEW a \in DOMAIN h, "set" \in DOMAIN h[a], NEW l, NEW pset, FrozenFrom(l, pset, h[a])
    PROVE  /\ FrozenFrom(l, pset, WithGlobals(h, c)[a])
           /\ (\A i \in DOMAIN c.modules : c.modules[i].parameters # a) => WithGlobals(h, c)[a] = h[a]
<1> DEFINE w == WithGlobals(h, c)[a]
           v == <<"pset", h[c.global]>>
           name == "@global_parameters"
<1>1. w = IF \E i \in DOMAIN c.modules : c.modules[i].parameters = a THEN EmplacedValue(h[a], name, v) ELSE h[a]
  BY DEF WithGlobals, EmplacedValue
<1> HIDE DEF w, v, name
<1>2. DOMAIN h[a].set \subseteq DOMAIN w.set /\ \A k \in DOMAIN h[a].set : w.set[k] = h[a].set[k]
  <2>1. CASE w = h[a]
    BY <2>1
  <2>2. CASE w = EmplacedValue(h[a], name, v)
    BY <2>2, ValueIsAdded
  <2> QED  BY <1>1, <2>1, <2>2
<1>3. FrozenFrom(l, pset, w)
  <2>1. DOMAIN pset.set \subseteq DOMAIN h[a].set
    BY DEF FrozenFrom
  <2>2. \A k \in DOMAIN pset.set : k \in DOMAIN w.set /\ w.set[k].value = h[a].set[k].value
    BY <1>2, <2>1
  <2> QED  BY <2>2 DEF FrozenFrom
<1> QED  BY <1>1, <1>3 DEF w

\* What freeze() returns: each set of the reader, frozen.
LEMMA FreezeEvaluates ==
    ASSUME SetupInv, ReaderInv, pc = "read"
    PROVE  LET copy == Copy(config, heap)
               full == WithInternals(WithGlobals(FrozenCopy(copy).heap, copy.config), copy.config)
           IN  /\ \A where \in Tables :
                     LET set == full.heap[AddressOf(full.config, where)]
                         pset == heap[AddressOf(config, where)]
                     IN  FrozenFrom(lua, pset, set) /\ DOMAIN set.set = DOMAIN pset.set
               /\ \A i \in DOMAIN config.modules :
                     FrozenFrom(lua, heap[config.modules[i].parameters], full.heap[full.config.modules[i].parameters])
<1> DEFINE copy == Copy(config, heap)
           c == copy.config
           done == FrozenCopy(copy)
           h == WithGlobals(done.heap, c)
           full == WithInternals(h, c)
           n == Len(heap)
           k == Len(config.modules)
           At_(where) == AddressOf(c, where)
<1>1. /\ ConfigurationOK(config, registry) /\ LuaOK(lua, registry) /\ IsList(heap) /\ n \in Nat
      /\ Internal \subseteq registry /\ config.global = 1 /\ config.cuba = 2
      /\ ReaderOK(lua, config, heap, asked)
  <2>1. initialized
    BY DEF SetupInv, InternalFirst
  <2> QED  BY <2>1, DomainOfList DEF SetupInv, HeapOK, InternalFirst, ReaderInv
<1>2. /\ ConfigurationOK(c, registry)
      /\ DOMAIN c.modules = DOMAIN config.modules
      /\ k \in Nat /\ DOMAIN config.modules = 1..k
      /\ IsList(copy.heap) /\ Len(copy.heap) = n + 2 + k
      /\ copy.heap[n + 1] = heap[config.global] /\ copy.heap[n + 2] = heap[config.cuba]
      /\ \A i \in DOMAIN config.modules : copy.heap[n + 2 + i] = heap[config.modules[i].parameters]
      /\ c.global = n + 1 /\ c.cuba = n + 2
      /\ \A i \in DOMAIN config.modules : c.modules[i].parameters = n + 2 + i
  <2>1. CopyOK(config, heap, registry, c, copy.heap)
    BY <1>1, CopyIsOK
  <2> HIDE DEF copy, c
  <2> QED  BY <2>1 DEF CopyOK
<1> HIDE DEF copy, n, k
<1>3. IsList(c.modules) /\ Len(c.modules) = k /\ DOMAIN copy.heap = 1..(n + 2 + k)
  <2>1. IsList(c.modules)
    BY <1>2 DEF ConfigurationOK
  <2>2. Len(c.modules) \in Nat /\ 1..Len(c.modules) = 1..k
    BY <1>2, <2>1, DomainOfList
  <2>3. Len(c.modules) = k
    BY <1>2, <2>2
  <2> QED  BY <1>2, <2>1, <2>3, DomainOfList
<1>4. /\ DOMAIN done.heap = DOMAIN copy.heap
      /\ \A a \in (n + 1)..(n + 2 + k) :
            \E calls : done.heap[a] = freeze(Calling(lua, calls), copy.heap[a]).pset
  <2>1. /\ n < c.global /\ n < c.cuba /\ c.global \in Nat /\ c.cuba \in Nat
        /\ \A i \in DOMAIN c.modules : c.modules[i].parameters \in Nat /\ n < c.modules[i].parameters
    <3>1. n \in Nat /\ k \in Nat
      BY <1>1, <1>2
    <3>2. n < n + 1 /\ n < n + 2 /\ \A i \in 1..k : n + 2 + i \in Nat /\ n < n + 2 + i
      BY ONLY <3>1
    <3> QED  BY <1>2, <3>1, <3>2
  <2>2. DOMAIN done.heap = DOMAIN copy.heap
    BY <1>1, <1>3, <2>1, FrozenCopyElsewhere
  <2>3. Len(copy.heap) = n + 2 + Len(c.modules)
        /\ \A i \in DOMAIN c.modules : c.modules[i].parameters = n + 2 + i
    BY <1>2, <1>3
  <2>4. \A a \in (n + 1)..Len(copy.heap) :
           \E calls : FrozenCopy(copy).heap[a] = freeze(Calling(lua, calls), copy.heap[a]).pset
    <3>1. n \in Nat /\ c.global = n + 1 /\ c.cuba = n + 2 /\ IsList(c.modules) /\ IsList(copy.heap)
      BY <1>1, <1>2, <1>3
    <3> QED  BY ONLY <2>3, <3>1, FrozenCopyThere
  <2> QED  BY <1>2, <2>2, <2>4
<1> HIDE DEF done
<1>5. ASSUME NEW a \in (n + 1)..(n + 2 + k), ~copy.heap[a].frozen
      PROVE  /\ a \in DOMAIN done.heap /\ "set" \in DOMAIN done.heap[a]
             /\ FrozenFrom(lua, copy.heap[a], done.heap[a])
             /\ DOMAIN done.heap[a].set = DOMAIN copy.heap[a].set
  <2>1. PICK calls : done.heap[a] = freeze(Calling(lua, calls), copy.heap[a]).pset
    BY <1>4
  <2>2. a \in DOMAIN done.heap
    BY <1>1, <1>3, <1>4
  <2> QED  BY <1>1, <1>5, <2>1, <2>2, FreezingIsFrozenFrom
<1>6. IsList(h) /\ Len(h) = n + 2 + k
  <2>1. h = [a \in 1..(n + 2 + k) |-> h[a]] /\ n + 2 + k \in Nat
    BY <1>1, <1>2, <1>3, <1>4 DEF WithGlobals
  <2> HIDE DEF h
  <2> QED  BY <2>1, FunctionIsList
<1>7. ASSUME NEW a \in (n + 1)..(n + 2 + k), ~copy.heap[a].frozen
      PROVE  /\ FrozenFrom(lua, copy.heap[a], h[a])
             /\ (\A i \in DOMAIN c.modules : c.modules[i].parameters # a) => h[a] = done.heap[a]
  BY <1>5, <1>7, GlobalsAreAdded
<1> HIDE DEF h, c
<1>8. /\ \A a \in 1..Len(h) : full.heap[a] = h[a]
      /\ full.config.global = c.global /\ full.config.cuba = c.cuba
      /\ \A i \in DOMAIN c.modules : full.config.modules[i] = c.modules[i]
  <2>1. ConfigurationOK(c, registry) /\ IsList(h) /\ Internal \subseteq registry
    BY <1>1, <1>2, <1>6
  <2> QED  BY ONLY <2>1, WithInternalsIsOK
<1> HIDE DEF full
<1>9. \A a \in (n + 1)..(n + 2 + k) : full.heap[a] = h[a]
  BY <1>1, <1>6, <1>8
<1>10. ASSUME NEW where \in Tables
       PROVE  LET set == full.heap[AddressOf(full.config, where)]
                  pset == heap[AddressOf(config, where)]
              IN  FrozenFrom(lua, pset, set) /\ DOMAIN set.set = DOMAIN pset.set
  <2> DEFINE a == AddressOf(c, where)
             pset == heap[AddressOf(config, where)]
  <2>1. AddressOf(full.config, where) = a
    BY <1>8 DEF AddressOf
  <2>2. a \in {n + 1, n + 2} /\ copy.heap[a] = pset
    BY <1>2 DEF AddressOf
  <2>3. ~pset.frozen
    BY <1>1 DEF ReaderOK, LazyOK
  <2> HIDE DEF a, pset
  <2>4. a \in (n + 1)..(n + 2 + k) /\ \A i \in DOMAIN c.modules : c.modules[i].parameters # a
    <3>1. ASSUME NEW i \in DOMAIN c.modules PROVE c.modules[i].parameters # a
      <4>1. i \in 1..k /\ c.modules[i].parameters = n + 2 + i
        BY <1>2
      <4> QED  BY <1>1, <2>2, <4>1
    <3>2. n + 1 \in (n + 1)..(n + 2 + k) /\ n + 2 \in (n + 1)..(n + 2 + k)
      <4>1. n \in Nat /\ k \in Nat
        BY <1>1, <1>2
      <4> QED  BY ONLY <4>1
    <3> QED  BY <2>2, <3>1, <3>2
  <2>5. /\ FrozenFrom(lua, pset, h[a]) /\ h[a] = done.heap[a] /\ full.heap[a] = h[a]
        /\ DOMAIN done.heap[a].set = DOMAIN pset.set
    BY <1>5, <1>7, <1>9, <2>2, <2>3, <2>4
  <2>6. FrozenFrom(lua, pset, full.heap[a]) /\ DOMAIN full.heap[a].set = DOMAIN pset.set
    BY <2>5
  <2> QED  BY <2>1, <2>6 DEF pset
<1>11. ASSUME NEW i \in DOMAIN config.modules
       PROVE  FrozenFrom(lua, heap[config.modules[i].parameters], full.heap[full.config.modules[i].parameters])
  <2> DEFINE a == n + 2 + i
             pset == heap[config.modules[i].parameters]
  <2>1. i \in 1..k /\ full.config.modules[i].parameters = a /\ copy.heap[a] = pset
    <3>1. i \in 1..k /\ c.modules[i].parameters = a /\ copy.heap[a] = pset
      BY <1>2
    <3>2. i \in DOMAIN c.modules
      BY <1>2
    <3> QED  BY <1>8, <3>1, <3>2
  <2>2. ~pset.frozen
    <3>1. pset = parse(Declaration(lua, config.modules[i])[2], to_any)
      BY <1>1 DEF ReaderOK, DeclaredOK
    <3> QED  BY <3>1 DEF parse, PSet
  <2>3. a \in (n + 1)..(n + 2 + k)
    BY <1>1, <1>2, <2>1
  <2> HIDE DEF a, pset
  <2>4. FrozenFrom(lua, pset, h[a]) /\ full.heap[a] = h[a]
    BY <1>7, <1>9, <2>1, <2>2, <2>3
  <2>5. FrozenFrom(lua, pset, full.heap[a])
    BY <2>4
  <2> QED  BY <2>1, <2>5 DEF pset
<1> QED  BY <1>10, <1>11 DEF full, h, c, done, copy

-----------------------------------------------------------------------------
(* The two properties of one frozen configuration                          *)

OneMoment(l, modules, c, h) ==
    \A i \in DOMAIN modules :
        LET table  == Declaration(l, modules[i])
            set    == h[c.modules[i].parameters]
            global == h[c.global]
            x(k)   == table[2][k][2][2]
        IN  \A k \in FollowsGlobal(table) : Exists(global, x(k)) => Get(set, k) = Get(global, x(k))

AskedIsThere(c, h, list) ==
    \A i \in DOMAIN list :
        LET where == list[i][1]  name == list[i][2]
            set == h[AddressOf(c, where)]
        IN  \A v \in LastAsked(list, where, name) : Get(set, name) = to_any(push_any(v))

FrozenReads ==
    \A f \in DOMAIN frozen :
        /\ OneMoment(lua, config.modules, frozen[f].config, heap)
        /\ AskedIsThere(frozen[f].config, heap, frozen[f].asked)

\* An element that parse() makes of a function is the function, to be called.
LEMMA FunctionIsLazy ==
    ASSUME NEW table, NEW k \in FollowsGlobal(table)
    PROVE  LET e == parse(table[2], to_any).set[k]
           IN  /\ k \in DOMAIN parse(table[2], to_any).set
               /\ e.lazy /\ e.value[1] = "function" /\ e.value[2][1] = "parameter" /\ e.value[2][2] = table[2][k][2][2]
<1>1. k \in DOMAIN table[2] /\ table[2][k][1] = "function" /\ table[2][k][2][1] = "parameter"
  BY DEF FollowsGlobal
<1> DEFINE t == table[2]
           v == t[k]
           set == [m \in DOMAIN t |-> Element(t[m], to_any)]
<1>2. parse(t, to_any).set = set
  BY DEF parse, PSet
<1>3. k \in DOMAIN set /\ set[k] = [value |-> v, lazy |-> TRUE]
  BY <1>1 DEF Element
<1> HIDE DEF set
<1>4. set[k].lazy /\ set[k].value = v
  BY <1>3
<1> QED  BY <1>1, <1>2, <1>3, <1>4

LEMMA FreezeReads ==
    ASSUME SetupInv, ReaderInv, pc = "read"
    PROVE  LET copy == Copy(config, heap)
               full == WithInternals(WithGlobals(FrozenCopy(copy).heap, copy.config), copy.config)
           IN  OneMoment(lua, config.modules, full.config, full.heap) /\ AskedIsThere(full.config, full.heap, asked)
<1> DEFINE copy == Copy(config, heap)
           full == WithInternals(WithGlobals(FrozenCopy(copy).heap, copy.config), copy.config)
<1>1. /\ \A where \in Tables :
            LET set == full.heap[AddressOf(full.config, where)]
                pset == heap[AddressOf(config, where)]
            IN  FrozenFrom(lua, pset, set) /\ DOMAIN set.set = DOMAIN pset.set
      /\ \A i \in DOMAIN config.modules :
            FrozenFrom(lua, heap[config.modules[i].parameters], full.heap[full.config.modules[i].parameters])
  BY FreezeEvaluates
<1>2. ReaderOK(lua, config, heap, asked)
  BY DEF ReaderInv
<1> HIDE DEF full
<1>3. ASSUME NEW where \in Tables, NEW k \in DOMAIN heap[AddressOf(config, where)].set
      PROVE  /\ full.heap[AddressOf(full.config, where)].set[k].value = to_any(Field(Global(lua, where), k))
             /\ Global(lua, where)[1] = "table"
  <2>1. /\ heap[AddressOf(config, where)].set[k] = [value |-> <<"field", where, k>>, lazy |-> TRUE]
        /\ Global(lua, where)[1] = "table"
    BY <1>2, <1>3 DEF ReaderOK, LazyOK
  <2>2. FrozenFrom(lua, heap[AddressOf(config, where)], full.heap[AddressOf(full.config, where)])
    BY <1>1
  <2> QED  BY <1>3, <2>1, <2>2 DEF FrozenFrom
<1>4. ASSUME NEW i \in DOMAIN config.modules, NEW k \in FollowsGlobal(Declaration(lua, config.modules[i]))
      PROVE  LET x == Declaration(lua, config.modules[i])[2][k][2][2]
             IN  Exists(full.heap[full.config.global], x) =>
                    Get(full.heap[full.config.modules[i].parameters], k) = Get(full.heap[full.config.global], x)
  <2> DEFINE table == Declaration(lua, config.modules[i])
             x == table[2][k][2][2]
             pset == heap[config.modules[i].parameters]
             set == full.heap[full.config.modules[i].parameters]
             global == full.heap[full.config.global]
  <2>1. pset = parse(table[2], to_any) /\ FrozenFrom(lua, pset, set)
    BY <1>1, <1>2 DEF ReaderOK, DeclaredOK
  <2>2. /\ k \in DOMAIN pset.set /\ pset.set[k].lazy /\ pset.set[k].value[1] = "function"
        /\ pset.set[k].value[2][1] = "parameter" /\ pset.set[k].value[2][2] = x
    <3> HIDE DEF table
    <3>1. LET e == parse(table[2], to_any).set[k]
          IN  /\ k \in DOMAIN parse(table[2], to_any).set
              /\ e.lazy /\ e.value[1] = "function" /\ e.value[2][1] = "parameter" /\ e.value[2][2] = table[2][k][2][2]
      BY <1>4, FunctionIsLazy DEF table
    <3> QED  BY <2>1, <3>1
  <2> HIDE DEF table, x, pset, set
  <2>3. set.set[k].value = to_any(OfParameter(lua, x))
    BY <2>1, <2>2 DEF FrozenFrom
  <2>4. "parameters" \in Tables /\ AddressOf(full.config, "parameters") = full.config.global
    BY DEF Tables, AddressOf
  <2>5. ASSUME x \in DOMAIN global.set
        PROVE  set.set[k].value = global.set[x].value
    <3>1. x \in DOMAIN heap[AddressOf(config, "parameters")].set
      BY <1>1, <2>4, <2>5
    <3>2. global.set[x].value = to_any(Field(Global(lua, "parameters"), x)) /\ Global(lua, "parameters")[1] = "table"
      BY <1>3, <2>4, <3>1
    <3>3. OfParameter(lua, x) = Field(Global(lua, "parameters"), x)
      BY <3>2 DEF OfParameter
    <3> QED  BY <2>3, <3>2, <3>3
  <2> QED  BY <2>5 DEF Exists, Get, x, table, set
<1>5. ASSUME NEW i \in DOMAIN asked, NEW v \in LastAsked(asked, asked[i][1], asked[i][2])
      PROVE  Get(full.heap[AddressOf(full.config, asked[i][1])], asked[i][2]) = to_any(push_any(v))
  <2>1. /\ asked[i][1] \in Tables
        /\ asked[i][2] \in DOMAIN heap[AddressOf(config, asked[i][1])].set
        /\ Field(Global(lua, asked[i][1]), asked[i][2]) = push_any(v)
    BY <1>2, <1>5 DEF ReaderOK, AskedOK
  <2> QED  BY <1>3, <2>1 DEF Get
<1>6. OneMoment(lua, config.modules, full.config, full.heap)
  BY <1>4 DEF OneMoment
<1>7. AskedIsThere(full.config, full.heap, asked)
  BY <1>5 DEF AskedIsThere
<1> QED  BY <1>6, <1>7 DEF full

\* What was frozen reads the same while its sets and what modules were declared
\* with stay.
LEMMA FrozenReadsKept ==
    ASSUME NEW c, NEW R, ConfigurationOK(c, R), NEW modules, DOMAIN modules \subseteq DOMAIN c.modules,
           NEW l, NEW l_, NEW h, NEW h_, NEW list,
           \A i \in DOMAIN modules : Declaration(l_, modules[i]) = Declaration(l, modules[i]),
           \A a \in Addresses(c) : h_[a] = h[a]
    PROVE  /\ OneMoment(l, modules, c, h) => OneMoment(l_, modules, c, h_)
           /\ AskedIsThere(c, h, list) => AskedIsThere(c, h_, list)
<1>1. /\ h_[c.global] = h[c.global] /\ h_[c.cuba] = h[c.cuba]
      /\ \A i \in DOMAIN modules : h_[c.modules[i].parameters] = h[c.modules[i].parameters]
  BY DEF Addresses
<1>2. OneMoment(l, modules, c, h) => OneMoment(l_, modules, c, h_)
  BY <1>1 DEF OneMoment
<1>3. \A where : h_[AddressOf(c, where)] = h[AddressOf(c, where)]
  BY <1>1 DEF AddressOf
<1>4. AskedIsThere(c, h, list) => AskedIsThere(c, h_, list)
  BY <1>3 DEF AskedIsThere
<1> QED  BY <1>2, <1>4

-----------------------------------------------------------------------------
(* The reader, step by step                                                *)

LEMMA ReaderInvInit == Init => ReaderInv /\ FrozenReads
<1> SUFFICES ASSUME Init PROVE ReaderInv /\ FrozenReads
  OBVIOUS
<1>1. IsList(<<>>) /\ DOMAIN <<>> = {}
  <2>1. <<>> \in Seq({}) /\ DOMAIN <<>> = {}
    OBVIOUS
  <2> QED  BY <2>1, SequenceIsList
<1>2. script.changes = {} /\ pc = "started" /\ asked = <<>> /\ frozen = <<>>
  BY DEF Init, NoScript
<1> QED  BY <1>1, <1>2 DEF ReaderInv, FrozenReads

LEMMA ReaderInvStart ==
    ASSUME SetupInv, ReaderInv, NEW name \in DOMAIN Scripts, Start(name)
    PROVE  ReaderInv'
<1>1. pc = "started" /\ pc' \in {"started", "script"} /\ asked' = asked /\ (script' = script \/ script' = Scripts[name])
  BY DEF Start
<1>2. \A change \in script'.changes : change[1] \in Tables
  BY <1>1, TablesAssumption DEF ReaderInv
<1> QED  BY <1>1, <1>2 DEF ReaderInv

LEMMA ReaderInvStatement ==
    ASSUME SetupInv, ReaderInv, Exec
    PROVE  ReaderInv'
<1>1. pc = "script" /\ pc' \in {"script", "refused", "terminated"} /\ UNCHANGED <<script, asked>>
  BY DEF Exec, LoadModules, Declare, Assign, DeclareInput, AddPermutations, SetFinalModule, NewPath, Reached, Outside, Goes
<1> QED  BY <1>1 DEF ReaderInv

\* A table of lua that is read lazily.
LEMMA LazyTableIsLazy ==
    ASSUME NEW l, NEW name
    PROVE  LazyOK(l, LazyTable(l, name), name)
<1> DEFINE table == Global(l, name)
           set == [k \in DOMAIN table[2] |-> [value |-> <<"field", name, k>>, lazy |-> TRUE]]
           pset == LazyTable(l, name)
<1>1. CASE table[1] # "table"
  <2>1. pset = [set |-> <<>>, frozen |-> FALSE] /\ DOMAIN <<>> = {}
    BY <1>1 DEF LazyTable, PSet
  <2>2. {"set", "frozen"} \subseteq DOMAIN pset /\ ~pset.frozen /\ DOMAIN pset.set = {}
    BY <2>1
  <2> HIDE DEF pset
  <2> QED  BY <2>2 DEF LazyOK, pset
<1>2. CASE table[1] = "table"
  <2>1. pset = [set |-> set, frozen |-> FALSE]
    BY <1>2 DEF LazyTable, PSet
  <2>2. \A k \in DOMAIN set : set[k] = [value |-> <<"field", name, k>>, lazy |-> TRUE]
    OBVIOUS
  <2> HIDE DEF set, pset
  <2>3. {"set", "frozen"} \subseteq DOMAIN pset /\ ~pset.frozen /\ pset.set = set
    BY <2>1
  <2> QED  BY <1>2, <2>2, <2>3 DEF LazyOK, pset
<1> QED  BY <1>1, <1>2

LEMMA ReaderInvReadConfiguration ==
    ASSUME SetupInv, ReaderInv, ReadConfiguration
    PROVE  ReaderInv'
<1> DEFINE two == <<LazyTable(lua, "parameters"), LazyTable(lua, "cuba")>>
           n == Len(config.modules)
           sets == [i \in 1..n |-> parse(Declaration(lua, config.modules[i])[2], to_any)]
           modules == [i \in DOMAIN config.modules |-> [config.modules[i] EXCEPT !.parameters = i + 2]]
           after == [config EXCEPT !.global = 1, !.cuba = 2, !.modules = modules]
<1>1. pc = "script" /\ UNCHANGED <<script, lua, asked>> /\ asked = <<>> /\ DOMAIN asked = {}
  BY DEF ReadConfiguration, ReaderInv
<1>2. CASE pc' \in {"refused", "terminated"}
  BY <1>1, <1>2 DEF ReaderInv
<1>3. CASE pc' = "read" /\ heap' = two \o sets /\ config' = after
  <2>1. IsList(two) /\ Len(two) = 2 /\ two[1] = LazyTable(lua, "parameters") /\ two[2] = LazyTable(lua, "cuba")
    <3>1. /\ two = [i \in 1..2 |-> two[i]]
          /\ two[1] = LazyTable(lua, "parameters") /\ two[2] = LazyTable(lua, "cuba")
      OBVIOUS
    <3> HIDE DEF two
    <3> QED  BY <3>1, FunctionIsList
  <2>2. n \in Nat /\ DOMAIN config.modules = 1..n
    BY DomainOfList DEF SetupInv, ConfigurationOK
  <2>3. IsList(sets) /\ Len(sets) = n /\ \A i \in 1..n : sets[i] = parse(Declaration(lua, config.modules[i])[2], to_any)
    <3>1. /\ sets = [i \in 1..n |-> sets[i]]
          /\ \A i \in 1..n : sets[i] = parse(Declaration(lua, config.modules[i])[2], to_any)
      BY <2>2
    <3> HIDE DEF sets, n
    <3> QED  BY <2>2, <3>1, FunctionIsList
  <2>4. /\ DOMAIN modules = 1..n
        /\ \A i \in 1..n : /\ modules[i].parameters = i + 2
                           /\ modules[i].type = config.modules[i].type /\ modules[i].name = config.modules[i].name
    BY <2>2 DEF SetupInv, ConfigurationOK
  <2> HIDE DEF two, sets, modules, n
  <2>5. config'.global = 1 /\ config'.cuba = 2 /\ config'.modules = modules
    BY <1>3 DEF SetupInv, ConfigurationOK
  <2>6. /\ IsList(heap') /\ Len(heap') = 2 + n
        /\ heap'[1] = LazyTable(lua, "parameters") /\ heap'[2] = LazyTable(lua, "cuba")
        /\ \A i \in 1..n : heap'[i + 2] = sets[i]
    <3>1. IsList(two) /\ IsList(sets)
      BY <2>1, <2>3
    <3>2. /\ IsList(two \o sets) /\ Len(two \o sets) = Len(two) + Len(sets)
          /\ \A i \in 1..Len(two) : (two \o sets)[i] = two[i]
          /\ \A i \in 1..Len(sets) : (two \o sets)[Len(two) + i] = sets[i]
      BY ONLY <3>1, JoinedLists
    <3>3. 1 \in 1..Len(two) /\ 2 \in 1..Len(two) /\ \A i \in 1..n : i + 2 = Len(two) + i
      BY <2>1, <2>2
    <3> QED  BY <1>3, <2>1, <2>3, <3>2, <3>3
  <2>7. \A where \in Tables : LazyOK(lua', heap'[AddressOf(config', where)], where)
    <3>1. heap'[AddressOf(config', "parameters")] = LazyTable(lua, "parameters")
          /\ heap'[AddressOf(config', "cuba")] = LazyTable(lua, "cuba")
      BY <2>5, <2>6 DEF AddressOf
    <3>2. lua' = lua
      BY <1>1
    <3> QED  BY <3>1, <3>2, LazyTableIsLazy DEF Tables
  <2>8. DeclaredOK(lua', config', heap')
    <3>1. ASSUME NEW i \in 1..n
          PROVE  /\ modules[i].parameters = i + 2 /\ i + 2 \in 3..Len(heap')
                 /\ heap'[i + 2] = parse(Declaration(lua, modules[i])[2], to_any)
      <4>1. Declaration(lua, modules[i]) = Declaration(lua, config.modules[i])
        BY <2>4 DEF Declaration
      <4> QED  BY <2>2, <2>3, <2>4, <2>6, <4>1
    <3> QED  BY <1>1, <2>4, <2>5, <3>1 DEF DeclaredOK
  <2>9. AskedOK(lua', config', heap', asked')
    BY <1>1 DEF AskedOK
  <2> QED  BY <1>1, <2>7, <2>8, <2>9 DEF ReaderInv, ReaderOK
<1> QED  BY <1>2, <1>3 DEF ReadConfiguration

\* The reader has what it had when its sets and the tables of lua stay.
LEMMA ReaderOKKept ==
    ASSUME NEW l, NEW l_, NEW c, NEW c_, NEW h, NEW h_, NEW list, ReaderOK(l, c, h, list),
           \A name : Global(l_, name) = Global(l, name),
           c_.modules = c.modules, c_.global = c.global, c_.cuba = c.cuba,
           c.global \in 1..Len(h), c.cuba \in 1..Len(h),
           Len(h) \in Nat, Len(h_) \in Nat, Len(h) <= Len(h_), \A a \in 1..Len(h) : h_[a] = h[a]
    PROVE  ReaderOK(l_, c_, h_, list)
<1>1. \A where : AddressOf(c_, where) = AddressOf(c, where) /\ h_[AddressOf(c, where)] = h[AddressOf(c, where)]
  BY DEF AddressOf
<1>2. \A where \in Tables : LazyOK(l_, h_[AddressOf(c_, where)], where)
  BY <1>1 DEF ReaderOK, LazyOK
<1>3. DeclaredOK(l_, c_, h_)
  <2> SUFFICES ASSUME NEW i \in DOMAIN c.modules
               PROVE  /\ c.modules[i].parameters = i + 2 /\ i + 2 \in 3..Len(h_)
                      /\ h_[i + 2] = parse(Declaration(l_, c.modules[i])[2], to_any)
    BY DEF DeclaredOK
  <2>1. /\ c.modules[i].parameters = i + 2 /\ i + 2 \in 3..Len(h)
        /\ h[i + 2] = parse(Declaration(l, c.modules[i])[2], to_any)
    BY DEF ReaderOK, DeclaredOK
  <2>2. i + 2 \in 1..Len(h) /\ i + 2 \in 3..Len(h_)
    BY <2>1
  <2>3. Declaration(l_, c.modules[i]) = Declaration(l, c.modules[i])
    BY DEF Declaration
  <2> QED  BY <2>1, <2>2, <2>3
<1>4. AskedOK(l_, c_, h_, list)
  BY <1>1 DEF ReaderOK, AskedOK
<1> QED  BY <1>2, <1>3, <1>4 DEF ReaderOK

LEMMA ReaderInvFreeze ==
    ASSUME SetupInv, ReaderInv, RegistryInv', Freeze
    PROVE  ReaderInv'
<1> DEFINE calls == FrozenCopy(Copy(config, heap)).calls
<1>1. /\ pc = "read" /\ UNCHANGED <<script, asked>> /\ lua' = Calling(lua, calls) /\ config' = Counted(config, calls)
      /\ pc' \in {"read", "refused"}
  BY DEF Freeze, FrozenAs
<1> HIDE DEF calls
<1>2. /\ IsList(heap) /\ Len(heap) \in Nat /\ Len(heap) >= 2 /\ config.global = 1 /\ config.cuba = 2
      /\ LuaOK(lua, registry) /\ ConfigurationOK(config, registry)
  BY <1>1, DomainOfList DEF SetupInv, HeapOK
<1>3. \A a \in 1..Len(heap) : heap'[a] = heap[a]
  BY SetupInvFreeze
<1>4. Len(heap') \in Nat /\ Len(heap) <= Len(heap')
  <2>1. UNCHANGED heap \/ heap' = WithInternals(WithGlobals(FrozenCopy(Copy(config, heap)).heap, Copy(config, heap).config),
                                               Copy(config, heap).config).heap
    BY DEF Freeze, FrozenAs
  <2> QED  BY <1>1, <1>2, <2>1, FreezeAppends
<1>5. \A name : Global(lua', name) = Global(lua, name)
  BY <1>1, <1>2, CallingKeepsTables
<1>6. config'.modules = config.modules /\ config'.global = config.global /\ config'.cuba = config.cuba
  BY <1>1, <1>2, ConfigurationCounts
<1>7. config.global \in 1..Len(heap) /\ config.cuba \in 1..Len(heap)
  BY <1>2
<1>8. ReaderOK(lua, config, heap, asked)
  BY <1>1 DEF ReaderInv
<1>9. ReaderOK(lua', config', heap', asked)
  BY ONLY <1>2, <1>3, <1>4, <1>5, <1>6, <1>7, <1>8, ReaderOKKept
<1> QED  BY <1>1, <1>9 DEF ReaderInv

LEMMA ReaderInvSetParameter ==
    ASSUME SetupInv, ReaderInv, pc = "read", NEW change \in script.changes, SetParameter(change[1], change[2], change[3])
    PROVE  ReaderInv'
<1>1. change[1] \in Tables /\ UNCHANGED script
  BY DEF ReaderInv, SetParameter
<1>2. pc' \in {"read", "refused", "terminated"}
  BY DEF SetParameter
<1>3. IsList(asked')
  <2>1. asked' = asked \/ asked' = Append(asked, <<change[1], change[2], change[3]>>)
    BY DEF SetParameter
  <2> DEFINE new == <<change[1], change[2], change[3]>>
  <2>2. asked' = asked \/ asked' = Append(asked, new)
    BY <2>1
  <2> HIDE DEF new
  <2>3. IsList(asked)
    BY DEF ReaderInv
  <2>4. IsList(Append(asked, new))
    BY <2>3, AppendedList
  <2> QED  BY <2>2, <2>3, <2>4
<1>4. pc' = "read" => ReaderOK(lua', config', heap', asked')
  BY <1>1, ReaderOKSetParameter
<1> QED  BY <1>1, <1>2, <1>3, <1>4 DEF ReaderInv

LEMMA ReaderInvConstruct ==
    ASSUME SetupInv, ReaderInv, RegistryInv', pc = "read", NEW f \in 1..Len(frozen),
           NEW kept \in SUBSET DOMAIN config.modules, Construct(f, kept)
    PROVE  ReaderInv'
<1>1. UNCHANGED <<pc, script, lua, config, asked>>
  BY DEF Construct
<1>2. /\ IsList(heap) /\ Len(heap) \in Nat /\ Len(heap) >= 2 /\ config.global = 1 /\ config.cuba = 2
  BY DomainOfList DEF SetupInv, HeapOK
<1>3. IsList(heap') /\ Len(heap) <= Len(heap') /\ \A a \in 1..Len(heap) : heap'[a] = heap[a]
  BY ConstructBuilds
<1>4. Len(heap') \in Nat
  BY <1>3, DomainOfList
<1>5. config.global \in 1..Len(heap) /\ config.cuba \in 1..Len(heap)
  BY <1>2
<1>6. ReaderOK(lua, config, heap, asked)
  BY DEF ReaderInv
<1>7. ReaderOK(lua, config, heap', asked)
  BY ONLY <1>2, <1>3, <1>4, <1>5, <1>6, ReaderOKKept
<1> QED  BY <1>1, <1>7 DEF ReaderInv

LEMMA ReaderInvNext == SetupInv /\ RegistryInv' /\ ReaderInv /\ [Next]_vars => ReaderInv'
<1> SUFFICES ASSUME SetupInv, RegistryInv', ReaderInv, [Next]_vars PROVE ReaderInv'
  OBVIOUS
<1>1. CASE \E name \in DOMAIN Scripts : Start(name)
  BY <1>1, ReaderInvStart
<1>2. CASE Exec
  BY <1>2, ReaderInvStatement
<1>3. CASE ReadConfiguration
  BY <1>3, ReaderInvReadConfiguration
<1>4. CASE Freeze
  BY <1>4, ReaderInvFreeze
<1>5. CASE pc = "read" /\ \E change \in script.changes : SetParameter(change[1], change[2], change[3])
  BY <1>5, ReaderInvSetParameter
<1>6. CASE /\ pc = "read" /\ built.of < Len(frozen)
           /\ \E kept \in SUBSET DOMAIN config.modules : Construct(built.of + 1, kept)
  BY <1>6, NextToBuild, ReaderInvConstruct
<1>7. CASE UNCHANGED vars
  <2>1. UNCHANGED <<pc, script, lua, config, heap, asked>>
    BY <1>7 DEF vars
  <2> QED  BY <2>1 DEF ReaderInv
<1> QED  BY <1>1, <1>2, <1>3, <1>4, <1>5, <1>6, <1>7 DEF Next

-----------------------------------------------------------------------------
\* Once a file is read, the modules stay, and what they were declared with.
LEMMA DeclarationsStay ==
    ASSUME SetupInv, ReaderInv, [Next]_vars, pc \notin {"started", "script"}
    PROVE  /\ config'.modules = config.modules
           /\ \A i \in DOMAIN config.modules :
                 Declaration(lua', config.modules[i]) = Declaration(lua, config.modules[i])
<1> DEFINE SameModules == config'.modules = config.modules
           SameTables == \A name : name \notin Tables => Global(lua', name) = Global(lua, name)
           Unchanged == SameModules /\ SameTables
<1>1. LuaOK(lua, registry) /\ ConfigurationOK(config, registry)
  BY DEF SetupInv
<1>2. ~((\E name \in DOMAIN Scripts : Start(name)) \/ Exec \/ ReadConfiguration)
  BY DEF Start, Exec, LoadModules, Declare, Assign, DeclareInput, AddPermutations, SetFinalModule, NewPath,
         Reached, ReadConfiguration
<1>3. ASSUME Freeze PROVE Unchanged
  <2> DEFINE calls == FrozenCopy(Copy(config, heap)).calls
  <2>1. lua' = Calling(lua, calls) /\ config' = Counted(config, calls)
    BY <1>3 DEF Freeze, FrozenAs
  <2> HIDE DEF calls
  <2>2. SameModules
    BY <1>1, <2>1, ConfigurationCounts
  <2>3. SameTables
    <3>1. \A name : Global(Calling(lua, calls), name) = Global(lua, name)
      BY <1>1, CallingKeepsTables
    <3> QED  BY <2>1, <3>1
  <2> QED  BY <2>2, <2>3
<1>4. ASSUME NEW change \in script.changes, SetParameter(change[1], change[2], change[3])
      PROVE  Unchanged
  <2> DEFINE where == change[1]
             l == SetField(lua, where, change[2], push_any(change[3]))
  <2>1. where \in Tables
    BY DEF ReaderInv
  <2>2. config' = config
    BY <1>4 DEF SetParameter
  <2>3. lua' = lua \/ (lua' = l /\ (Global(lua, where) = Nil \/ Global(lua, where)[1] = "table"))
    BY <1>4 DEF SetParameter, Set
  <2>4. (Global(lua, where) = Nil \/ Global(lua, where)[1] = "table")
        => \A other : other # where => Global(l, other) = Global(lua, other)
    BY <1>1, SetFieldSets
  <2> HIDE DEF where, l
  <2>5. SameTables
    <3>1. CASE lua' = lua
      BY <3>1
    <3>2. CASE lua' = l /\ \A other : other # where => Global(l, other) = Global(lua, other)
      BY <2>1, <3>2
    <3> QED  BY <2>3, <2>4, <3>1, <3>2
  <2>6. SameModules
    BY <2>2
  <2> QED  BY <2>5, <2>6
<1>5. ASSUME NEW f, NEW kept, Construct(f, kept) PROVE Unchanged
  <2>1. UNCHANGED <<lua, config>>
    BY <1>5 DEF Construct
  <2> QED  BY <2>1
<1>6. ASSUME UNCHANGED vars PROVE Unchanged
  <2>1. UNCHANGED <<lua, config>>
    BY <1>6 DEF vars
  <2> QED  BY <2>1
<1>7. Unchanged
  <2>1. \/ Freeze \/ UNCHANGED vars
        \/ \E change \in script.changes : SetParameter(change[1], change[2], change[3])
        \/ \E f, kept : Construct(f, kept)
    BY <1>2 DEF Next
  <2> HIDE DEF Unchanged
  <2> QED  BY <1>3, <1>4, <1>5, <1>6, <2>1
<1> QED  BY <1>7, ModulesAreElsewhere DEF Declaration

\* What was frozen before a step reads after it what it did.
LEMMA FrozenReadsStep ==
    ASSUME SetupInv, ReaderInv, RegistryInv', FrozenReads, Next, NEW f \in DOMAIN frozen
    PROVE  /\ OneMoment(lua', config'.modules, frozen[f].config, heap')
           /\ AskedIsThere(frozen[f].config, heap', frozen[f].asked)
<1>1. pc \notin {"started", "script"}
  <2>1. frozen # <<>>
    OBVIOUS
  <2> QED  BY <2>1 DEF SetupInv, HeapOK
<1>2. /\ config'.modules = config.modules
      /\ \A i \in DOMAIN config.modules :
            Declaration(lua', config.modules[i]) = Declaration(lua, config.modules[i])
  BY <1>1, DeclarationsStay
<1>3. \A a \in Addresses(frozen[f].config) : heap'[a] = heap[a]
  BY FrozenSetsStay
<1>4. /\ ConfigurationOK(frozen[f].config, registry)
      /\ DOMAIN config.modules \subseteq DOMAIN frozen[f].config.modules
  BY DEF SetupInv, FrozenOK
<1>5. /\ OneMoment(lua, config.modules, frozen[f].config, heap)
      /\ AskedIsThere(frozen[f].config, heap, frozen[f].asked)
  BY DEF FrozenReads
<1> DEFINE modules == config.modules
           c == frozen[f].config
           list == frozen[f].asked
           l_ == lua'
           h_ == heap'
<1>6. OneMoment(l_, modules, c, h_) /\ AskedIsThere(c, h_, list)
  <2>1. /\ ConfigurationOK(c, registry) /\ DOMAIN modules \subseteq DOMAIN c.modules
        /\ \A i \in DOMAIN modules : Declaration(l_, modules[i]) = Declaration(lua, modules[i])
        /\ \A a \in Addresses(c) : h_[a] = heap[a]
        /\ OneMoment(lua, modules, c, heap) /\ AskedIsThere(c, heap, list)
    BY <1>2, <1>3, <1>4, <1>5
  <2> HIDE DEF modules, c, list, l_, h_
  <2> QED  BY ONLY <2>1, FrozenReadsKept
<1> QED  BY <1>2, <1>6

LEMMA FrozenReadsNext ==
    SetupInv /\ RegistryInv' /\ ReaderInv /\ FrozenReads /\ [Next]_vars => FrozenReads'
<1> SUFFICES ASSUME SetupInv, RegistryInv', ReaderInv, FrozenReads, [Next]_vars PROVE FrozenReads'
  OBVIOUS
<1>1. CASE Freeze
  <2> DEFINE copy == Copy(config, heap)
             calls == FrozenCopy(copy).calls
             full == WithInternals(WithGlobals(FrozenCopy(copy).heap, copy.config), copy.config)
             new == [config |-> full.config, asked |-> asked, calls |-> calls]
  <2>1. /\ pc = "read" /\ lua' = Calling(lua, calls) /\ config' = Counted(config, calls)
        /\ UNCHANGED <<heap, frozen>> \/ (heap' = full.heap /\ frozen' = Append(frozen, new))
    BY <1>1 DEF Freeze, FrozenAs
  <2>2. new.config = full.config /\ new.asked = asked
    OBVIOUS
  <2>3. OneMoment(lua, config.modules, full.config, full.heap) /\ AskedIsThere(full.config, full.heap, asked)
    BY <2>1, FreezeReads
  <2>4. /\ config'.modules = config.modules
        /\ \A i \in DOMAIN config.modules :
              Declaration(lua', config.modules[i]) = Declaration(lua, config.modules[i])
    BY <2>1, DeclarationsStay
  <2> HIDE DEF full, new, calls
  <2>5. OneMoment(lua', config'.modules, full.config, full.heap)
    <3> DEFINE l_ == lua'
               modules == config.modules
               c == full.config
               h == full.heap
    <3>1. /\ OneMoment(lua, modules, c, h)
          /\ \A i \in DOMAIN modules : Declaration(l_, modules[i]) = Declaration(lua, modules[i])
      BY <2>3, <2>4
    <3> HIDE DEF l_, modules, c, h
    <3>2. OneMoment(l_, modules, c, h)
      BY ONLY <3>1 DEF OneMoment
    <3> QED  BY <2>4, <3>2 DEF l_, modules, c, h
  <2>6. ASSUME NEW f \in DOMAIN frozen
        PROVE  /\ OneMoment(lua', config'.modules, frozen[f].config, heap')
               /\ AskedIsThere(frozen[f].config, heap', frozen[f].asked)
    BY <1>1, FrozenReadsStep DEF Next
  <2>7. CASE UNCHANGED <<heap, frozen>>
    BY <2>6, <2>7 DEF FrozenReads
  <2>8. CASE heap' = full.heap /\ frozen' = Append(frozen, new)
    <3>1. /\ DOMAIN frozen' = 1..(Len(frozen) + 1) /\ DOMAIN frozen = 1..Len(frozen) /\ Len(frozen) \in Nat
          /\ \A i \in 1..Len(frozen) : frozen'[i] = frozen[i]
          /\ frozen'[Len(frozen) + 1] = new
      BY <2>8, AppendedList, DomainOfList DEF SetupInv, FrozenOK
    <3>2. ASSUME NEW f \in DOMAIN frozen'
          PROVE  /\ OneMoment(lua', config'.modules, frozen'[f].config, heap')
                 /\ AskedIsThere(frozen'[f].config, heap', frozen'[f].asked)
      <4>1. CASE f \in DOMAIN frozen
        BY <2>6, <3>1, <4>1
      <4>2. CASE f = Len(frozen) + 1
        BY <2>2, <2>3, <2>5, <2>8, <3>1, <4>2
      <4> QED  BY <3>1, <4>1, <4>2
    <3> QED  BY <3>2 DEF FrozenReads
  <2> QED  BY <2>1, <2>7, <2>8
<1>2. CASE Next /\ UNCHANGED frozen
  BY <1>2, FrozenReadsStep DEF FrozenReads
<1>3. CASE UNCHANGED vars
  <2>1. UNCHANGED <<lua, config, heap, frozen>>
    BY <1>3 DEF vars
  <2> QED  BY <2>1 DEF FrozenReads
<1>4. Freeze \/ UNCHANGED frozen
  BY DEF Next, vars, Start, Exec, LoadModules, Declare, Assign, DeclareInput, AddPermutations, SetFinalModule, NewPath,
         Outside, ReadConfiguration, SetParameter, Construct
<1> QED  BY <1>1, <1>2, <1>3, <1>4

LEMMA ReaderInvAlways == Spec => [](ReaderInv /\ FrozenReads)
<1>1. Init => ReaderInv /\ FrozenReads
  BY ReaderInvInit
<1>2. SetupInv /\ RegistryInv' /\ (ReaderInv /\ FrozenReads) /\ [Next]_vars => (ReaderInv /\ FrozenReads)'
  BY ReaderInvNext, FrozenReadsNext
<1> QED  BY <1>1, <1>2, SetupInvAlways, RegistryInvInSetup, PTL DEF Spec

\* Whatever a file declares by parameter('x'), and whatever a program sets before
\* a freeze, between two of them or after, each configuration has for it what
\* its own global parameter x is: lazy values are called in one state of lua.
THEOREM FrozenAtOneMoment == Spec => []FrozenIsOfOneMoment
<1>1. FrozenReads => FrozenIsOfOneMoment
  BY DEF FrozenReads, OneMoment, FrozenIsOfOneMoment
<1> QED  BY <1>1, ReaderInvAlways, PTL

\* Whatever a program sets, in whatever order and however often, a configuration
\* it freezes has for each parameter or option of cuba the last value it was set to.
THEOREM LastSetIsRead == Spec => []SetIsRead
<1>1. FrozenReads => SetIsRead
  BY DEF FrozenReads, AskedIsThere, SetIsRead
<1> QED  BY <1>1, ReaderInvAlways, PTL

=============================================================================
