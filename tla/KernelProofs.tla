----------------------------- MODULE KernelProofs -----------------------------
(***************************************************************************)
(* Proofs about module Kernel, for all configurations, points and vanishing *)
(* helicities: what the matrix elements read and sum, what the generators   *)
(* draw, and what a Looper adds up.  The matrix elements and the points are *)
(* two inductive invariants, the second of which needs nothing of the first.*)
(***************************************************************************)
EXTENDS Kernel, FiniteInduction, TLAPS

-----------------------------------------------------------------------------
(* The matrix elements                                                       *)

Processes == {"ttbar", "WW"}
AllOf(s)  == Structural[<<<<Now.process, s>>, Expected(Now)["MB"] # 0>>]
Gone(s)   == {v[2] : v \in {w \in vanished : w[1] = s}}

\* Every layer of cached parameters that is written before an evaluation has
\* what the configuration says.
FromTheConfiguration ==
    /\ setup \in DOMAIN Setups
    /\ me = [process |-> Now.process, params |-> me.params, goodHel |-> me.goodHel]
    /\ me.params = [card |-> Expected(Now), mdl |-> Expected(Now), GC_100 |-> Expected(Now)["EW"],
                    G |-> me.params.G, GC_11 |-> me.params.GC_11]
    /\ DOMAIN me.goodHel = SubProcesses(Now.process)

\* The helicities that are skipped are those that gave nothing since the reset.
HelicitiesAreKept == \A s \in SubProcesses(Now.process) : AllOf(s) \ Gone(s) \subseteq me.goodHel[s]

KernelInv ==
    /\ pc = "new" => computed = None
    /\ pc # "new" => FromTheConfiguration /\ HelicitiesAreKept
    /\ CouplingsAreFresh
    /\ ResultIsWhole

-----------------------------------------------------------------------------
(* What the operators of the matrix elements give                            *)

\* The structure lists combinations of the process.
LEMMA StructureIsListed ==
    ASSUME NEW p \in Processes, NEW s \in SubProcesses(p), NEW b \in BOOLEAN
    PROVE  Structural[<<<<p, s>>, b>>] \subseteq Combinations(p)
<1> DEFINE Keys == {<<"ttbar", "gg">>, <<"ttbar", "uux">>, <<"WW", "uux">>, <<"WW", "ddx">>} \X BOOLEAN
           k == <<<<p, s>>, b>>
<1>1. k \in Keys
  <2>1. <<p, s>> \in {<<"ttbar", "gg">>, <<"ttbar", "uux">>, <<"WW", "uux">>, <<"WW", "ddx">>}
    BY DEF Processes, SubProcesses
  <2> QED  BY <2>1
<1>2. k[1][1] = p
  OBVIOUS
<1>3. Structural[k] = {h \in Combinations(k[1][1]) : Contributes(k[1][1], k[1][2], h, k[2])}
  BY <1>1 DEF Structural
<1> QED  BY <1>2, <1>3

\* An initial state is that of one subprocess, in one direction.
Both(p, s) == InitialStates(p, s) \cup {Swap(i) : i \in {j \in InitialStates(p, s) : HasMirror(s)}}
LEMMA InitialStatesAreDisjoint ==
    ASSUME NEW p \in Processes, NEW s \in SubProcesses(p)
    PROVE  /\ \A t \in SubProcesses(p) : s # t => Both(p, s) \cap Both(p, t) = {}
           /\ HasMirror(s) => \A i \in InitialStates(p, s) : Swap(i) \notin InitialStates(p, s)
<1> USE DEF InitialStates, Both, Swap, HasMirror, SubProcesses
<1>1. CASE p = "ttbar"
  <2>1. CASE s = "gg"
    BY <1>1, <2>1
  <2>2. CASE s = "uux"
    BY <1>1, <2>2
  <2> QED  BY <1>1, <2>1, <2>2
<1>2. CASE p = "WW"
  <2>1. CASE s = "uux"
    BY <1>2, <2>1
  <2>2. CASE s = "ddx"
    BY <1>2, <2>2
  <2> QED  BY <1>2, <2>1, <2>2
<1> QED  BY <1>1, <1>2 DEF Processes

\* The result has an entry for each of them, with what was summed for it.
LEMMA ResultHasEveryInitialState ==
    ASSUME NEW m, m.process \in Processes, NEW at, NEW s \in SubProcesses(m.process),
           NEW i \in InitialStates(m.process, s)
    PROVE  LET result == Result(m, at, FinalState(m.process))
               summed == Summed(m, at, s)
           IN  /\ result[i] = summed.direct \cup summed.nan
               /\ HasMirror(s) => result[Swap(i)] = summed.mirror \cup summed.nan
<1> DEFINE p == m.process
           Direct(t) == InitialStates(p, t)
           Of(pair) == CHOOSE t \in SubProcesses(p) : pair \in Both(p, t)
           Entry(pair) == LET summed == Summed(m, at, Of(pair))
                          IN  IF pair \in Direct(Of(pair)) THEN summed.direct \cup summed.nan
                              ELSE summed.mirror \cup summed.nan
           All == UNION {Both(p, t) : t \in SubProcesses(p)}
<1>1. Result(m, at, FinalState(p)) = [pair \in All |-> Entry(pair)]
  BY DEF Result, Both
<1>2. ASSUME NEW pair \in Both(p, s)  PROVE pair \in All /\ Of(pair) = s
  <2>1. pair \in All
    OBVIOUS
  <2>2. \A t \in SubProcesses(p) : pair \in Both(p, t) => t = s
    BY InitialStatesAreDisjoint
  <2> QED  BY <2>1, <2>2
<1>3. i \in Both(p, s)
  BY DEF Both
<1>4. HasMirror(s) => Swap(i) \in Both(p, s) /\ Swap(i) \notin Direct(s)
  BY InitialStatesAreDisjoint DEF Both
<1> HIDE DEF Of, All
<1>5. Entry(i) = Summed(m, at, s).direct \cup Summed(m, at, s).nan
  BY <1>2, <1>3
<1>6. HasMirror(s) => Entry(Swap(i)) = Summed(m, at, s).mirror \cup Summed(m, at, s).nan
  BY <1>2, <1>4
<1> QED  BY <1>1, <1>2, <1>3, <1>4, <1>5, <1>6

\* cacheParameters() and cacheCouplings() take the card to the other layers.
LEMMA Cached ==
    ASSUME NEW card, NEW mdl, NEW x, NEW y, NEW z
    PROVE  cacheCouplings(cacheParameters([card |-> card, mdl |-> mdl, GC_100 |-> x, G |-> y, GC_11 |-> z]))
             = [card |-> card, mdl |-> card, GC_100 |-> card["EW"], G |-> y, GC_11 |-> z]
<1>1. cacheParameters([card |-> card, mdl |-> mdl, GC_100 |-> x, G |-> y, GC_11 |-> z])
        = [card |-> card, mdl |-> card, GC_100 |-> x, G |-> y, GC_11 |-> z]
  BY DEF cacheParameters
<1>2. cacheCouplings([card |-> card, mdl |-> card, GC_100 |-> x, G |-> y, GC_11 |-> z])
        = [card |-> card, mdl |-> card, GC_100 |-> card["EW"], G |-> y, GC_11 |-> z]
  BY DEF cacheCouplings
<1> QED  BY <1>1, <1>2, Zenon

-----------------------------------------------------------------------------
(* The steps                                                                 *)

LEMMA KernelInvInit == Init => KernelInv
BY DEF Init, KernelInv, CouplingsAreFresh, ResultIsWhole

\* The constructor writes all the layers again when it overrides parameters.
LEMMA Constructed ==
    ASSUME KernelInv, NEW name \in DOMAIN Setups, Construct(name)
    PROVE  KernelInv'
<1> DEFINE s == Setups[name]
           new == NewMatrixElement(s.process, s.card)
           override == s.override
<1>1. /\ pc = "new" /\ pc' = "idle" /\ setup' = name /\ computed' = computed /\ vanished' = vanished
      /\ me' = Overridden(new, override)
  BY DEF Construct
<1>2. computed' = None
  BY <1>1 DEF KernelInv
<1>3. s.process \in Processes /\ s.card \in [Names -> Int]
  BY KernelAssumption DEF Processes
<1>4. Now' = s
  BY <1>1 DEF Now
<1>5. new = [process |-> s.process,
             params  |-> [card |-> s.card, mdl |-> s.card, GC_100 |-> s.card["EW"], G |-> Unset, GC_11 |-> Unset],
             goodHel |-> [t \in SubProcesses(s.process) |-> Combinations(s.process)]]
  <2>1. NewParameters(s.card)
          = [card |-> s.card, mdl |-> s.card, GC_100 |-> s.card["EW"], G |-> Unset, GC_11 |-> Unset]
    <3>1. cacheCouplings(cacheParameters([card |-> s.card, mdl |-> [n \in Names |-> Unset], GC_100 |-> Unset,
                                          G |-> Unset, GC_11 |-> Unset]))
            = [card |-> s.card, mdl |-> s.card, GC_100 |-> s.card["EW"], G |-> Unset, GC_11 |-> Unset]
      BY Cached
    <3> QED  BY <3>1 DEF NewParameters
  <2> QED  BY <2>1, Zenon DEF NewMatrixElement
<1>6. me' = [process |-> s.process,
             params  |-> [card |-> Expected(s), mdl |-> Expected(s), GC_100 |-> Expected(s)["EW"],
                          G |-> Unset, GC_11 |-> Unset],
             goodHel |-> [t \in SubProcesses(s.process) |-> Combinations(s.process)]]
  <2>1. CASE DOMAIN override = {}
    <3>1. Expected(s) = s.card
      BY <1>3, <2>1 DEF Expected
    <3> QED  BY <1>1, <1>5, <2>1, <3>1 DEF Overridden
  <2>2. CASE DOMAIN override # {}
    <3>1. [n \in DOMAIN s.card |-> IF n \in DOMAIN override THEN override[n] ELSE s.card[n]] = Expected(s)
      BY <1>3 DEF Expected
    <3>2. setParameter(new.params, override) =
             [card |-> Expected(s), mdl |-> s.card, GC_100 |-> s.card["EW"], G |-> Unset, GC_11 |-> Unset]
      BY <1>5, <3>1 DEF setParameter
    <3>3. cacheCouplings(cacheParameters(setParameter(new.params, override))) =
             [card |-> Expected(s), mdl |-> Expected(s), GC_100 |-> Expected(s)["EW"], G |-> Unset, GC_11 |-> Unset]
      <4>1. cacheCouplings(cacheParameters([card |-> Expected(s), mdl |-> s.card, GC_100 |-> s.card["EW"],
                                            G |-> Unset, GC_11 |-> Unset]))
              = [card |-> Expected(s), mdl |-> Expected(s), GC_100 |-> Expected(s)["EW"],
                 G |-> Unset, GC_11 |-> Unset]
        BY Cached
      <4> QED  BY <3>2, <4>1
    <3> HIDE DEF new, override
    <3>4. me' = [new EXCEPT !.params = cacheCouplings(cacheParameters(setParameter(new.params, override)))]
      BY <1>1, <2>2 DEF Overridden
    <3> QED  BY <1>5, <3>3, <3>4
  <2> QED  BY <2>1, <2>2
<1>7. FromTheConfiguration'
  <2> HIDE DEF s
  <2>1. (Expected(Now))' = Expected(s)
    BY <1>4 DEF Expected
  <2> QED  BY <1>1, <1>4, <1>6, <2>1 DEF FromTheConfiguration, s
<1>8. HelicitiesAreKept'
  <2> SUFFICES ASSUME NEW t \in SubProcesses(s.process)
               PROVE  (AllOf(t))' \subseteq me'.goodHel[t]
    BY <1>4 DEF HelicitiesAreKept
  <2>1. (AllOf(t))' \subseteq Combinations(s.process)
    BY <1>3, <1>4, StructureIsListed DEF AllOf
  <2> QED  BY <1>6, <2>1
<1> QED  BY <1>1, <1>2, <1>7, <1>8 DEF KernelInv, CouplingsAreFresh, ResultIsWhole

\* beginIntegration() gives back all the helicities.
LEMMA Begun ==
    ASSUME KernelInv, BeginIntegration
    PROVE  KernelInv'
<1>1. /\ pc = "idle" /\ pc' = "integrating" /\ setup' = setup /\ computed' = None
      /\ me' = [me EXCEPT !.goodHel = [s \in DOMAIN me.goodHel |-> Combinations(me.process)]]
  BY DEF BeginIntegration, resetHelicities
<1>2. FromTheConfiguration /\ Now' = Now
  BY <1>1 DEF KernelInv, Now
<1>3. me' = [process |-> Now.process, params |-> me.params,
             goodHel |-> [s \in SubProcesses(Now.process) |-> Combinations(Now.process)]]
  BY <1>1, <1>2 DEF FromTheConfiguration
<1>4. (Expected(Now))' = Expected(Now)
  BY <1>2 DEF Expected
<1>5. FromTheConfiguration'
  BY <1>1, <1>2, <1>3, <1>4 DEF FromTheConfiguration
<1>6. HelicitiesAreKept'
  <2> SUFFICES ASSUME NEW t \in SubProcesses(Now.process)
               PROVE  (AllOf(t))' \subseteq me'.goodHel[t]
    BY <1>2 DEF HelicitiesAreKept
  <2>1. Now.process \in Processes
    BY <1>2, KernelAssumption DEF FromTheConfiguration, Now, Processes
  <2>2. (AllOf(t))' \subseteq Combinations(Now.process)
    BY <1>2, <1>4, <2>1, StructureIsListed DEF AllOf
  <2> QED  BY <1>3, <2>2
<1> QED  BY <1>1, <1>5, <1>6 DEF KernelInv, CouplingsAreFresh, ResultIsWhole

\* Steps that leave the matrix element alone.
LEMMA Elsewhere ==
    ASSUME KernelInv, UNCHANGED <<setup, me, computed, vanished>>, pc # "new" => pc' # "new",
           pc = "new" => pc' = pc
    PROVE  KernelInv'
<1>1. Now' = Now /\ (Expected(Now))' = Expected(Now)
  BY DEF Now, Expected
<1>2. FromTheConfiguration => FromTheConfiguration'
  BY <1>1 DEF FromTheConfiguration
<1>3. HelicitiesAreKept => HelicitiesAreKept'
  BY <1>1 DEF HelicitiesAreKept, AllOf, Gone
<1>4. CouplingsAreFresh'
  BY <1>1 DEF KernelInv, CouplingsAreFresh
<1>5. ResultIsWhole'
  BY <1>1 DEF KernelInv, ResultIsWhole
<1> QED  BY <1>2, <1>3, <1>4, <1>5 DEF KernelInv

\* An evaluation reads what was just updated, and drops no helicity that still
\* has something to give.
LEMMA Evaluates ==
    ASSUME KernelInv, NEW at, Evaluate(at)
    PROVE  KernelInv'
<1> DEFINE p == Now.process
           E == Expected(Now)
           u == Updated(me)
           Direct(s) == AllOf(s) \ at.direct
           Mirror(s) == IF HasMirror(s) THEN AllOf(s) \ at.mirror ELSE {}
<1>1. /\ pc = "partons" /\ pc' = "looping" /\ setup' = setup
      /\ vanished' = vanished \cup Vanishing(me, at)
  BY DEF Evaluate
<1>2. FromTheConfiguration /\ HelicitiesAreKept
  BY <1>1 DEF KernelInv
<1>3. Now' = Now /\ E' = E
  BY <1>1 DEF Now, Expected
<1>4. p \in Processes /\ Sorted(Now.particles, Now.indices) = FinalState(p)
  BY <1>2, KernelAssumption DEF FromTheConfiguration, Now, Processes
<1>5. u = [process |-> p,
           params  |-> [card |-> E, mdl |-> E, GC_100 |-> E["EW"], G |-> E["aS"], GC_11 |-> E["aS"]],
           goodHel |-> me.goodHel]
  <2>1. updateParameters(me.params) =
           [card |-> E, mdl |-> E, GC_100 |-> E["EW"], G |-> E["aS"], GC_11 |-> me.params.GC_11]
    <3> HIDE DEF E
    <3>1. me.params = [card |-> E, mdl |-> E, GC_100 |-> E["EW"], G |-> me.params.G, GC_11 |-> me.params.GC_11]
      BY <1>2 DEF FromTheConfiguration, E
    <3> QED  BY <3>1 DEF updateParameters
  <2>2. updateCouplings(updateParameters(me.params)) =
           [card |-> E, mdl |-> E, GC_100 |-> E["EW"], G |-> E["aS"], GC_11 |-> E["aS"]]
    BY <2>1 DEF updateCouplings
  <2>3. u = [me EXCEPT !.params = updateCouplings(updateParameters(me.params))]
    BY DEF Updated
  <2> HIDE DEF E, u
  <2> QED  BY <1>2, <2>2, <2>3 DEF FromTheConfiguration
<1>6. u.process = p
  BY <1>5
<1>7. /\ me' = Evaluated(u, at)
      /\ computed' = [result |-> Result(u, at, FinalState(p)), at |-> at, read |-> Read(u.params)]
  <2>1. FinalState(me.process) = FinalState(p)
    BY <1>2 DEF FromTheConfiguration
  <2> QED  BY <1>4, <2>1 DEF Evaluate
<1>8. ASSUME NEW s
      PROVE  Values(u, at, s).direct = Direct(s) /\ Values(u, at, s).mirror = Mirror(s)
  <2>1. Values(u, at, s) = [direct |-> Direct(s), mirror |-> Mirror(s)]
    <3> HIDE DEF u
    <3>1. u.process = p /\ u.params.mdl = E
      <4> HIDE DEF E, p
      <4> QED  BY <1>5
    <3>2. Structural[<<<<u.process, s>>, u.params.mdl["MB"] # 0>>] = AllOf(s)
      BY <3>1 DEF AllOf
    <3> HIDE DEF E
    <3> QED  BY <3>2 DEF Values
  <2> HIDE DEF Direct, Mirror
  <2> QED  BY <2>1
<1>9. ASSUME NEW s \in SubProcesses(p)
      PROVE  me'.goodHel[s] = {h \in me.goodHel[s] : h \in Direct(s) \/ h \in Mirror(s) \/ h \in at.nan}
  <2>1. DOMAIN me.goodHel = SubProcesses(p)
    BY <1>2 DEF FromTheConfiguration
  <2>2. u.goodHel = me.goodHel
    BY <1>5
  <2>3. me' = [u EXCEPT !.goodHel = [t \in DOMAIN u.goodHel |->
                  {h \in u.goodHel[t] : \/ h \in Values(u, at, t).direct \/ h \in Values(u, at, t).mirror
                                        \/ h \in at.nan}]]
    BY <1>7 DEF Evaluated
  <2> HIDE DEF u, Direct, Mirror
  <2>4. me'.goodHel[s] = {h \in me.goodHel[s] : \/ h \in Values(u, at, s).direct
                                               \/ h \in Values(u, at, s).mirror \/ h \in at.nan}
    BY <1>5, <2>1, <2>2, <2>3
  <2> QED  BY <1>8, <2>4
<1> HIDE DEF u, E
<1>10. ASSUME NEW s \in SubProcesses(p)
       PROVE  Summed(u, at, s) = [direct |-> Direct(s) \cap me.goodHel[s], mirror |-> Mirror(s) \cap me.goodHel[s],
                                  nan |-> at.nan \cap me.goodHel[s]]
  <2>1. u.goodHel = me.goodHel
    BY <1>5
  <2> HIDE DEF Direct, Mirror
  <2> QED  BY <1>8, <2>1 DEF Summed
<1>11. ASSUME NEW s
       PROVE  (AllOf(s))' = AllOf(s) /\ Gone(s) \subseteq (Gone(s))'
  BY <1>1, <1>3 DEF AllOf, Gone, E
<1>12. ASSUME NEW s \in SubProcesses(p), NEW h \in AllOf(s), h \notin Direct(s), h \notin Mirror(s)
       PROVE  h \in (Gone(s))'
  <2>1. <<s, h>> \in Vanishing(me, at)
    BY <1>2, <1>12 DEF Vanishing, FromTheConfiguration
  <2> QED  BY <1>1, <2>1 DEF Gone
<1>13. FromTheConfiguration'
  <2>1. DOMAIN me.goodHel = SubProcesses(p) /\ u.goodHel = me.goodHel
    BY <1>2, <1>5 DEF FromTheConfiguration
  <2>2. me' = [u EXCEPT !.goodHel = me'.goodHel] /\ DOMAIN me'.goodHel = SubProcesses(p)
    BY <1>5, <1>7, <2>1 DEF Evaluated
  <2>3. setup \in DOMAIN Setups
    BY <1>2 DEF FromTheConfiguration
  <2> QED  BY <1>1, <1>3, <1>5, <2>2, <2>3 DEF FromTheConfiguration, E
<1>14. HelicitiesAreKept'
  <2> SUFFICES ASSUME NEW s \in SubProcesses(p), NEW h \in AllOf(s), h \notin (Gone(s))'
               PROVE  h \in me'.goodHel[s]
    BY <1>3, <1>11 DEF HelicitiesAreKept
  <2>1. h \in me.goodHel[s]
    BY <1>2, <1>11 DEF HelicitiesAreKept
  <2> QED  BY <1>9, <1>12, <2>1
<1>15. CouplingsAreFresh'
  <2>1. Read(u.params) = [GC_100 |-> E["EW"], GC_11 |-> E["aS"], massiveB |-> E["MB"] # 0]
    BY <1>5 DEF Read
  <2>2. computed'.read = Read(u.params)
    BY <1>7
  <2> QED  BY <1>3, <2>1, <2>2 DEF CouplingsAreFresh, E
<1>16. ResultIsWhole'
  <2> SUFFICES ASSUME NEW s \in SubProcesses(p), NEW i \in InitialStates(p, s)
               PROVE  /\ AllOf(s) \ (at.direct \cup (Gone(s))') \subseteq computed'.result[i]
                      /\ HasMirror(s) =>
                            AllOf(s) \ (at.mirror \cup (Gone(s))') \subseteq computed'.result[Swap(i)]
    BY <1>3, <1>7, <1>11 DEF ResultIsWhole, AllOf, Gone
  <2>1. computed'.result = Result(u, at, FinalState(p))
    BY <1>7
  <2>2. /\ computed'.result[i] = Summed(u, at, s).direct \cup Summed(u, at, s).nan
        /\ HasMirror(s) => computed'.result[Swap(i)] = Summed(u, at, s).mirror \cup Summed(u, at, s).nan
    BY <1>4, <1>6, <2>1, ResultHasEveryInitialState
  <2>3. AllOf(s) \ Gone(s) \subseteq me.goodHel[s]
    BY <1>2 DEF HelicitiesAreKept
  <2>4. Gone(s) \subseteq (Gone(s))'
    BY <1>11
  <2> QED  BY <1>10, <2>2, <2>3, <2>4
<1> QED  BY <1>1, <1>13, <1>14, <1>15, <1>16 DEF KernelInv

LEMMA KernelInvNext == KernelInv /\ [Next]_vars => KernelInv'
<1> SUFFICES ASSUME KernelInv, [Next]_vars PROVE KernelInv'
  OBVIOUS
<1>1. ASSUME NEW name \in DOMAIN Setups, Construct(name) PROVE KernelInv'
  BY <1>1, Constructed
<1>2. CASE BeginIntegration
  BY <1>2, Begun
<1>3. CASE EvaluateIntegrand
  BY <1>3, Elsewhere DEF EvaluateIntegrand
<1>4. CASE EndIntegration
  BY <1>4, Elsewhere DEF EndIntegration
<1>5. ASSUME NEW k, NEW g, Generate(g, k) PROVE KernelInv'
  BY <1>5, Elsewhere DEF Generate
<1>6. ASSUME NEW p, SolveBlock(p) PROVE KernelInv'
  <2>1. /\ pc = "drawn" /\ pc' # "new"
        /\ UNCHANGED <<setup, me, computed, vanished>>
    BY <1>6 DEF SolveBlock
  <2> QED  BY <2>1, Elsewhere
<1>7. CASE InitialState
  <2>1. /\ pc = "looping" /\ pc' # "new"
        /\ UNCHANGED <<setup, me, computed, vanished>>
    BY <1>7 DEF InitialState
  <2> QED  BY <2>1, Elsewhere
<1>8. CASE EndLoop
  BY <1>8, Elsewhere DEF EndLoop
<1>9. ASSUME NEW at, Evaluate(at) PROVE KernelInv'
  BY <1>9, Evaluates
<1>10. CASE UNCHANGED vars
  BY <1>10, Elsewhere DEF vars
<1> QED  BY <1>1, <1>2, <1>3, <1>4, <1>5, <1>6, <1>7, <1>8, <1>9, <1>10 DEF Next

LEMMA KernelInvAlways == Spec => []KernelInv
BY KernelInvInit, KernelInvNext, PTL DEF Spec

-----------------------------------------------------------------------------
(* What the generators draw                                                  *)

\* A coordinate of [0, 1] gives a value of the interval, strictly inside it if
\* it is itself.
LEMMA StretchedStaysInside ==
    ASSUME NEW from \in Int, NEW to \in Int, from < to, NEW k \in 0..N
    PROVE  LET x == Stretched(from, to, k)
           IN  /\ x.value \in Int /\ from * N <= x.value /\ x.value <= to * N
               /\ 0 < k /\ k < N => from * N < x.value /\ x.value < to * N
               /\ x.jacobian = to - from
<1> DEFINE w == to - from
<1>1. w \in Int /\ w > 0 /\ N \in Int /\ k \in Int /\ 0 <= k /\ k <= N
  BY NAssumption
<1>2. to * N = from * N + w * N
  BY <1>1
<1>3. from * N \in Int /\ w * k \in Int /\ w * N \in Int
  BY <1>1
<1> HIDE DEF w
<1>4. 0 <= w * k
  BY <1>1
<1>5. 0 <= w * (N - k) /\ w * (N - k) = w * N - w * k
  BY <1>1
<1>6. k < N => w * (N - k) > 0
  BY <1>1
<1>7. 0 < k => w * k > 0
  BY <1>1
<1>8. Stretched(from, to, k) = [value |-> from * N + w * k, jacobian |-> w]
  BY DEF Stretched, w
<1>9. w = to - from
  BY DEF w
<1> QED
  BY <1>2, <1>3, <1>4, <1>5, <1>6, <1>7, <1>8, <1>9

\* Two different orders differ first at some place.
LEMMA OneIsBefore ==
    ASSUME NEW n \in Nat, NEW f \in Orders(n), NEW g \in Orders(n), f # g
    PROVE  Before(n, f, g) \/ Before(n, g, f)
<1>1. f \in [1..n -> 1..n] /\ g \in [1..n -> 1..n]
  BY DEF Orders
<1> DEFINE D == {i \in 1..n : f[i] # g[i]}
<1>2. D \in SUBSET Nat /\ D # {}
  <2>1. (\A i \in 1..n : f[i] = g[i]) => f = g
    BY <1>1
  <2> QED
    BY <2>1
<1>3. PICK i \in D : \A j \in D : i <= j
  BY <1>2, LeastNatural
<1>4. \A j \in 1..(i - 1) : f[j] = g[j]
  BY <1>3
<1>5. f[i] < g[i] \/ g[i] < f[i]
  BY <1>1
<1> QED
  BY <1>4, <1>5 DEF Before

LEMMA BeforeIsTransitive ==
    ASSUME NEW n \in Nat, NEW f \in Orders(n), NEW g \in Orders(n), NEW h \in Orders(n),
           Before(n, f, g), Before(n, g, h)
    PROVE  Before(n, f, h)
<1>1. f \in [1..n -> 1..n] /\ g \in [1..n -> 1..n] /\ h \in [1..n -> 1..n]
  BY DEF Orders
<1>2. PICK i \in 1..n : f[i] < g[i] /\ \A j \in 1..(i - 1) : f[j] = g[j]
  BY DEF Before
<1>3. PICK m \in 1..n : g[m] < h[m] /\ \A j \in 1..(m - 1) : g[j] = h[j]
  BY DEF Before
<1>4. CASE i <= m
  <2>1. f[i] < h[i]
    <3>1. f[i] \in Int /\ g[i] \in Int /\ h[i] \in Int
      BY <1>1
    <3>2. g[i] <= h[i]
      <4>1. CASE i = m
        BY <1>3, <3>1, <4>1
      <4>2. CASE i # m
        <5>1. i \in 1..(m - 1)
          BY <1>4, <4>2
        <5> QED
          BY <1>3, <3>1, <5>1
      <4> QED
        BY <4>1, <4>2
    <3> QED
      BY <1>2, <3>1, <3>2
  <2>2. \A j \in 1..(i - 1) : j \in 1..(m - 1)
    BY <1>4
  <2> QED
    BY <1>2, <1>3, <2>1, <2>2 DEF Before
<1>5. CASE m < i
  <2>1. m \in 1..(i - 1) /\ \A j \in 1..(m - 1) : j \in 1..(i - 1)
    BY <1>5
  <2> QED
    BY <1>1, <1>2, <1>3, <2>1 DEF Before
<1> QED
  BY <1>4, <1>5

\* The orders are finitely many, and there is one.
LEMMA OrdersAreCounted ==
    ASSUME NEW n \in Nat
    PROVE  IsFiniteSet(Orders(n)) /\ Cardinality(Orders(n)) \in Nat \ {0}
<1> DEFINE Couples == (1..n) \X (1..n)
           graph == [f \in Orders(n) |-> {<<i, f[i]>> : i \in 1..n}]
<1>1. IsFiniteSet(SUBSET Couples)
  <2>1. 1 \in Int /\ n \in Int
    OBVIOUS
  <2>2. IsFiniteSet(1..n)
    BY <2>1, FS_Interval
  <2>3. IsFiniteSet(Couples)
    BY <2>2, FS_Product
  <2> QED
    BY <2>3, FS_SUBSET
<1>2. \A f \in Orders(n) : f \in [1..n -> 1..n]
  BY DEF Orders
<1>3. graph \in [Orders(n) -> SUBSET Couples]
  BY <1>2
<1>4. ASSUME NEW f \in Orders(n), NEW g \in Orders(n), graph[f] = graph[g]
      PROVE  f = g
  <2>1. ASSUME NEW i \in 1..n PROVE f[i] = g[i]
    <3>1. <<i, f[i]>> \in graph[g]
      BY <1>4
    <3> QED
      BY <3>1
  <2> QED
    BY <1>2, <2>1
<1> HIDE DEF graph, Couples
<1>5. graph \in Injection(Orders(n), SUBSET Couples)
  BY <1>3, <1>4 DEF Injection, IsInjective
<1>6. IsFiniteSet(Orders(n))
  BY <1>1, <1>5, FS_Injection
<1>7. [i \in 1..n |-> i] \in Orders(n)
  BY DEF Orders
<1>8. Orders(n) # {}
  BY <1>7
<1> QED
  BY <1>6, <1>8, FS_CardinalityType, FS_EmptySet

\* Counting the orders before each of them numbers them from 0.
LEMMA OrdersAreNumbered ==
    ASSUME NEW n \in Nat, NEW r \in 0..(Cardinality(Orders(n)) - 1)
    PROVE  \E f \in Orders(n) : Cardinality(Preceding(n, f)) = r
<1> DEFINE All == Orders(n)
           c == Cardinality(Orders(n))
           rank == [f \in All |-> Cardinality(Preceding(n, f))]
<1>1. IsFiniteSet(All) /\ c \in Nat \ {0}
  BY OrdersAreCounted
<1>2. ASSUME NEW f \in All PROVE ~Before(n, f, f)
  <2>1. f \in [1..n -> 1..n]
    BY DEF Orders
  <2> QED
    BY <2>1 DEF Before
<1>3. ASSUME NEW f \in All
      PROVE  /\ Preceding(n, f) \subseteq All \ {f} /\ IsFiniteSet(Preceding(n, f))
             /\ Cardinality(Preceding(n, f)) \in 0..(c - 1)
  <2>1. Preceding(n, f) \subseteq All \ {f}
    BY <1>2 DEF Preceding
  <2>2. IsFiniteSet(All \ {f}) /\ Cardinality(All \ {f}) = c - 1
    BY <1>1, FS_RemoveElement
  <2>3. IsFiniteSet(Preceding(n, f)) /\ Cardinality(Preceding(n, f)) <= c - 1
    BY <2>1, <2>2, FS_Subset
  <2>4. Cardinality(Preceding(n, f)) \in Nat
    BY <2>3, FS_CardinalityType
  <2> QED
    BY <1>1, <2>1, <2>3, <2>4
<1>4. ASSUME NEW f \in All, NEW g \in All, Before(n, f, g)
      PROVE  Cardinality(Preceding(n, f)) < Cardinality(Preceding(n, g))
  <2>1. Preceding(n, f) \subseteq Preceding(n, g) \ {f}
    <3>1. Preceding(n, f) \subseteq Preceding(n, g)
      BY <1>4, BeforeIsTransitive DEF Preceding
    <3> QED
      BY <1>3, <3>1
  <2>2. f \in Preceding(n, g)
    BY <1>4 DEF Preceding
  <2>3. IsFiniteSet(Preceding(n, g)) /\ Cardinality(Preceding(n, g)) \in Nat
    BY <1>3
  <2>4. /\ IsFiniteSet(Preceding(n, g) \ {f})
        /\ Cardinality(Preceding(n, g) \ {f}) = Cardinality(Preceding(n, g)) - 1
    BY <2>2, <2>3, FS_RemoveElement
  <2>5. Cardinality(Preceding(n, f)) <= Cardinality(Preceding(n, g)) - 1
    BY <2>1, <2>4, FS_Subset
  <2>6. Cardinality(Preceding(n, f)) \in Nat
    BY <1>3
  <2> QED
    BY <2>3, <2>5, <2>6
<1> HIDE DEF c
<1>5. rank \in [All -> 0..(c - 1)]
  BY <1>3
<1>6. ASSUME NEW f \in All, NEW g \in All, f # g PROVE rank[f] # rank[g]
  <2>1. Before(n, f, g) \/ Before(n, g, f)
    BY <1>6, OneIsBefore
  <2>2. rank[f] = Cardinality(Preceding(n, f)) /\ rank[g] = Cardinality(Preceding(n, g))
    OBVIOUS
  <2>3. rank[f] \in Int /\ rank[g] \in Int
    BY <1>5
  <2>4. CASE Before(n, f, g)
    BY <1>4, <2>2, <2>3, <2>4
  <2>5. CASE Before(n, g, f)
    BY <1>4, <2>2, <2>3, <2>5
  <2> QED
    BY <2>1, <2>4, <2>5
<1> HIDE DEF rank
<1>7. rank \in Injection(All, 0..(c - 1))
  BY <1>5, <1>6 DEF Injection, IsInjective
<1>8. IsFiniteSet(0..(c - 1)) /\ Cardinality(0..(c - 1)) = c
  <2>1. 0 \in Int /\ c - 1 \in Int /\ ~(0 > c - 1) /\ (c - 1) - 0 + 1 = c
    BY <1>1
  <2> QED
    BY <2>1, FS_Interval
<1>9. rank \in Surjection(All, 0..(c - 1))
  BY <1>7, <1>8, FS_Injection DEF c
<1>10. PICK f \in All : rank[f] = r
  BY <1>9 DEF Surjection, c
<1> QED
  BY <1>10 DEF rank

\* A coordinate chooses one of so many.
LEMMA ChosenIsOneOf ==
    ASSUME NEW c \in Nat \ {0}, NEW k \in 0..N
    PROVE  Chosen(c, k) \in 0..(c - 1)
<1> DEFINE m == c - 1
           x == 2 * k * m + N
           d == 2 * N
<1>1. N \in Nat /\ N > 0 /\ m \in Nat /\ k \in Nat /\ k <= N /\ d \in Nat /\ d > 0
  BY NAssumption
<1>2. k * m \in Nat /\ N * m \in Nat /\ k * m <= N * m
  <2>1. 0 <= (N - k) * m /\ (N - k) * m = N * m - k * m
    BY <1>1
  <2> QED
    BY <1>1, <2>1
<1>3. x = 2 * (k * m) + N /\ x \in Nat
  BY <1>1, <1>2
<1>4. x < 2 * (N * m) + 2 * N
  BY <1>1, <1>2, <1>3
<1>5. 2 * (N * m) + 2 * N = d * c
  BY <1>1
<1>6. x \div d \in Int /\ x = d * (x \div d) + (x % d) /\ x % d \in 0..(d - 1)
  <2> HIDE DEF x, d
  <2> QED
    BY <1>1, <1>3
<1> DEFINE q == x \div d
           z == x % d
<1>7. q \in Int /\ z \in Int /\ 0 <= z /\ z < d /\ x = d * q + z
  BY <1>1, <1>6
<1>8. Chosen(c, k) = q
  BY DEF Chosen
<1> HIDE DEF x, d, q, z, m
<1>9. q < c
  <2>1. d * q < d * c
    BY <1>1, <1>3, <1>4, <1>5, <1>7
  <2> QED
    BY <1>1, <1>7, <2>1
<1>10. q >= 0
  <2> SUFFICES ASSUME q < 0 PROVE FALSE
    BY <1>7
  <2>1. d * q <= -d
    BY <1>1, <1>7
  <2> QED
    BY <1>1, <1>3, <1>7, <2>1
<1> QED
  BY <1>7, <1>8, <1>9, <1>10

\* The permutation a coordinate chooses is one.
LEMMA PermutatorPermutes ==
    ASSUME NEW inputs, NEW n \in Nat, n = Len(inputs), DOMAIN inputs = 1..n, NEW k \in 0..N
    PROVE  Permuted(Permutator(inputs, k), inputs)
<1> DEFINE Is(g) == Cardinality(Preceding(n, g)) = Chosen(Cardinality(Orders(n)), k)
           f == CHOOSE g \in Orders(n) : Is(g)
<1>1. \E g \in Orders(n) : Is(g)
  BY OrdersAreCounted, OrdersAreNumbered, ChosenIsOneOf
<1>2. Permutator(inputs, k) = [i \in 1..n |-> inputs[f[i]]]
  BY DEF Permutator
<1> HIDE DEF Is
<1>3. f \in Orders(n)
  BY <1>1
<1> HIDE DEF f
<1>4. f \in Injection(1..n, 1..n)
  BY <1>3 DEF Injection, IsInjective, Orders
<1>5. IsFiniteSet(1..n)
  <2>1. 1 \in Int /\ n \in Int
    OBVIOUS
  <2> QED
    BY <2>1, FS_Interval
<1>6. f \in Surjection(1..n, 1..n)
  BY <1>4, <1>5, FS_Injection
<1>7. f \in [1..n -> 1..n] /\ {f[i] : i \in 1..n} = 1..n
  BY <1>6 DEF Surjection
<1>8. /\ DOMAIN Permutator(inputs, k) = 1..n
      /\ \A i \in 1..n : Permutator(inputs, k)[i] = inputs[f[i]]
  BY <1>2
<1> QED
  BY <1>7, <1>8 DEF Permuted

\* What a generator that is not a Permutator should give for a coordinate.
Stays(g, k) ==
    LET x == Draw(g, k)  s == Support(g)
    IN  /\ s[1] * N <= x.value /\ x.value <= s[2] * N
        /\ x.jacobian > 0 /\ x.jacobian <= s[2] - s[1]
        /\ Massless(g) => x.jacobian = s[2] - s[1]
        /\ IsTransferFunction(g) /\ 0 < k /\ k < N => Evaluator(g, x.value) = x.density

\* An interval inside another one, and the changes of variable to them.
LEMMA SmallerInterval ==
    ASSUME NEW a \in Int, NEW b \in Int, a <= b
    PROVE  a * N <= b * N
<1>1. N \in Int /\ N > 0 /\ a * N \in Int /\ b * N \in Int
  BY NAssumption
<1>2. 0 <= (b - a) * N /\ (b - a) * N = b * N - a * N
  BY <1>1
<1> QED
  BY <1>1, <1>2

LEMMA FlatStays ==
    ASSUME NEW g, IsGenerator(g), Usable(g), NEW k \in 0..N,
           g.module \in {"FlatTransferFunctionOnTheta", "FlatTransferFunctionOnPhi", "FlatTransferFunctionOnP",
                         "UniformGenerator", "BreitWignerGenerator"}
    PROVE  Stays(g, k)
<1> DEFINE s == Support(g)
<1>1. /\ s[1] \in Int /\ s[2] \in Int /\ s[1] < s[2]
      /\ Draw(g, k) = Stretched(s[1], s[2], k)
      /\ ~IsTransferFunction(g)
  <2>1. CASE g.module = "FlatTransferFunctionOnTheta"
    BY <2>1 DEF Support, Draw, FlatOnTheta, IsTransferFunction
  <2>2. CASE g.module = "FlatTransferFunctionOnPhi"
    BY <2>2 DEF Support, Draw, FlatOnPhi, IsTransferFunction
  <2>3. CASE g.module = "FlatTransferFunctionOnP"
    BY <2>3 DEF Support, Draw, FlatOnP, IsTransferFunction, IsGenerator, Usable
  <2>4. CASE g.module = "UniformGenerator"
    BY <2>4 DEF Support, Draw, UniformGenerator, IsTransferFunction, IsGenerator, Usable
  <2>5. CASE g.module = "BreitWignerGenerator"
    BY <2>5 DEF Support, Draw, BreitWignerGenerator, IsTransferFunction, IsGenerator, Usable
  <2> QED
    BY <2>1, <2>2, <2>3, <2>4, <2>5
<1> HIDE DEF s
<1> QED
  BY <1>1, StretchedStaysInside DEF Stays, s

LEMMA GaussianStays ==
    ASSUME NEW g, IsGenerator(g), Usable(g), NEW k \in 0..N,
           g.module \in {"GaussianTransferFunctionOnEnergy", "GaussianTransferFunctionOnPt"}
    PROVE  Stays(g, k)
<1> DEFINE s == Support(g)
           x == Stretched(s[1], s[2], k)
<1>1. /\ s[1] \in Int /\ s[2] \in Int /\ s[1] < s[2]
      /\ Draw(g, k) = WithDensity(x, Normal(x.value, x.value, g.rec))
      /\ Evaluator(g, x.value) = Normal(x.value, x.value, g.rec)
  <2>1. CASE g.module = "GaussianTransferFunctionOnEnergy"
    <3>1. /\ s = <<LargerOf(LargerOf(g.min, g.mass), g.rec - g.width), g.rec + g.width>>
          /\ Draw(g, k) = GaussianOnEnergy(g.rec, g.mass, g.width, g.min, k)
          /\ Evaluator(g, x.value) = GaussianOnEnergyEvaluator(g.rec, x.value)
      BY <2>1 DEF Support, Draw, Evaluator
    <3>2. g.rec \in Int /\ g.mass \in Int /\ g.min \in Int /\ g.width \in Int
      BY <2>1 DEF IsGenerator
    <3>3. s[1] < s[2]
      BY <2>1 DEF Usable
    <3> QED
      BY <3>1, <3>2, <3>3 DEF GaussianOnEnergy, GaussianOnEnergyEvaluator, LargerOf
  <2>2. CASE g.module = "GaussianTransferFunctionOnPt"
    <3>1. /\ s = <<LargerOf(g.min, g.rec - g.width), g.rec + g.width>>
          /\ Draw(g, k) = GaussianOnPt(g.rec, g.width, g.min, k)
          /\ Evaluator(g, x.value) = GaussianOnPtEvaluator(g.rec, x.value)
      BY <2>2 DEF Support, Draw, Evaluator
    <3>2. g.rec \in Int /\ g.min \in Int /\ g.width \in Int
      BY <2>2 DEF IsGenerator
    <3>3. s[1] < s[2]
      BY <2>2 DEF Usable
    <3> QED
      BY <3>1, <3>2, <3>3 DEF GaussianOnPt, GaussianOnPtEvaluator, LargerOf
  <2> QED
    BY <2>1, <2>2
<1>2. Massless(g)
  BY DEF Massless
<1> HIDE DEF s, x
<1>3. /\ s[1] * N <= x.value /\ x.value <= s[2] * N /\ x.jacobian = s[2] - s[1]
  BY <1>1, StretchedStaysInside DEF x
<1>4. /\ Draw(g, k).value = x.value /\ Draw(g, k).jacobian = x.jacobian
      /\ Draw(g, k).density = Evaluator(g, x.value)
  BY <1>1 DEF WithDensity
<1> QED
  BY <1>1, <1>3, <1>4 DEF Stays, s

\* The two binned functions read the bin of what they draw, and so does the
\* evaluator, strictly inside the range of the histogram.
LEMMA BinnedStays ==
    ASSUME NEW g, IsGenerator(g), Usable(g), NEW k \in 0..N,
           g.module \in {"BinnedTransferFunctionOnEnergy", "BinnedTransferFunctionOnPt"}
    PROVE  Stays(g, k)
<1> DEFINE s == Support(g)
           low == LargerOf(g.h.genAxis, g.min)
           base == [g.h EXCEPT !.genMin = low]
           top == IF g.module = "BinnedTransferFunctionOnEnergy" THEN DeltaMaxOnEnergy(base, g.rec, g.mass)
                  ELSE DeltaMaxOnPt(base, g.rec)
           from == g.rec - top
           x == Stretched(from, s[2], k)
<1>1. /\ g.rec \in Nat \ {0} /\ g.mass \in Nat /\ g.min \in Nat
      /\ g.h \in [{"genAxis", "genMin", "genMax", "deltaMin", "deltaMax"} -> Int]
  BY DEF IsGenerator
<1>2. /\ g.h.genAxis \in Int /\ g.h.deltaMin \in Int /\ g.h.deltaMax \in Int
      /\ low \in Nat
  BY <1>1 DEF LargerOf
<1>3. /\ base.genMin = low /\ base.genAxis = g.h.genAxis /\ base.genMax = g.h.genMax
      /\ base.deltaMin = g.h.deltaMin /\ base.deltaMax = g.h.deltaMax
  <2> HIDE DEF low
  <2> QED
    BY <1>1
<1>4. s = <<LargerOf(low, g.rec - g.h.deltaMax), g.rec - g.h.deltaMin>>
  BY DEF Support
<1>5. /\ s[1] \in Int /\ s[2] \in Int /\ s[1] < s[2] /\ g.rec - g.h.deltaMax <= s[1] /\ low <= s[1]
      /\ s[2] = g.rec - g.h.deltaMin
      /\ s[1] = low \/ s[1] = g.rec - g.h.deltaMax
  <2> HIDE DEF s, low
  <2>1. s[1] = LargerOf(low, g.rec - g.h.deltaMax) /\ s[2] = g.rec - g.h.deltaMin
    BY <1>4
  <2>2. s[1] < s[2]
    BY DEF Usable, s
  <2> QED
    BY <1>1, <1>2, <2>1, <2>2 DEF LargerOf
<1>6. /\ Draw(g, k) = WithDensity(x, Content(base, g.rec, x.value))
      /\ Evaluator(g, x.value) = IF Inside(base, g.rec, x.value) THEN Content(base, g.rec, x.value) ELSE Nothing
  <2>1. CASE g.module = "BinnedTransferFunctionOnEnergy"
    <3>1. /\ Draw(g, k) = BinnedOnEnergy(base, g.rec, g.mass, k)
          /\ Evaluator(g, x.value) = BinnedOnEnergyEvaluator(base, g.rec, x.value)
          /\ top = DeltaMaxOnEnergy(base, g.rec, g.mass)
      BY <2>1 DEF Draw, Evaluator, BinnedOnEnergyBase
    <3> HIDE DEF base, top, s
    <3> QED
      BY <1>3, <1>5, <3>1 DEF BinnedOnEnergy, BinnedOnEnergyEvaluator
  <2>2. CASE g.module = "BinnedTransferFunctionOnPt"
    <3>1. /\ Draw(g, k) = BinnedOnPt(base, g.rec, k)
          /\ Evaluator(g, x.value) = BinnedOnPtEvaluator(base, g.rec, x.value)
          /\ top = DeltaMaxOnPt(base, g.rec)
      BY <2>2 DEF Draw, Evaluator, BinnedOnPtBase
    <3> HIDE DEF base, top, s
    <3> QED
      BY <1>3, <1>5, <3>1 DEF BinnedOnPt, BinnedOnPtEvaluator
  <2> QED
    BY <2>1, <2>2
<1>7. /\ from \in Int /\ s[1] <= from /\ from < s[2]
      /\ Massless(g) => from = s[1]
  <2> HIDE DEF s, base
  <2>1. CASE g.module = "BinnedTransferFunctionOnEnergy"
    <3>1. /\ g.mass < s[2] - s[1]
          /\ g.rec <= g.mass \/ g.h.deltaMax <= g.mass => s[1] <= g.rec
      BY <2>1 DEF Usable, s
    <3>2. s[1] = LargerOf(low, g.rec - g.h.deltaMax)
      BY <1>4
    <3>3. top = IF g.rec <= g.mass \/ g.h.deltaMax <= g.mass THEN 0
                ELSE SmallerOf(g.h.deltaMax, g.rec - low) - g.mass
      BY <1>3, <2>1 DEF DeltaMaxOnEnergy
    <3>4. Massless(g) => g.mass = 0
      BY <2>1 DEF Massless
    <3> HIDE DEF low, top
    <3>5. CASE g.rec <= g.mass \/ g.h.deltaMax <= g.mass
      <4>1. from = g.rec /\ s[1] <= g.rec
        BY <1>1, <3>1, <3>3, <3>5
      <4>2. g.mass = 0 => g.rec <= s[1]
        BY <1>1, <1>2, <1>5, <3>5
      <4>3. g.rec < s[2]
        <5>1. CASE g.rec <= g.mass
          BY <1>1, <1>2, <1>5, <3>1, <5>1, <4>1
        <5>2. CASE g.h.deltaMax <= g.mass
          BY <1>1, <1>2, <1>5, <3>1, <5>2, <4>1
        <5> QED
          BY <3>5, <5>1, <5>2
      <4> QED
        BY <1>1, <1>5, <3>4, <4>1, <4>2, <4>3
    <3>6. CASE ~(g.rec <= g.mass \/ g.h.deltaMax <= g.mass)
      <4>1. top = SmallerOf(g.h.deltaMax, g.rec - low) - g.mass
        BY <3>3, <3>6
      <4>2. from = s[1] + g.mass
        BY <1>1, <1>2, <3>2, <4>1 DEF SmallerOf, LargerOf
      <4> QED
        BY <1>1, <1>5, <3>1, <3>4, <4>2
    <3> QED
      BY <3>5, <3>6
  <2>2. CASE g.module = "BinnedTransferFunctionOnPt"
    <3>1. s[1] = LargerOf(low, g.rec - g.h.deltaMax)
      BY <1>4
    <3>2. top = SmallerOf(g.h.deltaMax, g.rec - low)
      BY <1>3, <2>2 DEF DeltaMaxOnPt
    <3> HIDE DEF low, top
    <3>3. from = s[1]
      BY <1>1, <1>2, <3>1, <3>2 DEF SmallerOf, LargerOf
    <3> QED
      BY <1>5, <3>3
  <2> QED
    BY <2>1, <2>2
<1> HIDE DEF s, base, from, x
<1>8. /\ x.value \in Int /\ from * N <= x.value /\ x.value <= s[2] * N /\ x.jacobian = s[2] - from
      /\ 0 < k /\ k < N => from * N < x.value /\ x.value < s[2] * N
  BY <1>5, <1>7, StretchedStaysInside DEF x
<1>9. s[1] * N <= from * N /\ s[1] * N \in Int /\ from * N \in Int
  BY <1>5, <1>7, SmallerInterval, NAssumption
<1>10. 0 < k /\ k < N => Inside(base, g.rec, x.value)
  <2> SUFFICES ASSUME 0 < k, k < N PROVE Inside(base, g.rec, x.value)
    OBVIOUS
  <2>1. (g.rec - g.h.deltaMax) * N <= s[1] * N
    BY <1>1, <1>2, <1>5, SmallerInterval
  <2>2. /\ (g.rec - g.h.deltaMax) * N = g.rec * N - g.h.deltaMax * N
        /\ s[2] * N = g.rec * N - g.h.deltaMin * N
        /\ g.rec * N \in Int /\ g.h.deltaMax * N \in Int /\ g.h.deltaMin * N \in Int
    BY <1>1, <1>2, <1>5, NAssumption
  <2>3. from * N < x.value /\ x.value < s[2] * N
    BY <1>8
  <2> QED
    BY <1>3, <1>8, <1>9, <2>1, <2>2, <2>3 DEF Inside
<1>11. /\ Draw(g, k).value = x.value /\ Draw(g, k).jacobian = x.jacobian
       /\ Draw(g, k).density = Content(base, g.rec, x.value)
  BY <1>6 DEF WithDensity
<1> QED
  BY <1>5, <1>6, <1>7, <1>8, <1>9, <1>10, <1>11 DEF Stays, s

-----------------------------------------------------------------------------
(* The solutions of a point                                                  *)

\* The energies of a candidate that are not negative have a sum that is not.
LEMMA EnergiesAddUp ==
    ASSUME NEW c, c.e \in Seq(Nat)
    PROVE  TotalEnergy(c) \in Nat
<1> DEFINE n == Len(c.e)
           Eq(f) == f = [i \in 0..n |-> IF i = 0 THEN 0 ELSE f[i - 1] + c.e[i]]
           upTo == CHOOSE f : Eq(f)
           step == [i \in 1..n |-> [x \in Nat |-> x + c.e[i]]]
<1>1. n \in Nat /\ \A i \in 1..n : c.e[i] \in Nat
  OBVIOUS
<1>2. TotalEnergy(c) = upTo[n]
  BY DEF TotalEnergy
<1> HIDE DEF n
<1>3. step \in [1..n -> [Nat -> Nat]]
  BY <1>1
<1>4. PICK f \in [0..n -> Nat] : f[0] = 0 /\ \A i \in 1..n : f[i] = step[i][f[i - 1]]
  <2> DEFINE T == Nat
  <2>1. step \in [1..n -> [T -> T]] /\ 0 \in T
    BY <1>3
  <2> HIDE DEF step, T
  <2>2. \E f \in [0..n -> T] : GoesThrough(f, n, 0, step)
    BY <1>1, <2>1, Iterated
  <2> QED
    BY <2>2 DEF T, GoesThrough
<1>5. Eq(f)
  <2>1. ASSUME NEW i \in 0..n PROVE f[i] = IF i = 0 THEN 0 ELSE f[i - 1] + c.e[i]
    <3>1. CASE i # 0
      <4>1. i \in 1..n /\ i - 1 \in 0..n /\ f[i - 1] \in Nat
        BY <3>1, <1>1
      <4> QED
        BY <1>4, <3>1, <4>1
    <3> QED
      BY <1>4, <3>1
  <2>2. f = [i \in 0..n |-> f[i]]
    OBVIOUS
  <2> QED
    BY <2>1, <2>2
<1>6. Eq(upTo)
  <2> HIDE DEF Eq
  <2> QED
    BY <1>5
<1> HIDE DEF upTo
<1>7. \A i \in 0..n : upTo[i] = IF i = 0 THEN 0 ELSE upTo[i - 1] + c.e[i]
  <2> DEFINE h == [i \in 0..n |-> IF i = 0 THEN 0 ELSE upTo[i - 1] + c.e[i]]
  <2>1. upTo = h
    BY <1>6
  <2>2. \A i \in 0..n : h[i] = IF i = 0 THEN 0 ELSE upTo[i - 1] + c.e[i]
    OBVIOUS
  <2> HIDE DEF h
  <2> QED
    BY <2>1, <2>2
<1> DEFINE Good == {i \in 0..n : upTo[i] \in Nat}
<1>8. 0 \in Good
  BY <1>1, <1>7
<1>9. ASSUME NEW k \in 0..(n - 1), k \in Good PROVE k + 1 \in Good
  <2>1. k + 1 \in 0..n /\ k + 1 # 0 /\ (k + 1) - 1 = k /\ k + 1 \in 1..n /\ upTo[k] \in Nat
    BY <1>1, <1>9
  <2>2. upTo[k + 1] = upTo[k] + c.e[k + 1]
    BY <1>7, <2>1
  <2>3. c.e[k + 1] \in Nat
    BY <1>1, <2>1
  <2>4. upTo[k + 1] \in Nat
    BY <2>1, <2>2, <2>3
  <2> QED
    BY <2>1, <2>4
<1> HIDE DEF Good
<1>10. 0..n \subseteq Good
  BY <1>1, <1>8, <1>9, UpToFromZero
<1> USE DEF Good
<1> QED
  BY <1>1, <1>2, <1>10

\* Those of the first n candidates that pass, and that they are all in a list.
Passing(p, candidates, n) == {candidates[i] : i \in {j \in 1..n : Passes(p, candidates[j])}}
KeepsAll(p, candidates, list, n) ==
    \A i \in 1..n : Passes(p, candidates[i]) => \E j \in DOMAIN list : list[j] = candidates[i]

\* The loop keeps the candidates that pass the tests.
LEMMA KeptAre ==
    ASSUME NEW p, NEW candidates, NEW n \in Nat, n = Len(candidates)
    PROVE  /\ Kept(p, candidates) \in Seq(Passing(p, candidates, n))
           /\ KeepsAll(p, candidates, Kept(p, candidates), n)
<1> DEFINE C == {candidates[i] : i \in {j \in 1..n : Passes(p, candidates[j])}}
           one == [i \in 1..n |-> IF Passes(p, candidates[i]) THEN <<candidates[i]>> ELSE <<>>]
           Eq(f) == f = [i \in 0..n |-> IF i = 0 THEN <<>>
                            ELSE f[i - 1] \o (IF Passes(p, candidates[i]) THEN <<candidates[i]>> ELSE <<>>)]
           upTo == CHOOSE f : Eq(f)
           step == [i \in 1..n |-> [x \in Seq(C) |-> x \o one[i]]]
<1>2. Kept(p, candidates) = upTo[n]
  BY DEF Kept
<1>1. one \in [1..n -> Seq(C)]
  <2>1. ASSUME NEW i \in 1..n PROVE one[i] \in Seq(C)
    <3>1. CASE Passes(p, candidates[i])
      <4>1. candidates[i] \in C /\ one[i] = <<candidates[i]>>
        BY <3>1
      <4> HIDE DEF C, one
      <4> QED
        BY <4>1
    <3>2. CASE ~Passes(p, candidates[i])
      <4>1. one[i] = <<>>
        BY <3>2
      <4> HIDE DEF C, one
      <4> QED
        BY <4>1
    <3> QED
      BY <3>1, <3>2
  <2> HIDE DEF C
  <2> QED
    BY <2>1
<1> HIDE DEF C
<1>3. step \in [1..n -> [Seq(C) -> Seq(C)]]
  <2> HIDE DEF one
  <2> QED
    BY <1>1
<1>4. PICK f \in [0..n -> Seq(C)] : f[0] = <<>> /\ \A i \in 1..n : f[i] = step[i][f[i - 1]]
  <2> DEFINE T == Seq(C)
  <2>1. step \in [1..n -> [T -> T]] /\ <<>> \in T
    BY <1>3
  <2> HIDE DEF step, T
  <2>2. \E f \in [0..n -> T] : GoesThrough(f, n, <<>>, step)
    BY <2>1, Iterated
  <2> QED
    BY <2>2 DEF T, GoesThrough
<1>5. Eq(f)
  <2>1. ASSUME NEW i \in 0..n
        PROVE  f[i] = IF i = 0 THEN <<>>
                      ELSE f[i - 1] \o (IF Passes(p, candidates[i]) THEN <<candidates[i]>> ELSE <<>>)
    <3>1. CASE i # 0
      <4>1. i \in 1..n /\ i - 1 \in 0..n /\ f[i - 1] \in Seq(C)
        <5>1. i \in 1..n /\ i - 1 \in 0..n
          <6> HIDE DEF one, Eq, step
          <6> QED
            BY <3>1
        <5>2. f[i - 1] \in Seq(C)
          <6> HIDE DEF one, Eq, step
          <6> QED
            BY <5>1
        <5> QED
          BY <5>1, <5>2
      <4>2. f[i] = f[i - 1] \o one[i]
        <5> HIDE DEF one
        <5> QED
          BY <1>4, <4>1
      <4>3. one[i] = IF Passes(p, candidates[i]) THEN <<candidates[i]>> ELSE <<>>
        BY <4>1
      <4> HIDE DEF one
      <4> QED
        BY <3>1, <4>2, <4>3
    <3> QED
      BY <1>4, <3>1
  <2>2. f = [i \in 0..n |-> f[i]]
    OBVIOUS
  <2> QED
    BY <2>1, <2>2
<1>6. Eq(upTo)
  <2> HIDE DEF Eq
  <2> QED
    BY <1>5
<1> HIDE DEF upTo
<1>7. \A i \in 0..n : upTo[i] = IF i = 0 THEN <<>>
                         ELSE upTo[i - 1] \o (IF Passes(p, candidates[i]) THEN <<candidates[i]>> ELSE <<>>)
  <2> DEFINE h == [i \in 0..n |-> IF i = 0 THEN <<>>
                      ELSE upTo[i - 1] \o (IF Passes(p, candidates[i]) THEN <<candidates[i]>> ELSE <<>>)]
  <2>1. upTo = h
    BY <1>6
  <2>2. \A i \in 0..n : h[i] = IF i = 0 THEN <<>>
                         ELSE upTo[i - 1] \o (IF Passes(p, candidates[i]) THEN <<candidates[i]>> ELSE <<>>)
    OBVIOUS
  <2> HIDE DEF h
  <2> QED
    BY <2>1, <2>2
<1> DEFINE HasAll(k) == \A i \in 1..k : Passes(p, candidates[i]) =>
                           \E j \in DOMAIN upTo[k] : upTo[k][j] = candidates[i]
           Good == {i \in 0..n : upTo[i] \in Seq(C) /\ HasAll(i)}
<1>8. 0 \in Good
  <2>1. 0 \in 0..n /\ 1..0 = {}
    OBVIOUS
  <2>2. upTo[0] = <<>>
    BY <1>7, <2>1
  <2>3. upTo[0] \in Seq(C)
    BY <2>2
  <2> QED
    BY <2>1, <2>3
<1>9. ASSUME NEW k \in 0..(n - 1), k \in Good PROVE k + 1 \in Good
  <2>1. k + 1 \in 0..n /\ k + 1 # 0 /\ (k + 1) - 1 = k /\ k + 1 \in 1..n /\ upTo[k] \in Seq(C)
    BY <1>9
  <2>2. upTo[k + 1] = upTo[k] \o (IF Passes(p, candidates[k + 1]) THEN <<candidates[k + 1]>> ELSE <<>>)
    BY <1>7, <2>1
  <2>3. one[k + 1] = IF Passes(p, candidates[k + 1]) THEN <<candidates[k + 1]>> ELSE <<>>
    BY <2>1
  <2> HIDE DEF one
  <2>4. one[k + 1] \in Seq(C)
    BY <1>1, <2>1
  <2>5. upTo[k + 1] = upTo[k] \o one[k + 1]
    BY <2>2, <2>3
  <2>6. upTo[k + 1] \in Seq(C)
    BY <2>1, <2>4, <2>5
  <2>7. HasAll(k + 1)
    <3> SUFFICES ASSUME NEW i \in 1..(k + 1), Passes(p, candidates[i])
                 PROVE  \E j \in DOMAIN upTo[k + 1] : upTo[k + 1][j] = candidates[i]
      OBVIOUS
    <3>1. CASE i # k + 1
      <4>1. i \in 1..k
        BY <2>1, <3>1
      <4>2. PICK j \in DOMAIN upTo[k] : upTo[k][j] = candidates[i]
        BY <1>9, <4>1
      <4> DEFINE u == upTo[k]  v == one[k + 1]
      <4>3. u \in Seq(C) /\ v \in Seq(C) /\ j \in DOMAIN u
        BY <2>1, <2>4, <4>2
      <4> HIDE DEF u, v
      <4>4. j \in DOMAIN (u \o v) /\ (u \o v)[j] = u[j]
        BY <4>3
      <4>5. j \in DOMAIN upTo[k + 1] /\ upTo[k + 1][j] = upTo[k][j]
        BY <2>5, <4>4 DEF u, v
      <4> QED  BY <4>2, <4>5
    <3>2. CASE i = k + 1
      <4> DEFINE x == candidates[k + 1]
      <4>1. one[k + 1] = <<x>>
        BY <2>3, <3>2
      <4> HIDE DEF x
      <4>2. upTo[k + 1] = upTo[k] \o <<x>> /\ x \in C
        BY <2>1, <2>4, <2>5, <4>1
      <4>3. /\ Len(upTo[k]) + 1 \in DOMAIN upTo[k + 1]
            /\ upTo[k + 1][Len(upTo[k]) + 1] = x
        BY <2>1, <4>2
      <4> QED  BY <3>2, <4>3 DEF x
    <3> QED  BY <3>1, <3>2
  <2> QED
    BY <2>1, <2>6, <2>7
<1> HIDE DEF Good
<1>10. 0..n \subseteq Good
  BY <1>8, <1>9, UpToFromZero
<1> USE DEF Good
<1>11. upTo[n] \in Seq(C) /\ HasAll(n)
  BY <1>10
<1> QED
  BY <1>2, <1>11 DEF C, KeepsAll, Passing

LEMMA KeptPass ==
    ASSUME NEW p, NEW candidates, NEW n \in Nat, n = Len(candidates)
    PROVE  Kept(p, candidates) \in Seq(Passing(p, candidates, n))
BY KeptAre

LEMMA KeptIsWhole ==
    ASSUME NEW p, NEW candidates, NEW n \in Nat, n = Len(candidates)
    PROVE  KeepsAll(p, candidates, Kept(p, candidates), n)
BY KeptAre

\* A candidate that passes the tests of a block is a number, and no energy of
\* it is negative.
LEMMA PassingIsNotNegative ==
    ASSUME NEW p, p.block \in Blocks, p.block = "SecondaryBlockB" => p.m1 \in Nat,
           NEW c, c.e \in Seq(Int), p.block = "SecondaryBlockB" /\ c.finite => Len(c.e) = 2,
           Passes(p, c)
    PROVE  c.finite /\ c.e \in Seq(Nat)
<1>1. Confirmed(c)
  BY DEF Blocks, Passes, BlockATests, BlockBTests, BlockCTests, BlockDTests, BlockETests, BlockFTests, BlockGTests,
         SecondaryBlockATests, SecondaryBlockBTests, SecondaryBlockCDTests, SecondaryBlockETests
<1>2. c.finite
  BY <1>1 DEF Confirmed
<1>3. CASE p.block # "SecondaryBlockB"
  <2>1. Positive(c) \/ NotNegative(c)
    BY <1>3 DEF Blocks, Passes, BlockATests, BlockBTests, BlockCTests, BlockDTests, BlockETests, BlockFTests,
         BlockGTests, SecondaryBlockATests, SecondaryBlockCDTests, SecondaryBlockETests
  <2>2. \A i \in DOMAIN c.e : c.e[i] >= 0
    BY <1>2, <2>1 DEF Positive, NotNegative
  <2> QED
    BY <1>2, <2>2
<1>4. CASE p.block = "SecondaryBlockB"
  <2>1. SecondaryBlockBTests(p, c)
    BY <1>4 DEF Passes
  <2>2. c.e[1] > p.m1 /\ c.e[2] >= 0 /\ Len(c.e) = 2
    BY <1>2, <1>4, <2>1 DEF SecondaryBlockBTests
  <2>3. \A i \in 1..2 : c.e[i] \in Nat
    BY <1>4, <2>2
  <2>4. \A i \in 1..Len(c.e) : c.e[i] \in Nat
    BY <2>2, <2>3
  <2> QED
    BY <1>2, <2>4
<1> QED
  BY <1>3, <1>4

\* What work() leaves in `solutions'.
LEMMA EmissionsAreNotNegative ==
    ASSUME NEW p, IsPoint(p), NEW list \in Emissions(p)
    PROVE  \E S : list \in Seq(S) /\ \A c \in S : c.e \in Seq(Nat)
<1>1. /\ p.block \in Blocks /\ p.unphysical \in BOOLEAN /\ p.degenerate \in BOOLEAN
      /\ p.block = "SecondaryBlockB" => p.m1 \in Nat
  BY DEF IsPoint
<1>2. ASSUME NEW candidates, NEW n \in Nat, n = Len(candidates), list = Kept(p, candidates),
             \A i \in 1..n : /\ candidates[i].e \in Seq(Int)
                             /\ p.block = "SecondaryBlockB" /\ candidates[i].finite => Len(candidates[i].e) = 2
      PROVE  \E S : list \in Seq(S) /\ \A c \in S : c.e \in Seq(Nat)
  <2> DEFINE S == Passing(p, candidates, n)
  <2>1. list \in Seq(S)
    BY <1>2, KeptPass
  <2>2. ASSUME NEW j \in 1..n, Passes(p, candidates[j]) PROVE candidates[j].e \in Seq(Nat)
    BY <1>1, <1>2, <2>2, PassingIsNotNegative
  <2>3. \A c \in S : c.e \in Seq(Nat)
    BY <2>2 DEF Passing
  <2> QED
    BY <2>1, <2>3
<1>3. CASE p.unphysical
  <2>1. list = <<>>
    BY <1>3 DEF Emissions
  <2>2. list \in Seq({})
    BY <2>1
  <2> QED
    BY <2>2
<1>4. CASE ~p.unphysical /\ p.degenerate
  <2>1. NaN.e = <<>> /\ NaN.finite = FALSE
    BY DEF NaN
  <2>2. NaN.e \in Seq(Int)
    BY <2>1
  <2>3. PICK candidates \in {<<>>, <<NaN>>, <<NaN, NaN>>} : list = Kept(p, candidates)
    BY <1>4 DEF Emissions
  <2> HIDE DEF NaN
  <2>4. Len(candidates) \in Nat /\ \A i \in 1..Len(candidates) : candidates[i] = NaN
    <3>1. CASE candidates = <<>>
      BY <3>1
    <3>2. CASE candidates = <<NaN>>
      BY <3>2
    <3>3. CASE candidates = <<NaN, NaN>>
      <4>1. Len(candidates) = 2
        BY <3>3
      <4>2. \A i \in 1..2 : candidates[i] = NaN
        BY <3>3
      <4> QED
        BY <4>1, <4>2
    <3> QED
      BY <2>3, <3>1, <3>2, <3>3
  <2> QED
    BY <1>2, <2>1, <2>2, <2>3, <2>4
<1>5. CASE ~p.unphysical /\ ~p.degenerate
  <2> DEFINE candidates == Solve(p)
  <2>1. /\ Len(candidates) \in Nat /\ DOMAIN candidates = 1..Len(candidates)
        /\ \A i \in DOMAIN candidates : candidates[i].e \in Seq(Int)
    BY <1>5 DEF IsPoint
  <2>2. list = Kept(p, candidates)
    BY <1>5 DEF Emissions
  <2>3. ASSUME p.block = "SecondaryBlockB", NEW i \in 1..Len(candidates)
        PROVE  Len(candidates[i].e) = 2
    <3> DEFINE roots == Quadratic(p.a, p.b, p.c)
               cand == [j \in DOMAIN roots |->
                          Finite(<<roots[j], p.slope * roots[j] + p.offset>>, Parabola(p, roots[j]) = 0)]
    <3>1. candidates = cand
      BY <2>3, Zenon DEF Solve, SecondaryBlockB, FromRoots
    <3> HIDE DEF roots
    <3>2. cand[i].e = <<roots[i], p.slope * roots[i] + p.offset>>
      BY <2>1, <2>3, <3>1 DEF Finite
    <3>3. \A x, y : Len(<<x, y>>) = 2
      OBVIOUS
    <3> HIDE DEF candidates, cand
    <3> QED
      BY <3>1, <3>2, <3>3
  <2> HIDE DEF candidates
  <2> QED
    BY <1>2, <2>1, <2>2, <2>3
<1> QED
  BY <1>1, <1>3, <1>4, <1>5

-----------------------------------------------------------------------------
(* What the solvers find                                                     *)

\* A quotient that is exact is taken exactly, whatever the signs.
LEMMA ExactQuotient ==
    ASSUME NEW y \in Int, y # 0, NEW z \in Int
    PROVE  Div(y * z, y) = z
<1>1. ASSUME NEW u \in Int, u > 0 PROVE (u * z) \div u = z
  <2> DEFINE d == (u * z) \div u
             r == (u * z) % u
  <2>1. d \in Int /\ r \in 0..(u - 1) /\ u * z = u * d + r
    BY <1>1, SMTT(30)
  <2> HIDE DEF d, r
  <2>2. u * (z - d) = r
    BY <1>1, <2>1, SMTT(30)
  <2>3. z - d \in Int
    BY <2>1
  <2>4. \A t \in Int : t >= 1 => u * t >= u
    BY <1>1, SMTT(30)
  <2>5. \A t \in Int : t <= -1 => u * t <= -u
    BY <1>1, SMTT(30)
  <2>6. ~(z - d >= 1) /\ ~(z - d <= -1)
    BY <1>1, <2>1, <2>2, <2>3, <2>4, <2>5
  <2>7. d = z
    BY <2>1, <2>6
  <2> QED  BY <2>7 DEF d
<1>2. CASE y > 0
  BY <1>1, <1>2 DEF Div
<1>3. CASE y < 0
  <2>1. -(y * z) = (-y) * z /\ -y > 0 /\ -y \in Int
    BY <1>3, SMTT(30)
  <2>2. ((-y) * z) \div (-y) = z
    BY <1>1, <2>1
  <2> QED  BY <1>3, <2>1, <2>2 DEF Div
<1> QED  BY <1>2, <1>3

\* The square root is a number, and the largest that fits.
LEMMA SquareRootIsNumber ==
    ASSUME NEW n \in Nat
    PROVE  /\ SquareRoot(n) \in 0..n
           /\ SQ(SquareRoot(n)) <= n /\ n < SQ(SquareRoot(n) + 1)
<1> DEFINE Beyond == {k \in Nat : n < SQ(k + 1)}
<1>1. n \in Beyond
  BY SMTT(30) DEF SQ
<1>2. PICK m \in Beyond : \A k \in Beyond : m <= k
  BY <1>1, LeastNatural
<1>3. m \in 0..n /\ n < SQ(m + 1)
  BY <1>1, <1>2
<1>4. SQ(m) <= n
  <2>1. CASE m = 0
    BY <2>1 DEF SQ
  <2>2. CASE m # 0
    <3>1. m - 1 \in Nat /\ m - 1 \notin Beyond /\ (m - 1) + 1 = m
      BY <1>2, <1>3, <2>2
    <3>2. ~(n < SQ(m))
      BY <3>1
    <3>3. SQ(m) \in Int
      BY <1>3 DEF SQ
    <3> QED  BY <3>2, <3>3
  <2> QED  BY <2>1, <2>2
<1>5. \E s \in 0..n : SQ(s) <= n /\ n < SQ(s + 1)
  BY <1>3, <1>4
<1> QED  BY <1>5 DEF SquareRoot

\* That of a square is exact.
LEMMA ExactSquareRoot ==
    ASSUME NEW t \in Nat
    PROVE  SquareRoot(t * t) = t
<1> DEFINE s == SquareRoot(t * t)
<1>1. t * t \in Nat
  BY SMTT(30)
<1>2. s \in Nat /\ SQ(s) <= t * t /\ t * t < SQ(s + 1)
  BY <1>1, SquareRootIsNumber
<1> HIDE DEF s
<1>3. ~(s > t)
  <2> SUFFICES ASSUME s >= t + 1 PROVE FALSE
    BY <1>2
  <2>1. s * s >= (t + 1) * (t + 1)
    BY <1>2, SMTT(30)
  <2> QED  BY <1>2, <2>1, SMTT(30) DEF SQ
<1>4. ~(s < t)
  <2> SUFFICES ASSUME t >= s + 1 PROVE FALSE
    BY <1>2
  <2>1. t * t >= (s + 1) * (s + 1)
    BY <1>2, SMTT(30)
  <2> QED  BY <1>2, <2>1, SMTT(30) DEF SQ
<1>5. s = t
  BY <1>2, <1>3, <1>4
<1> QED  BY <1>5 DEF s

IsRoot(a, b, c, x) == a * SQ(x) + b * x + c = 0

\* solveQuadratic() finds every root that is a number.
LEMMA QuadraticFindsAll ==
    ASSUME NEW a \in Int, NEW b \in Int, NEW c \in Int, a # 0 \/ b # 0,
           NEW x \in Int, IsRoot(a, b, c, x)
    PROVE  \E i \in DOMAIN Quadratic(a, b, c) : Quadratic(a, b, c)[i] = x
<1> DEFINE rho == SQ(b) - 4 * a * c
           t == 2 * a * x + b
           s == SquareRoot(rho)
           w == Sign(b) * s
           q == -(b + w) \div 2
<1>1. CASE a = 0
  <2>1. -c = b * x
    BY <1>1, SMTT(30) DEF SQ, IsRoot
  <2>2. Div(-c, b) = x
    BY <1>1, <2>1, ExactQuotient
  <2>3. Quadratic(a, b, c) = <<x>>
    BY <1>1, <2>2 DEF Quadratic
  <2> QED  BY <2>3
<1>2. CASE a # 0
  <2>1. c = -(a * (x * x) + b * x)
    BY SMTT(30) DEF SQ, IsRoot
  <2>2. rho = t * t /\ t \in Int /\ rho \in Int
    <3>1. 4 * a * c = 4 * a * (-(a * (x * x) + b * x))
      BY <2>1
    <3>2. b * b - 4 * a * (-(a * (x * x) + b * x)) = (2 * a * x + b) * (2 * a * x + b)
      BY SMTT(30)
    <3> QED  BY <3>1, <3>2 DEF SQ
  <2>3. rho >= 0 /\ (s = t \/ s = -t) /\ s \in Nat
    <3>1. CASE t >= 0
      <4> HIDE DEF t, rho
      <4>1. s = t /\ t * t >= 0
        BY <2>2, <3>1, ExactSquareRoot, SMTT(30)
      <4> QED  BY <2>2, <3>1, <4>1
    <3>2. CASE t < 0
      <4> HIDE DEF t, rho
      <4>1. -t \in Nat /\ (-t) * (-t) = t * t
        BY <2>2, <3>2, SMTT(30)
      <4>2. s = -t /\ t * t >= 0
        BY <2>2, <4>1, ExactSquareRoot, SMTT(30)
      <4> QED  BY <2>2, <3>2, <4>1, <4>2
    <3> QED  BY <2>2, <3>1, <3>2
  <2>4. CASE b = 0
    <3>1. Quadratic(a, b, c) = <<Div(s, 2 * a), -Div(s, 2 * a)>>
      BY <1>2, <2>2, <2>3, <2>4 DEF Quadratic
    <3>2. s = (2 * a) * x \/ s = (2 * a) * (-x)
      BY <2>3, <2>4, SMTT(30)
    <3>3. 2 * a \in Int /\ 2 * a # 0 /\ -x \in Int
      BY <1>2
    <3>4. Div(s, 2 * a) = x \/ Div(s, 2 * a) = -x
      BY <3>2, <3>3, ExactQuotient
    <3> QED  BY <3>1, <3>4
  <2>5. CASE b # 0
    <3>1. Quadratic(a, b, c) = <<Div(q, a), Div(c, q)>>
      <4>1. ~(rho < 0) /\ (rho >= 0)
        <5> HIDE DEF rho
        <5> QED  BY <2>2, <2>3
      <4> QED  BY <1>2, <2>5, <4>1, Zenon DEF Quadratic
    <3>8. b \in Int /\ t \in Int /\ s \in Nat /\ (s = t \/ s = -t)
      BY <2>2, <2>3
    <3> HIDE DEF s, t
    <3>2. /\ w \in Int /\ (w = t \/ w = -t)
          /\ b > 0 => w >= 0
          /\ b < 0 => w <= 0
      <4>1. CASE b > 0
        <5>1. w = s
          BY <3>8, <4>1 DEF Sign
        <5> QED  BY <3>8, <4>1, <5>1
      <4>2. CASE b < 0
        <5>1. w = -s
          BY <3>8, <4>2 DEF Sign
        <5> QED  BY <3>8, <4>2, <5>1
      <4> QED  BY <2>5, <4>1, <4>2
    <3>3. q = -((b + w) \div 2)
      OBVIOUS
    <3>7. t = 2 * (a * x) + b /\ a * x \in Int
      BY SMTT(30) DEF t
    <3> HIDE DEF w, q
    <3>6. \A k \in Int : (2 * k) \div 2 = k
      OBVIOUS
    <3>4. CASE w = -t
      <4>1. b + w = 2 * (-(a * x)) /\ -(a * x) \in Int
        BY <3>7, <3>4
      <4>2. q = a * x
        BY <3>3, <3>7, <3>6, <4>1
      <4>3. Div(q, a) = x
        BY <1>2, <4>2, ExactQuotient
      <4> QED  BY <3>1, <4>3
    <3>5. CASE w = t
      <4>1. b + w = 2 * (a * x + b) /\ a * x + b \in Int
        BY <3>7, <3>5
      <4>2. q = -(a * x + b)
        BY <3>3, <3>6, <4>1
      <4>3. q \in Int /\ q # 0
        <5>1. q = 0 => w = -b
          BY <3>7, <3>5, <4>2
        <5> QED  BY <2>5, <3>2, <3>7, <4>2, <5>1
      <4>4. c = q * x
        <5>1. -(a * (x * x) + b * x) = (-(a * x + b)) * x
          BY SMTT(30)
        <5> QED  BY <2>1, <4>2, <5>1
      <4>5. Div(c, q) = x
        BY <4>3, <4>4, ExactQuotient
      <4> QED  BY <3>1, <4>5
    <3> QED  BY <3>2, <3>4, <3>5
  <2> QED  BY <2>4, <2>5
<1> QED  BY <1>1, <1>2

\* solve2Linear() finds the solution of two lines that meet in one.
LEMMA LinesMeet ==
    ASSUME NEW A \in [Coefficients -> Int], NEW B \in [Coefficients -> Int],
           A.c20 = 0, A.c02 = 0, A.c11 = 0, B.c20 = 0, B.c02 = 0, B.c11 = 0,
           A.c10 * B.c01 # B.c10 * A.c01,
           NEW x \in Int, NEW y \in Int, Solves(A, B, x, y)
    PROVE  TwoLinear(A, B) = [found |-> TRUE, E1 |-> <<x>>, E2 |-> <<y>>]
<1> DEFINE a == A.c10  b == A.c01  c == A.c00
           d == B.c10  e == B.c01  f == B.c00
           det == a * e - d * b
           e2 == Div(d * c - a * f, det)
           L == IF a = 0 THEN B ELSE A
<1>1. a \in Int /\ b \in Int /\ c \in Int /\ d \in Int /\ e \in Int /\ f \in Int
  BY DEF Coefficients
<1>2. /\ 0 * SQ(x) + 0 * SQ(y) + 0 * x * y + a * x + b * y + c = 0
      /\ 0 * SQ(x) + 0 * SQ(y) + 0 * x * y + d * x + e * y + f = 0
  BY DEF Solves, At
<1>3. TwoLinear(A, B) = IF det = 0 THEN NoRoots
                        ELSE [found |-> TRUE, E1 |-> <<-Div(L.c00 + L.c01 * e2, L.c10)>>, E2 |-> <<e2>>]
  BY DEF TwoLinear
<1>4. (a = 0 => L.c10 = d /\ L.c01 = e /\ L.c00 = f) /\ (a # 0 => L.c10 = a /\ L.c01 = b /\ L.c00 = c)
  OBVIOUS
<1>5. a * e # d * b
  OBVIOUS
<1> HIDE DEF a, b, c, d, e, f, L
<1>6. c = -(a * x + b * y) /\ f = -(d * x + e * y)
  BY <1>1, <1>2, SMTT(30) DEF SQ
<1>7. det \in Int /\ det # 0
  BY <1>1, <1>5, SMTT(30)
<1>8. d * c - a * f = det * y
  <2>1. d * (-(a * x + b * y)) - a * (-(d * x + e * y)) = (a * e - d * b) * y
    BY <1>1, SMTT(30)
  <2> QED  BY <1>6, <2>1
<1>9. e2 = y
  BY <1>7, <1>8, ExactQuotient
<1> HIDE DEF det, e2
<1>10. -Div(L.c00 + L.c01 * e2, L.c10) = x
  <2>1. CASE a = 0
    <3>1. d # 0
      BY <1>1, <1>5, <2>1, SMTT(30)
    <3>2. f + e * y = d * (-x) /\ -x \in Int
      <4>1. -(d * x + e * y) + e * y = d * (-x)
        BY <1>1, SMTT(30)
      <4> QED  BY <1>6, <4>1
    <3>3. Div(f + e * y, d) = -x
      BY <1>1, <3>1, <3>2, ExactQuotient
    <3> QED  BY <1>4, <1>9, <2>1, <3>3
  <2>2. CASE a # 0
    <3>1. c + b * y = a * (-x) /\ -x \in Int
      <4>1. -(a * x + b * y) + b * y = a * (-x)
        BY <1>1, SMTT(30)
      <4> QED  BY <1>6, <4>1
    <3>2. Div(a * (-x), a) = -x
      BY <1>1, <2>2, <3>1, ExactQuotient
    <3>3. Div(c + b * y, a) = -x
      BY <3>1, <3>2
    <3> QED  BY <1>4, <1>9, <2>2, <3>3
  <2> QED  BY <2>1, <2>2
<1> QED  BY <1>3, <1>7, <1>9, <1>10

-----------------------------------------------------------------------------
(* What the blocks emit                                                      *)

LEMMA TwoComponents == ASSUME NEW x, NEW y PROVE Len(<<x, y>>) = 2 /\ <<x, y>>[1] = x /\ <<x, y>>[2] = y
OBVIOUS
LEMMA FourComponents ==
    ASSUME NEW x, NEW y, NEW z, NEW t
    PROVE  /\ Len(<<x, y, z, t>>) = 4 /\ <<x, y, z, t>>[1] = x /\ <<x, y, z, t>>[2] = y
           /\ <<x, y, z, t>>[3] = z /\ <<x, y, z, t>>[4] = t
OBVIOUS

\* A candidate with the energies e that meets the equations is among those that
\* the solver of a point gives.
HasCandidate(p, e) ==
    \E i \in DOMAIN Solve(p) : Solve(p)[i].e = e /\ Solve(p)[i].finite /\ Solve(p)[i].holds

\* A candidate that a block makes of energies that meet its equations is one.
LEMMA CandidateOf ==
    ASSUME NEW p, NEW e, NEW holds, holds, NEW i \in DOMAIN Solve(p), Solve(p)[i] = Finite(e, holds)
    PROVE  HasCandidate(p, e)
BY DEF Finite, HasCandidate

\* A root of the equation of a block in one unknown is found.
LEMMA NumberIsFound ==
    ASSUME NEW p, IsPoint(p), Regular(p),
           p.block \in {"BlockB", "SecondaryBlockA", "BlockE", "BlockF", "SecondaryBlockB"},
           NEW x \in Int, Parabola(p, x) = 0
    PROVE  \E i \in DOMAIN Quadratic(p.a, p.b, p.c) : Quadratic(p.a, p.b, p.c)[i] = x
<1> DEFINE a == p.a  b == p.b  c == p.c
<1>1. a \in Int /\ b \in Int /\ c \in Int
  BY DEF IsPoint
<1>2. a # 0 \/ b # 0
  BY DEF Regular
<1>3. IsRoot(a, b, c, x)
  BY DEF Parabola, IsRoot
<1> HIDE DEF a, b, c
<1>4. \E i \in DOMAIN Quadratic(a, b, c) : Quadratic(a, b, c)[i] = x
  BY <1>1, <1>2, <1>3, QuadraticFindsAll
<1> QED  BY <1>4 DEF a, b, c

LEMMA RootIsFound ==
    ASSUME NEW p, IsPoint(p), Regular(p),
           p.block \in {"BlockB", "SecondaryBlockA", "BlockE", "BlockF", "SecondaryBlockB"}, NEW x \in Zeros(p)
    PROVE  /\ x \in Int /\ Parabola(p, x) = 0
           /\ \E i \in DOMAIN Quadratic(p.a, p.b, p.c) : Quadratic(p.a, p.b, p.c)[i] = x
<1>1. x \in Int /\ Parabola(p, x) = 0
  BY DEF RootBound, Zeros
<1> QED  BY <1>1, NumberIsFound

\* The square of k + 2 x u = 2 n v, where n^2 = x^2 - m^2, is an equation in x.
LEMMA MassShell ==
    ASSUME NEW x \in Int, NEW n \in Int, NEW k \in Int, NEW u \in Int, NEW v \in Int, NEW m \in Int,
           SQ(n) + SQ(m) = SQ(x), k + 2 * x * u = 2 * n * v
    PROVE  IsRoot(4 * SQ(u) - 4 * SQ(v), 4 * u * k, SQ(k) + 4 * SQ(m) * SQ(v), x)
<1>1. (k + 2 * x * u) * (k + 2 * x * u) = (2 * n * v) * (2 * n * v)
  OBVIOUS
<1>2. (k + 2 * x * u) * (k + 2 * x * u) = k * k + 4 * u * k * x + 4 * (u * u) * (x * x)
  BY SMTT(60)
<1>3. (2 * n * v) * (2 * n * v) = 4 * ((n * n) * (v * v))
  BY SMTT(60)
<1>4. n * n = x * x - m * m
  <2>1. n * n \in Int /\ m * m \in Int /\ x * x \in Int
    BY SMTT(30)
  <2> QED  BY <2>1 DEF SQ
<1>5. 4 * ((n * n) * (v * v)) = 4 * (v * v) * (x * x) - 4 * (m * m) * (v * v)
  <2>1. \A r, q, w \in Int : 4 * ((r - q) * w) = 4 * w * r - 4 * q * w
    BY SMTT(60)
  <2>2. x * x \in Int /\ m * m \in Int /\ v * v \in Int
    BY SMTT(30)
  <2> QED  BY <1>4, <2>1, <2>2
<1>6. (4 * (u * u) - 4 * (v * v)) * (x * x) + 4 * u * k * x + (k * k + 4 * (m * m) * (v * v)) = 0
  BY <1>1, <1>2, <1>3, <1>5, SMTT(60)
<1> QED  BY <1>6 DEF IsRoot, SQ

\* SecondaryBlockCD finds every energy that leaves p1 and p2 their masses.
LEMMA EnergyIsFound ==
    ASSUME NEW p, p.E2 \in Int, p.p2cos \in Int, p.k \in Int, p.m1 \in Int, p.E2 > 0, p.k < 0,
           NEW x \in Int, NEW n \in Int,
           SQ(n) + SQ(p.m1) = SQ(x), p.k + 2 * x * p.E2 = 2 * n * p.p2cos
    PROVE  \E i \in DOMAIN SecondaryBlockCD(p) : SecondaryBlockCD(p)[i] = WithEnergy(p, x)
<1> DEFINE a == 4 * SQ(p.E2) - 4 * SQ(p.p2cos)
           b == 4 * p.E2 * p.k
           c == SQ(p.k) + 4 * SQ(p.m1) * SQ(p.p2cos)
           roots == Quadratic(a, b, c)
<1>1. a \in Int /\ b \in Int /\ c \in Int
  BY SMTT(30) DEF SQ
<1>2. b # 0
  <2>1. \A u, k \in Int : u > 0 /\ k < 0 => 4 * u * k # 0
    BY SMTT(30)
  <2> QED  BY <2>1
<1>3. IsRoot(a, b, c, x)
  BY MassShell, Zenon
<1>4. SecondaryBlockCD(p) = [i \in DOMAIN roots |-> WithEnergy(p, roots[i])]
  BY Zenon DEF SecondaryBlockCD, FromRoots
<1> HIDE DEF a, b, c
<1>5. \E i \in DOMAIN Quadratic(a, b, c) : Quadratic(a, b, c)[i] = x
  BY <1>1, <1>2, <1>3, QuadraticFindsAll
<1> QED  BY <1>4, <1>5

\* The solver of a block gives every solution of a point in general position.
LEMMA ExactIsFound ==
    ASSUME SystemsAreSolved, NEW name \in DOMAIN Setups, NEW p \in Setups[name].points, IsPoint(p), Regular(p),
           NEW e \in Exact(p), AboveThreshold(p, e)
    PROVE  HasCandidate(p, e)
<1>1. p.block \in Blocks
  BY DEF IsPoint
<1>2. CASE p.block \in {"BlockB", "SecondaryBlockA"}
  <2> DEFINE roots == Quadratic(p.a, p.b, p.c)
  <2>1. PICK x \in Zeros(p) : e = <<x>>
    BY <1>2, Zenon DEF Exact
  <2>2. PICK i \in DOMAIN roots : roots[i] = x
    BY <1>2, RootIsFound
  <2>3. Parabola(p, x) = 0
    BY <1>2, RootIsFound
  <2>4. Solve(p) = [j \in DOMAIN roots |-> Finite(<<roots[j]>>, Parabola(p, roots[j]) = 0)]
    BY <1>2, Zenon DEF Solve, FromRoots, BlockB, SecondaryBlockA
  <2> HIDE DEF roots
  <2> DEFINE energies == <<x>>
             holds == Parabola(p, x) = 0
  <2>5. i \in DOMAIN Solve(p) /\ Solve(p)[i] = Finite(energies, holds)
    BY <2>2, <2>4
  <2>6. e = energies /\ holds
    BY <2>1, <2>3
  <2> HIDE DEF energies, holds
  <2> QED  BY <2>5, <2>6, CandidateOf
<1>3. CASE p.block = "SecondaryBlockB"
  <2> DEFINE roots == Quadratic(p.a, p.b, p.c)
  <2>1. PICK x \in Zeros(p) : e = <<x, p.slope * x + p.offset>>
    BY <1>3, Zenon DEF Exact
  <2>2. PICK i \in DOMAIN roots : roots[i] = x
    BY <1>3, RootIsFound
  <2>3. Parabola(p, x) = 0
    BY <1>3, RootIsFound
  <2>4. Solve(p) = [j \in DOMAIN roots |->
                      Finite(<<roots[j], p.slope * roots[j] + p.offset>>, Parabola(p, roots[j]) = 0)]
    BY <1>3, Zenon DEF Solve, FromRoots, SecondaryBlockB
  <2> HIDE DEF roots
  <2> DEFINE energies == <<x, p.slope * x + p.offset>>
             holds == Parabola(p, x) = 0
  <2>5. i \in DOMAIN Solve(p) /\ Solve(p)[i] = Finite(energies, holds)
    BY <2>2, <2>4
  <2>6. e = energies /\ holds
    BY <2>1, <2>3
  <2> HIDE DEF energies, holds
  <2> QED  BY <2>5, <2>6, CandidateOf
<1>4. CASE p.block \in {"BlockE", "BlockF"}
  <2> DEFINE roots == Quadratic(p.a, p.b, p.c)
  <2>1. PICK x \in Zeros(p) : e = <<p.total - p.slope * x - p.offset, p.slope * x + p.offset>>
    BY <1>4, Zenon DEF Exact
  <2>2. PICK i \in DOMAIN roots : roots[i] = x
    BY <1>4, RootIsFound
  <2>3. x \in Int /\ Parabola(p, x) = 0
    BY <1>4, RootIsFound
  <2>4. Solve(p) = [j \in DOMAIN roots |->
                      Finite(<<p.total - (p.slope * roots[j] + p.offset), p.slope * roots[j] + p.offset>>,
                             Parabola(p, roots[j]) = 0)]
    BY <1>4, Zenon DEF Solve, FromRoots, BlockE, BlockF
  <2> HIDE DEF roots
  <2> DEFINE energies == <<p.total - (p.slope * x + p.offset), p.slope * x + p.offset>>
             holds == Parabola(p, x) = 0
  <2>5. i \in DOMAIN Solve(p) /\ Solve(p)[i] = Finite(energies, holds)
    BY <2>2, <2>4
  <2>6. p.total - (p.slope * x + p.offset) = p.total - p.slope * x - p.offset
    <3>1. p.total \in Int /\ p.slope \in Int /\ p.offset \in Int
      BY <1>4 DEF IsPoint
    <3>2. p.slope * x \in Int
      BY <2>3, <3>1
    <3> QED  BY <3>1, <3>2
  <2>7. e = energies /\ holds
    BY <2>1, <2>3, <2>6
  <2> HIDE DEF energies, holds
  <2> QED  BY <2>5, <2>7, CandidateOf
<1>5. CASE p.block = "SecondaryBlockCD"
  <2>1. PICK x \in p.m1..RootBound, n \in 0..RootBound :
           e = <<x>> /\ SQ(n) + SQ(p.m1) = SQ(x) /\ p.k + 2 * x * p.E2 = 2 * n * p.p2cos
    BY <1>5, Zenon DEF Exact
  <2>2. p.k \in Int /\ p.E2 \in Int /\ p.p2cos \in Int /\ p.m1 \in Nat /\ p.E2 > 0
    BY <1>5 DEF IsPoint
  <2>3. x \in Int /\ n \in Nat /\ x >= p.m1
    BY <2>2 DEF RootBound
  <2>4. p.k < 0
    BY <1>5 DEF IsPoint, Regular
  <2>5. PICK i \in DOMAIN Solve(p) : Solve(p)[i] = WithEnergy(p, x)
    <3>1. x \in Int /\ n \in Int /\ p.m1 \in Int
      BY <2>2, <2>3
    <3>2. Solve(p) = SecondaryBlockCD(p)
      BY <1>5, Zenon DEF Solve
    <3> QED  BY <2>1, <2>2, <2>4, <3>1, <3>2, EnergyIsFound
  <2>6. Norm(p.m1, x) = n
    <3>1. SQ(n) \in Int /\ SQ(p.m1) \in Int
      BY <2>2, <2>3, SMTT(30) DEF SQ
    <3>2. SQ(x) - SQ(p.m1) = n * n
      BY <2>1, <3>1 DEF SQ
    <3> QED  BY <2>3, <3>2, ExactSquareRoot DEF Norm
  <2> DEFINE energies == <<x>>
             holds == x >= p.m1 /\ p.k + 2 * x * p.E2 = 2 * Norm(p.m1, x) * p.p2cos
  <2>7. i \in DOMAIN Solve(p) /\ Solve(p)[i] = Finite(energies, holds)
    BY <2>5 DEF WithEnergy
  <2>8. e = energies /\ holds
    BY <2>1, <2>3, <2>6
  <2> HIDE DEF energies, holds
  <2> QED  BY <2>7, <2>8, CandidateOf
<1>6. CASE p.block = "BlockA"
  <2> DEFINE r == TwoLinear(p.A, p.B)
  <2>1. PICK s \in Solutions(p.A, p.B) : e = s
    BY <1>6, Zenon DEF Exact
  <2>2. s[1] \in Int /\ s[2] \in Int /\ Solves(p.A, p.B, s[1], s[2]) /\ s = <<s[1], s[2]>>
    BY DEF Solutions, CoordBound
  <2>3. r = [found |-> TRUE, E1 |-> <<s[1]>>, E2 |-> <<s[2]>>]
    <3> DEFINE A == p.A  B == p.B
    <3>1. A \in [Coefficients -> Int] /\ B \in [Coefficients -> Int]
      BY <1>6 DEF IsPoint
    <3>2. /\ A.c20 = 0 /\ A.c02 = 0 /\ A.c11 = 0
          /\ B.c20 = 0 /\ B.c02 = 0 /\ B.c11 = 0
      BY <1>6 DEF IsPoint
    <3>3. A.c10 * B.c01 # B.c10 * A.c01
      BY <1>6 DEF Regular
    <3>4. PICK x \in Int, y \in Int : x = s[1] /\ y = s[2]
      BY <2>2
    <3>5. Solves(A, B, x, y)
      BY <2>2, <3>4
    <3> HIDE DEF A, B
    <3>6. TwoLinear(A, B) = [found |-> TRUE, E1 |-> <<x>>, E2 |-> <<y>>]
      BY <3>1, <3>2, <3>3, <3>5, LinesMeet
    <3> QED  BY <3>4, <3>6 DEF A, B
  <2>4. Solve(p) = [j \in DOMAIN r.E1 |-> Finite(<<r.E1[j], r.E2[j]>>, Solves(p.A, p.B, r.E1[j], r.E2[j]))]
    BY <1>6, Zenon DEF Solve, FromLists, BlockA
  <2> HIDE DEF r
  <2>5. 1 \in DOMAIN r.E1 /\ r.E1[1] = s[1] /\ r.E2[1] = s[2]
    BY <2>3
  <2>6. 1 \in DOMAIN Solve(p) /\ Solve(p)[1] = Finite(<<s[1], s[2]>>, Solves(p.A, p.B, s[1], s[2]))
    BY <2>4, <2>5
  <2> QED  BY <2>1, <2>2, <2>6, CandidateOf
<1>7. CASE p.block = "BlockD"
  <2> DEFINE r == Conics(p.A, p.B)
  <2>1. PICK s \in Solutions(p.A, p.B) : e = s
    BY <1>7, Zenon DEF Exact
  <2>2. Solves(p.A, p.B, s[1], s[2]) /\ s = <<s[1], s[2]>>
    BY DEF Solutions
  <2>3. s \in Pairs(r)
    BY <1>7 DEF SystemsAreSolved
  <2>4. PICK i \in DOMAIN r.E1 : s = <<r.E1[i], r.E2[i]>>
    BY <2>3, Zenon DEF Pairs
  <2>5. Solve(p) = [j \in DOMAIN r.E1 |-> Finite(<<r.E1[j], r.E2[j]>>, Solves(p.A, p.B, r.E1[j], r.E2[j]))]
    BY <1>7, Zenon DEF Solve, FromLists, BlockD
  <2> HIDE DEF r
  <2>6. i \in DOMAIN Solve(p) /\ Solve(p)[i] = Finite(<<s[1], s[2]>>, Solves(p.A, p.B, s[1], s[2]))
    BY <2>4, <2>5, TwoComponents
  <2>7. e = <<s[1], s[2]>>
    BY <2>1, <2>2
  <2> QED  BY <2>2, <2>6, <2>7, CandidateOf
<1>8. CASE p.block = "SecondaryBlockE"
  <2> DEFINE r == Conics(p.A, p.B)
  <2>1. PICK s \in Solutions(p.A, p.B) : e = Swap(s)
    BY <1>8, Zenon DEF Exact
  <2>2. Solves(p.A, p.B, s[1], s[2]) /\ s = <<s[1], s[2]>>
    BY DEF Solutions
  <2>3. s \in Pairs(r)
    BY <1>8 DEF SystemsAreSolved
  <2>4. PICK i \in DOMAIN r.E1 : s = <<r.E1[i], r.E2[i]>>
    BY <2>3, Zenon DEF Pairs
  <2>5. Solve(p) = [j \in DOMAIN r.E1 |-> Finite(<<r.E2[j], r.E1[j]>>, Solves(p.A, p.B, r.E1[j], r.E2[j]))]
    BY <1>8, Zenon DEF Solve, FromLists, SecondaryBlockE
  <2> HIDE DEF r
  <2>6. i \in DOMAIN Solve(p) /\ Solve(p)[i] = Finite(<<s[2], s[1]>>, Solves(p.A, p.B, s[1], s[2]))
    BY <2>4, <2>5, TwoComponents
  <2>7. e = <<s[2], s[1]>>
    BY <2>1, <2>2, TwoComponents DEF Swap
  <2> QED  BY <2>2, <2>6, <2>7, CandidateOf
<1>9. CASE p.block = "BlockC"
  <2> DEFINE r == Conics(p.A, p.B)
  <2>1. PICK s \in Solutions(p.A, p.B) : e = <<s[1], p.slope * s[2] + p.offset>>
    BY <1>9, Zenon DEF Exact
  <2>2. Solves(p.A, p.B, s[1], s[2]) /\ s = <<s[1], s[2]>>
    BY DEF Solutions
  <2>3. s \in Pairs(r)
    BY <1>9 DEF SystemsAreSolved
  <2>4. PICK i \in DOMAIN r.E1 : s = <<r.E1[i], r.E2[i]>>
    BY <2>3, Zenon DEF Pairs
  <2>5. Solve(p) = [j \in DOMAIN r.E1 |-> Finite(<<r.E1[j], p.slope * r.E2[j] + p.offset>>, Solves(p.A, p.B, r.E1[j], r.E2[j]))]
    BY <1>9, Zenon DEF Solve, FromLists, BlockC
  <2> HIDE DEF r
  <2>6. i \in DOMAIN Solve(p) /\ Solve(p)[i] = Finite(<<s[1], p.slope * s[2] + p.offset>>, Solves(p.A, p.B, s[1], s[2]))
    BY <2>4, <2>5, TwoComponents
  <2>7. e = <<s[1], p.slope * s[2] + p.offset>>
    BY <2>1, <2>2
  <2> QED  BY <2>2, <2>6, <2>7, CandidateOf
<1>10. CASE p.block = "BlockG"
  <2> DEFINE roots == InP3(p)
             p1(z, t) == p.alpha1 * z + p.beta1 * t + p.gamma1
             p2(z, t) == p.alpha2 * z + p.beta2 * t + p.gamma2
             y(z) == Div(p.X, z)
  <2>1. PICK s \in Coords \X Coords :
           /\ s[1] * s[2] = p.X /\ p1(s[1], s[2]) * p2(s[1], s[2]) = p.Y
           /\ e = <<p1(s[1], s[2]), p2(s[1], s[2]), s[1], s[2]>>
    BY <1>10, Zenon DEF Exact
  <2>2. s[1] \in Int /\ s[2] \in Int
    BY DEF Coords, CoordBound
  <2>3. e[3] = s[1] /\ 3 \in DOMAIN e
    <3> DEFINE u == p1(s[1], s[2])  v == p2(s[1], s[2])
    <3>1. e = <<u, v, s[1], s[2]>>
      BY <2>1
    <3> HIDE DEF u, v
    <3> QED  BY <3>1, FourComponents
  <2>4. s[1] # 0
    BY <2>2, <2>3 DEF AboveThreshold
  <2>5. y(s[1]) = s[2]
    BY <2>1, <2>2, <2>4, ExactQuotient
  <2>6. PICK i \in DOMAIN roots : roots[i] = s[1]
    <3>1. {f[3] : f \in Exact(p)} \subseteq Range(roots)
      BY <1>10 DEF SystemsAreSolved
    <3>2. s[1] \in Range(roots)
      BY <2>3, <3>1
    <3> QED  BY <3>2, Zenon DEF Range
  <2>7. Solve(p) = [j \in DOMAIN roots |->
                      IF roots[j] = 0 THEN NaN
                      ELSE Finite(<<p1(roots[j], y(roots[j])), p2(roots[j], y(roots[j])), roots[j], y(roots[j])>>,
                                  p1(roots[j], y(roots[j])) * p2(roots[j], y(roots[j])) = p.Y
                                     /\ roots[j] * y(roots[j]) = p.X)]
    BY <1>10, Zenon DEF Solve, FromRoots, BlockG
  <2> HIDE DEF roots
  <2> DEFINE energies == <<p1(s[1], s[2]), p2(s[1], s[2]), s[1], s[2]>>
             holds == p1(s[1], s[2]) * p2(s[1], s[2]) = p.Y /\ s[1] * s[2] = p.X
  <2>8. i \in DOMAIN Solve(p) /\ Solve(p)[i] = IF s[1] = 0 THEN NaN ELSE Finite(energies, holds)
    BY <2>5, <2>6, <2>7
  <2>9. e = energies /\ holds
    BY <2>1
  <2> HIDE DEF energies, holds
  <2> QED  BY <2>4, <2>8, <2>9, CandidateOf
<1> QED  BY <1>1, <1>2, <1>3, <1>4, <1>5, <1>6, <1>7, <1>8, <1>9, <1>10 DEF Blocks

\* No test of a block refuses a candidate that can be produced.
LEMMA PossiblePasses ==
    ASSUME NEW p, IsPoint(p), NEW c, c.finite, c.holds, Possible(p, c.e), AboveThreshold(p, c.e),
           p.block = "SecondaryBlockB" => Len(c.e) = 2 /\ c.e \in Seq(Int),
           p.block = "SecondaryBlockCD" =>
              \E n \in Nat : p.k + 2 * c.e[1] * p.E2 = 2 * n * p.p2cos
    PROVE  Passes(p, c)
<1>1. p.block \in Blocks
  BY DEF IsPoint
<1>2. Positive(c) /\ NotNegative(c) /\ Confirmed(c) /\ (Secondary(p) \/ InBeam(p, c))
  BY DEF Positive, NotNegative, Confirmed, InBeam, Possible, AboveThreshold
<1>3. CASE p.block \notin {"SecondaryBlockB", "SecondaryBlockCD"}
  BY <1>1, <1>2, <1>3 DEF Blocks, Passes, BlockATests, BlockBTests, BlockCTests, BlockDTests, BlockETests, BlockFTests,
         BlockGTests, SecondaryBlockATests, SecondaryBlockETests, Secondary
<1>4. CASE p.block = "SecondaryBlockB"
  <2>1. 2 \in DOMAIN c.e
    BY <1>4
  <2>2. c.e[1] > p.m1 /\ c.e[2] >= 0
    BY <1>4, <2>1 DEF Possible, AboveThreshold
  <2> QED  BY <1>2, <1>4, <2>2 DEF Passes, SecondaryBlockBTests
<1>5. CASE p.block = "SecondaryBlockCD"
  <2>1. p.k \in Int /\ p.E2 \in Int /\ p.p2cos \in Int
    BY <1>5 DEF IsPoint
  <2>2. \A n \in Nat : \A v \in Int : (2 * n * v) * v >= 0
    <3> SUFFICES ASSUME NEW n \in Nat, NEW v \in Int PROVE (2 * n * v) * v >= 0
      OBVIOUS
    <3>1. v * v >= 0 /\ v * v \in Int
      BY SMTT(30)
    <3>2. \A w \in Nat : n * w >= 0 /\ n * w \in Int
      BY SMTT(30)
    <3>3. n * (v * v) >= 0 /\ n * (v * v) \in Int
      BY <3>1, <3>2
    <3>4. (2 * n * v) * v = 2 * (n * (v * v))
      BY SMTT(30)
    <3> QED  BY <3>3, <3>4
  <2>3. PICK n \in Nat : p.k + 2 * c.e[1] * p.E2 = 2 * n * p.p2cos
    BY <1>5
  <2>4. (p.k + 2 * c.e[1] * p.E2) * p.p2cos >= 0
    BY <2>1, <2>2, <2>3
  <2>5. c.e[1] > p.m1
    BY <1>5 DEF AboveThreshold
  <2> QED  BY <1>2, <1>5, <2>4, <2>5 DEF Passes, SecondaryBlockCDTests
<1> QED  BY <1>3, <1>4, <1>5

\* At a point in general position every solution with positive energies that the
\* beams can give is left in `solutions'.
LEMMA ExactIsEmitted ==
    ASSUME SystemsAreSolved, NEW name \in DOMAIN Setups, NEW p \in Setups[name].points, IsPoint(p), Regular(p),
           NEW e \in Exact(p), Possible(p, e), AboveThreshold(p, e), NEW list \in Emissions(p)
    PROVE  e \in Energies(list)
<1>1. ~p.unphysical /\ ~p.degenerate
  BY DEF Regular
<1> DEFINE candidates == Solve(p)
<1>2. PICK i \in DOMAIN candidates : candidates[i].e = e /\ candidates[i].finite /\ candidates[i].holds
  BY ExactIsFound DEF HasCandidate
<1>3. /\ Len(candidates) \in Nat /\ DOMAIN candidates = 1..Len(candidates)
      /\ candidates[i].e \in Seq(Int)
  BY <1>1, <1>2 DEF IsPoint
<1>4. list = Kept(p, candidates)
  BY <1>1 DEF Emissions
<1> HIDE DEF candidates
<1>5. e \in Seq(Int)
  BY <1>2, <1>3
<1>6. p.block = "SecondaryBlockB" => Len(e) = 2
  <2> SUFFICES ASSUME p.block = "SecondaryBlockB" PROVE Len(e) = 2
    OBVIOUS
  <2>1. PICK x \in Zeros(p) : e = <<x, p.slope * x + p.offset>>
    BY Zenon DEF Exact
  <2> QED  BY <2>1, TwoComponents
<1>7. p.block = "SecondaryBlockCD" => \E n \in Nat : p.k + 2 * e[1] * p.E2 = 2 * n * p.p2cos
  <2> SUFFICES ASSUME p.block = "SecondaryBlockCD"
               PROVE  \E n \in Nat : p.k + 2 * e[1] * p.E2 = 2 * n * p.p2cos
    OBVIOUS
  <2>1. PICK x \in p.m1..RootBound, n \in 0..RootBound :
           e = <<x>> /\ p.k + 2 * x * p.E2 = 2 * n * p.p2cos
    BY Zenon DEF Exact
  <2>2. n \in Nat /\ e[1] = x
    BY <2>1 DEF RootBound
  <2> QED  BY <2>1, <2>2
<1>8. Passes(p, candidates[i])
  BY <1>2, <1>5, <1>6, <1>7, PossiblePasses
<1>9. \E j \in DOMAIN list : list[j] = candidates[i]
  <2>1. PICK n \in Nat : n = Len(candidates)
    BY <1>3
  <2>2. KeepsAll(p, candidates, list, n)
    BY <1>4, <2>1, KeptIsWhole
  <2>3. i \in 1..n
    BY <1>2, <1>3, <2>1
  <2> QED  BY <1>8, <2>2, <2>3 DEF KeepsAll
<1> QED  BY <1>2, <1>9 DEF Energies

-----------------------------------------------------------------------------
(* A point                                                                   *)

\* What was drawn last is what a generator of a configuration gives.
DrawnByASource ==
    drawn # None =>
        \E g, k : /\ IsGenerator(g) /\ k \in 0..N
                  /\ drawn = [source |-> g, k |-> k, gen |-> Draw(g, k)]

\* The solutions have energies that can be compared with that of the beams.
PointIsSolved ==
    /\ Len(solutions) \in Nat /\ \A i \in 1..Len(solutions) : TotalEnergy(solutions[i]) \in Nat
    /\ point.beam \in Nat
\* Where the terms of the sum are among the solutions that had their turn.
Places(at) ==
    /\ at \in [DOMAIN sum -> 1..(turn - 1)]
    /\ \A i, j \in DOMAIN sum : i < j => at[i] < at[j]
    /\ {at[i] : i \in DOMAIN sum} = {i \in 1..(turn - 1) : TotalEnergy(solutions[i]) <= point.beam}
    /\ \A i \in DOMAIN sum : sum[i] = solutions[at[i]]
\* A solution that is about to be added was compared with the beams.
SumGrows ==
    /\ pc \in {"looping", "partons"} =>
          /\ PointIsSolved
          /\ turn \in 1..(Len(solutions) + 1)
          /\ sum \in Seq({solutions[i] : i \in 1..Len(solutions)})
          /\ \E at : Places(at)
    /\ pc = "partons" => turn <= Len(solutions) /\ TotalEnergy(solutions[turn]) <= point.beam
    /\ pc = "drawn" => sum = <<>>

Configured == pc # "new" => setup \in DOMAIN Setups
PointInv == Configured /\ DrawnByASource /\ SumGrows

LEMMA PointInvInit == Init => PointInv
BY DEF Init, PointInv, Configured, DrawnByASource, SumGrows

\* Steps that end or begin something else than a loop over solutions.
LEMMA OutsideOfALoop ==
    ASSUME PointInv, UNCHANGED <<drawn, solutions, turn, sum, point>>, setup' = setup \/ setup' \in DOMAIN Setups,
           pc = "new" /\ pc' # "new" => setup' \in DOMAIN Setups,
           pc' \notin {"partons", "drawn"}, pc' = "looping" => pc = "looping"
    PROVE  PointInv'
<1>1. Configured'
  BY DEF PointInv, Configured
<1>2. DrawnByASource'
  BY DEF PointInv, DrawnByASource
<1>3. SumGrows'
  <2>1. ASSUME pc' = "looping"
        PROVE  /\ PointIsSolved /\ turn \in 1..(Len(solutions) + 1)
               /\ sum \in Seq({solutions[i] : i \in 1..Len(solutions)})
               /\ \E at : Places(at)
    BY <2>1 DEF PointInv, SumGrows
  <2>2. PointIsSolved => PointIsSolved'
    BY DEF PointIsSolved
  <2>3. \A at : Places(at) => (Places(at))'
    BY DEF Places
  <2> QED
    BY <2>1, <2>2, <2>3 DEF SumGrows
<1> QED
  BY <1>1, <1>2, <1>3 DEF PointInv

\* beginPoint() empties the sum.
LEMMA Generates ==
    ASSUME PointInv, NEW k \in 0..N, pc = "integrating", NEW g \in Now.sources, Generate(g, k)
    PROVE  PointInv'
<1>1. IsGenerator(g) /\ setup \in DOMAIN Setups
  BY KernelAssumption DEF PointInv, Configured, Now
<1>2. /\ pc' = "drawn" /\ setup' = setup /\ sum' = <<>>
      /\ drawn' = [source |-> g, k |-> k, gen |-> Draw(g, k)]
  BY DEF Generate
<1>3. DrawnByASource'
  <2> HIDE DEF None
  <2> QED
    BY <1>1, <1>2 DEF DrawnByASource
<1> QED
  BY <1>1, <1>2, <1>3 DEF PointInv, Configured, SumGrows

\* The loop begins with the first solution and an empty sum.
LEMMA SolvesThePoint ==
    ASSUME PointInv, pc = "drawn", NEW p \in Now.points, SolveBlock(p)
    PROVE  PointInv'
<1>1. IsPoint(p) /\ setup \in DOMAIN Setups /\ sum = <<>>
  BY KernelAssumption DEF PointInv, Configured, Now, SumGrows
<1>2. PICK emitted \in Emissions(p) :
         solutions' = emitted /\ pc' = IF emitted = <<>> THEN "integrating" ELSE "looping"
  BY DEF SolveBlock
<1>3. turn' = 1 /\ point' = p /\ drawn' = None /\ sum' = <<>> /\ setup' = setup
  BY <1>1 DEF SolveBlock
<1>4. PICK S : emitted \in Seq(S) /\ \A c \in S : c.e \in Seq(Nat)
  BY <1>1, EmissionsAreNotNegative
<1>5. Len(emitted) \in Nat /\ \A i \in 1..Len(emitted) : emitted[i] \in S
  BY <1>4
<1>6. \A i \in 1..Len(emitted) : TotalEnergy(emitted[i]) \in Nat
  BY <1>4, <1>5, EnergiesAddUp
<1>7. PointIsSolved'
  BY <1>1, <1>2, <1>3, <1>5, <1>6 DEF PointIsSolved, IsPoint
<1>8. turn' \in 1..(Len(solutions') + 1)
  BY <1>2, <1>3, <1>5
<1>9. \E at : (Places(at))'
  <2> DEFINE at == [i \in {} |-> 1]
  <2>1. DOMAIN sum' = {} /\ 1..(turn' - 1) = {}
    BY <1>3
  <2>2. at \in [{} -> {}]
    OBVIOUS
  <2> HIDE DEF at
  <2>3. (Places(at))'
    BY <2>1, <2>2 DEF Places
  <2> QED
    BY <2>3
<1>10. sum' \in Seq({solutions'[i] : i \in 1..Len(solutions')})
  BY <1>3
<1>11. SumGrows'
  BY <1>2, <1>7, <1>8, <1>9, <1>10 DEF SumGrows
<1> QED
  BY <1>1, <1>2, <1>3, <1>11 DEF PointInv, Configured, DrawnByASource

\* BuildInitialState compares the energy of what moves along no axis.
LEMMA BeamsDecide ==
    ASSUME NEW e \in Nat, NEW beam \in Nat
    PROVE  BuildInitialState(e, 0, beam).ok <=> e <= beam
<1>1. Partons(e, 0) = <<0 + e, 0 - e>>
  BY DEF Partons
<1>2. BuildInitialState(e, 0, beam).ok <=>
         \A i \in 1..2 : -beam <= Partons(e, 0)[i] /\ Partons(e, 0)[i] <= beam
  BY DEF BuildInitialState
<1>3. Partons(e, 0)[1] = e /\ Partons(e, 0)[2] = -e
  BY <1>1
<1>4. (\A i \in 1..2 : -beam <= Partons(e, 0)[i] /\ Partons(e, 0)[i] <= beam) <=>
         /\ -beam <= Partons(e, 0)[1] /\ Partons(e, 0)[1] <= beam
         /\ -beam <= Partons(e, 0)[2] /\ Partons(e, 0)[2] <= beam
  OBVIOUS
<1> QED
  BY <1>2, <1>3, <1>4

\* A solution the beams cannot give has had its turn and is not added.
LEMMA Starts ==
    ASSUME PointInv, InitialState
    PROVE  PointInv'
<1> DEFINE e == TotalEnergy(solutions[turn])
<1>1. /\ pc = "looping" /\ turn <= Len(solutions)
      /\ UNCHANGED <<setup, drawn, point, solutions, sum>>
      /\ IF BuildInitialState(e, 0, point.beam).ok THEN pc' = "partons" /\ turn' = turn
         ELSE pc' = "looping" /\ turn' = turn + 1
  BY DEF InitialState
<1>2. PointIsSolved /\ turn \in 1..(Len(solutions) + 1)
  BY <1>1 DEF PointInv, SumGrows
<1>3. turn \in 1..Len(solutions) /\ e \in Nat /\ point.beam \in Nat /\ Len(solutions) \in Nat
  BY <1>1, <1>2 DEF PointIsSolved
<1>4. sum \in Seq({solutions[i] : i \in 1..Len(solutions)})
  BY <1>1 DEF PointInv, SumGrows
<1>5. PICK at : Places(at)
  BY <1>1 DEF PointInv, SumGrows
<1>6. PointIsSolved'
  BY <1>1, <1>2 DEF PointIsSolved
<1>7. Configured' /\ DrawnByASource'
  BY <1>1 DEF PointInv, Configured, DrawnByASource
<1> HIDE DEF e
<1>8. CASE e <= point.beam
  <2>1. pc' = "partons" /\ turn' = turn
    BY <1>1, <1>3, <1>8, BeamsDecide
  <2>2. (Places(at))'
    BY <1>1, <1>5, <2>1 DEF Places
  <2>3. SumGrows'
    BY <1>1, <1>2, <1>4, <1>6, <1>8, <2>1, <2>2 DEF SumGrows, e
  <2> QED
    BY <1>7, <2>3 DEF PointInv
<1>9. CASE ~(e <= point.beam)
  <2>1. pc' = "looping" /\ turn' = turn + 1
    BY <1>1, <1>3, <1>9, BeamsDecide
  <2>2. {i \in 1..turn : TotalEnergy(solutions[i]) <= point.beam}
          = {i \in 1..(turn - 1) : TotalEnergy(solutions[i]) <= point.beam}
    <3>1. \A i : i \in 1..turn <=> i \in 1..(turn - 1) \/ i = turn
      BY <1>3
    <3> QED
      BY <1>9, <3>1 DEF e
  <2>3. turn' - 1 = turn /\ 1..(turn - 1) \subseteq 1..turn
    BY <1>3, <2>1
  <2>4. (Places(at))'
    <3>1. at \in [DOMAIN sum -> 1..turn]
      BY <1>5, <2>3 DEF Places
    <3> QED
      BY <1>1, <1>5, <2>2, <2>3, <3>1 DEF Places
  <2>5. turn' \in 1..(Len(solutions) + 1)
    BY <1>3, <2>1
  <2>6. SumGrows'
    BY <1>1, <1>4, <1>6, <2>1, <2>4, <2>5 DEF SumGrows
  <2> QED
    BY <1>7, <2>6 DEF PointInv
<1> QED
  BY <1>8, <1>9

\* The solution whose turn it is goes after those that are in the sum.
LEMMA Adds ==
    ASSUME PointInv, NEW x, Evaluate(x)
    PROVE  PointInv'
<1>1. /\ pc = "partons" /\ pc' = "looping" /\ turn' = turn + 1
      /\ sum' = Append(sum, solutions[turn])
      /\ UNCHANGED <<setup, drawn, point, solutions>>
  BY DEF Evaluate
<1>2. /\ PointIsSolved /\ turn \in 1..Len(solutions) /\ TotalEnergy(solutions[turn]) <= point.beam
      /\ Len(solutions) \in Nat
  BY <1>1 DEF PointInv, SumGrows, PointIsSolved
<1>3. sum \in Seq({solutions[i] : i \in 1..Len(solutions)})
  BY <1>1 DEF PointInv, SumGrows
<1>4. PICK at : Places(at)
  BY <1>1 DEF PointInv, SumGrows
<1>5. PointIsSolved'
  BY <1>1, <1>2 DEF PointIsSolved
<1>6. Configured' /\ DrawnByASource'
  BY <1>1 DEF PointInv, Configured, DrawnByASource
<1> DEFINE n == Len(sum)
           at2 == [i \in 1..(n + 1) |-> IF i = n + 1 THEN turn ELSE at[i]]
<1>7. n \in Nat /\ DOMAIN sum = 1..n
  BY <1>3
<1>8. /\ DOMAIN sum' = 1..(n + 1) /\ \A i \in 1..n : sum'[i] = sum[i]
      /\ sum'[n + 1] = solutions[turn]
  BY <1>1, <1>3
<1>9. sum' \in Seq({solutions[i] : i \in 1..Len(solutions)})
  <2> DEFINE T == {solutions[i] : i \in 1..Len(solutions)}
  <2>1. solutions[turn] \in T
    BY <1>2
  <2> HIDE DEF T
  <2> QED
    BY <1>1, <1>3, <2>1 DEF T
<1> HIDE DEF n
<1>10. /\ at \in [1..n -> 1..(turn - 1)] /\ \A i, j \in 1..n : i < j => at[i] < at[j]
       /\ {at[i] : i \in 1..n} = {i \in 1..(turn - 1) : TotalEnergy(solutions[i]) <= point.beam}
       /\ \A i \in 1..n : sum[i] = solutions[at[i]]
  BY <1>4, <1>7 DEF Places
<1>11. /\ \A i \in 1..n : at2[i] = at[i] /\ at[i] \in 1..(turn - 1) /\ at[i] \in 1..turn /\ at[i] < turn
       /\ at2[n + 1] = turn /\ turn \in 1..turn /\ turn \in Nat
       /\ \A i : i \in 1..(n + 1) <=> i \in 1..n \/ i = n + 1
       /\ \A i : i \in 1..turn <=> i \in 1..(turn - 1) \/ i = turn
  BY <1>2, <1>7, <1>10
<1>12. at2 \in [1..(n + 1) -> 1..turn]
  BY <1>11
<1> HIDE DEF at2
<1>13. \A i, j \in 1..(n + 1) : i < j => at2[i] < at2[j]
  <2> SUFFICES ASSUME NEW i \in 1..(n + 1), NEW j \in 1..(n + 1), i < j PROVE at2[i] < at2[j]
    OBVIOUS
  <2>1. i \in 1..n
    BY <1>7
  <2>2. CASE j \in 1..n
    BY <1>10, <1>11, <2>1, <2>2
  <2>3. CASE j = n + 1
    BY <1>11, <2>1, <2>3
  <2> QED
    BY <1>11, <2>2, <2>3
<1>14. {at2[i] : i \in 1..(n + 1)} = {i \in 1..turn : TotalEnergy(solutions[i]) <= point.beam}
  <2>1. ASSUME NEW i \in 1..(n + 1) PROVE at2[i] \in 1..turn /\ TotalEnergy(solutions[at2[i]]) <= point.beam
    <3>1. CASE i \in 1..n
      <4>1. at[i] \in {m \in 1..(turn - 1) : TotalEnergy(solutions[m]) <= point.beam}
        BY <1>10, <3>1
      <4> QED
        BY <1>11, <3>1, <4>1
    <3>2. CASE i = n + 1
      BY <1>2, <1>11, <3>2
    <3> QED
      BY <1>11, <3>1, <3>2
  <2>2. ASSUME NEW m \in 1..turn, TotalEnergy(solutions[m]) <= point.beam
        PROVE  \E i \in 1..(n + 1) : at2[i] = m
    <3>1. CASE m \in 1..(turn - 1)
      <4>1. m \in {at[i] : i \in 1..n}
        BY <1>10, <2>2, <3>1
      <4>2. PICK i \in 1..n : at[i] = m
        BY <4>1
      <4> QED
        BY <1>11, <4>2
    <3>2. CASE m = turn
      BY <1>11, <3>2
    <3> QED
      BY <1>11, <3>1, <3>2
  <2> QED
    BY <2>1, <2>2
<1>15. \A i \in 1..(n + 1) : sum'[i] = solutions[at2[i]]
  BY <1>8, <1>10, <1>11
<1>16. \E b : (Places(b))'
  <2>1. turn' - 1 = turn
    BY <1>1, <1>11
  <2>2. PICK b : b = at2
    OBVIOUS
  <2>3. b \in [DOMAIN sum' -> 1..(turn' - 1)]
    BY <1>8, <1>12, <2>1, <2>2
  <2>4. \A i, j \in DOMAIN sum' : i < j => b[i] < b[j]
    BY <1>8, <1>13, <2>2
  <2>5. {b[i] : i \in DOMAIN sum'} = {i \in 1..(turn' - 1) : TotalEnergy(solutions'[i]) <= point'.beam}
    BY <1>1, <1>8, <1>14, <2>1, <2>2
  <2>6. \A i \in DOMAIN sum' : sum'[i] = solutions'[b[i]]
    BY <1>1, <1>8, <1>15, <2>2
  <2>7. (Places(b))'
    BY <2>3, <2>4, <2>5, <2>6 DEF Places
  <2> QED
    BY <2>7
<1>17. turn' \in 1..(Len(solutions) + 1)
  BY <1>1, <1>2
<1>18. SumGrows'
  BY <1>1, <1>5, <1>9, <1>16, <1>17 DEF SumGrows
<1> QED
  BY <1>6, <1>18 DEF PointInv

LEMMA PointInvNext == PointInv /\ [Next]_vars => PointInv'
<1> SUFFICES ASSUME PointInv, [Next]_vars PROVE PointInv'
  OBVIOUS
<1>1. ASSUME NEW name \in DOMAIN Setups, Construct(name) PROVE PointInv'
  BY <1>1, OutsideOfALoop DEF Construct
<1>2. CASE BeginIntegration
  BY <1>2, OutsideOfALoop DEF BeginIntegration
<1>3. CASE EvaluateIntegrand
  BY <1>3, OutsideOfALoop DEF EvaluateIntegrand
<1>4. CASE EndIntegration
  BY <1>4, OutsideOfALoop DEF EndIntegration
<1>5. ASSUME NEW k \in 0..N, pc = "integrating", NEW g \in Now.sources, Generate(g, k) PROVE PointInv'
  BY <1>5, Generates
<1>6. ASSUME pc = "drawn", NEW p \in Now.points, SolveBlock(p) PROVE PointInv'
  BY <1>6, SolvesThePoint
<1>7. CASE InitialState
  BY <1>7, Starts
<1>8. CASE EndLoop
  BY <1>8, OutsideOfALoop DEF EndLoop
<1>9. ASSUME NEW x, Evaluate(x) PROVE PointInv'
  BY <1>9, Adds
<1>10. CASE UNCHANGED vars
  <2>1. /\ pc' = pc /\ setup' = setup /\ drawn' = drawn /\ point' = point
        /\ solutions' = solutions /\ turn' = turn /\ sum' = sum
    BY <1>10 DEF vars
  <2>2. Configured'
    BY <2>1 DEF PointInv, Configured
  <2>3. DrawnByASource'
    BY <2>1 DEF PointInv, DrawnByASource
  <2>4. PointIsSolved' = PointIsSolved
    BY <2>1 DEF PointIsSolved
  <2>5. \A b : Places(b)' = Places(b)
    BY <2>1 DEF Places
  <2> QED
    BY <2>1, <2>2, <2>3, <2>4, <2>5 DEF PointInv, SumGrows
<1> QED  BY <1>1, <1>2, <1>3, <1>4, <1>5, <1>6, <1>7, <1>8, <1>9, <1>10 DEF Next

LEMMA PointInvAlways == Spec => []PointInv
BY PointInvInit, PointInvNext, PTL DEF Spec

\* Only a block solves a point.
LEMMA SolvedByABlock ==
    ASSUME PointInv, [Next]_vars, Solved
    PROVE  /\ IsPoint(point') /\ \E name \in DOMAIN Setups : point' \in Setups[name].points
           /\ solutions' \in Emissions(point')
<1>1. \E p \in Now.points : SolveBlock(p)
  BY DEF Solved, Next, vars, Construct, BeginIntegration, EvaluateIntegrand, EndIntegration, Generate, InitialState,
         EndLoop, Evaluate
<1>2. PICK p \in Now.points : SolveBlock(p)
  BY <1>1
<1>3. setup \in DOMAIN Setups
  BY DEF PointInv, Configured, Solved
<1>4. IsPoint(p)
  BY <1>3, KernelAssumption DEF Now
<1>5. point' = p /\ solutions' \in Emissions(p)
  BY <1>2 DEF SolveBlock
<1> QED  BY <1>2, <1>3, <1>4, <1>5 DEF Now

-----------------------------------------------------------------------------
\* Whatever card and overrides a configuration has, an evaluation reads them:
\* no layer of the cached parameters is left behind.
THEOREM OverridesReachTheCouplings == Spec => []CouplingsAreFresh
<1>1. KernelInv => CouplingsAreFresh
  BY DEF KernelInv
<1> QED  BY <1>1, KernelInvAlways, PTL

\* Whatever vanishes at whatever points, skipping helicities loses nothing but
\* what gave nothing since they were last reset: no direction of a process, no
\* initial state and no later point.
THEOREM SkippingLosesNothing == Spec => []ResultIsWhole
<1>1. KernelInv => ResultIsWhole
  BY DEF KernelInv
<1> QED  BY <1>1, KernelInvAlways, PTL

\* Whatever histograms, widths, limits and particles the configurations have,
\* and whatever the number of coordinates, what is drawn is in the documented
\* interval, with its width for jacobian and the density the evaluator gives;
\* a Permutator gives its inputs, each of them once.
THEOREM GeneratorsStayInTheirSupport == Spec => []DrawnIsOfTheSupport
<1>1. ASSUME PointInv, drawn # None, Usable(drawn.source)
      PROVE  DrawnIsOfTheSupport
  <2>1. PICK g, k : /\ IsGenerator(g) /\ k \in 0..N
                    /\ drawn = [source |-> g, k |-> k, gen |-> Draw(g, k)]
    BY <1>1 DEF PointInv, DrawnByASource
  <2>2. drawn.source = g /\ drawn.k = k /\ drawn.gen = Draw(g, k)
    BY <2>1
  <2>3. CASE g.module = "Permutator"
    <3>1. Len(g.inputs) \in Nat
      BY <2>1, <2>3 DEF IsGenerator
    <3>2. Draw(g, k).value = Permutator(g.inputs, k)
      BY <2>3 DEF Draw
    <3>3. Permuted(Permutator(g.inputs, k), g.inputs)
      BY <2>1, <2>3, <3>1, PermutatorPermutes DEF IsGenerator
    <3> QED
      BY <2>2, <2>3, <3>2, <3>3 DEF DrawnIsOfTheSupport
  <2>4. CASE g.module # "Permutator"
    <3>1. Stays(g, k)
      BY <1>1, <2>1, <2>2, <2>4, FlatStays, GaussianStays, BinnedStays DEF IsGenerator
    <3> HIDE DEF None
    <3> QED
      BY <2>2, <2>4, <3>1 DEF DrawnIsOfTheSupport, Stays
  <2> QED
    BY <2>3, <2>4
<1>2. PointInv => DrawnIsOfTheSupport
  BY <1>1 DEF DrawnIsOfTheSupport
<1> QED  BY <1>2, PointInvAlways, PTL

\* At any point with any solutions, a Looper adds those the beams can produce,
\* each once and in the order of the block, and none of another point.
THEOREM EverySolutionIsAddedOnce == Spec => []SumIsOfThisPoint
<1>1. PointInv => SumIsOfThisPoint
  BY DEF PointInv, SumGrows, SumIsOfThisPoint, Places
<1> QED  BY <1>1, PointInvAlways, PTL

\* If solve2Quads() and solveQuartic() find the solutions of the systems they are
\* given, no block loses one: whatever the coefficients of its equations, at a
\* point in general position a block emits every solution with positive energies
\* that the beams can give, SolutionsAreAllFound: both of a SecondaryBlockCD whose
\* p1 is massive, when both are genuine.  Of the linear and the quadratic
\* equations nothing is supposed.
THEOREM BlocksLoseNothing ==
    ASSUME SystemsAreSolved
    PROVE  Spec => SolutionsAreAllFound
<1> DEFINE Found == Solved /\ Regular(point') =>
                      \A e \in Exact(point') :
                         Possible(point', e) /\ AboveThreshold(point', e) => e \in Energies(solutions')
<1>1. ASSUME PointInv, [Next]_vars PROVE [Found]_vars
  <2>1. ASSUME Solved, Regular(point'), NEW e \in Exact(point'), Possible(point', e), AboveThreshold(point', e)
        PROVE  e \in Energies(solutions')
    BY <1>1, <2>1, SolvedByABlock, ExactIsEmitted
  <2> QED  BY <2>1
<1> QED  BY <1>1, PointInvAlways, PTL DEF Spec, SolutionsAreAllFound
=============================================================================
