---------------------------- MODULE MatrixElements ----------------------------
(***************************************************************************)
(* The generated matrix elements of MatrixElements/ and the module that    *)
(* calls them, modules/MatrixElement.cc, as operators on the object        *)
(*                                                                         *)
(*   me.process   "ttbar" or "WW"                                          *)
(*   me.params    the parameters, in the four layers in which they are     *)
(*                cached: the card, what cacheParameters() copies from it, *)
(*                the couplings cacheCouplings() makes of the copy, and    *)
(*                those that update...() make before an evaluation         *)
(*   me.goodHel   for each subprocess, the helicity combinations that are  *)
(*                still evaluated                                          *)
(*                                                                         *)
(* A parameter stands for those that enter the same coupling: "EW" for     *)
(* aEWM1, Gf and the mass of the Z, "aS", "MB" for the mass of the b.      *)
(* A matrix element squared is the set of the helicity combinations that   *)
(* contribute to it.                                                       *)
(***************************************************************************)
EXTENDS HelAmps, SequencesExt

Names == {"MB", "EW", "aS"}

SubProcesses(process) == IF process = "ttbar" THEN {"gg", "uux"} ELSE {"uux", "ddx"}
Legs(process)         == IF process = "ttbar" THEN 8 ELSE 6
FinalState(process) ==
    IF process = "ttbar" THEN <<-13, 14, 5, 13, -14, -5>> ELSE <<-11, 12, 13, -14>>
HasMirror(sub) == sub # "gg"
InitialStates(process, sub) ==
    CASE sub = "gg" -> {<<21, 21>>}
      [] sub = "ddx" -> {<<1, -1>>, <<3, -3>>}
      [] sub = "uux" /\ process = "WW" -> {<<2, -2>>, <<4, -4>>}
      [] OTHER -> {<<2, -2>>, <<4, -4>>, <<1, -1>>, <<3, -3>>}
Combinations(process) == 0..(Pow2[Legs(process)] - 1)

-----------------------------------------------------------------------------
(* Parameters_sm and MEParameters                                          *)

\* setParameter() of every name of a configuration; the others are ignored.
setParameter(p, override) ==
    [p EXCEPT !.card = [n \in DOMAIN @ |-> IF n \in DOMAIN override THEN override[n] ELSE @[n]]]
cacheParameters(p)  == [p EXCEPT !.mdl = p.card]
cacheCouplings(p)   == [p EXCEPT !.GC_100 = p.mdl["EW"]]
updateParameters(p) == [p EXCEPT !.G = p.mdl["aS"]]
updateCouplings(p)  == [p EXCEPT !.GC_11 = p.G]

Unset == -1
NewParameters(card) ==
    cacheCouplings(cacheParameters(
        [card |-> card, mdl |-> [n \in Names |-> Unset], GC_100 |-> Unset,
         G |-> Unset, GC_11 |-> Unset]))

\* What an evaluation reads.
Read(p) == [GC_100 |-> p.GC_100, GC_11 |-> p.GC_11, massiveB |-> p.mdl["MB"] # 0]

-----------------------------------------------------------------------------
(* The object                                                              *)

\* Mutant: what vanished in the last integration stays out of this one.
resetNothing(me) == me
resetHelicities(me) ==
    [me EXCEPT !.goodHel = [s \in DOMAIN me.goodHel |-> Combinations(me.process)]]

NewMatrixElement(process, card) ==
    [process |-> process, params |-> NewParameters(card),
     goodHel |-> [s \in SubProcesses(process) |-> Combinations(process)]]

\* Mutant: the couplings are made before the parameters are copied.
OverriddenTooLate(me, override) ==
    IF DOMAIN override = {} THEN me
    ELSE [me EXCEPT !.params = cacheParameters(cacheCouplings(setParameter(@, override)))]

\* The constructor of the module, with the parameters it overrides, if any.
Overridden(me, override) ==
    IF DOMAIN override = {} THEN me
    ELSE [me EXCEPT !.params = cacheCouplings(cacheParameters(setParameter(@, override)))]

\* The particles, in the order of me_index: get_permutations() finds each
\* position in `indices', whose end stands for one that is not there.
Sorted(particles, indices) ==
    LET n == Len(indices)
        p == [i \in 1..n |-> LET at == {j \in 1..n : indices[j] = i}
                             IN  IF at = {} THEN n + 1 ELSE CHOOSE j \in at : \A k \in at : j <= k]
    IN  [i \in 1..n |-> particles[p[i]]]

\* The combinations whose squared amplitude is not null by structure.
Contributes(process, sub, ihel, massiveB) ==
    LET hel == helicities(Legs(process), ihel)
    IN  CASE process = "ttbar" /\ sub = "gg" -> matrix_1_gg(TopAmplitudes(hel, massiveB))
          [] process = "ttbar" /\ sub = "uux" -> matrix_1_uux(TopAmplitudes(hel, massiveB))
          [] process = "WW" /\ sub = "uux" -> matrix_1_WWuux(WWAmplitudes(hel))
          [] process = "WW" /\ sub = "ddx" -> matrix_1_WWddx(WWAmplitudes(hel))
Structural ==
    [k \in {<<"ttbar", "gg">>, <<"ttbar", "uux">>, <<"WW", "uux">>, <<"WW", "ddx">>} \X BOOLEAN |->
        {h \in Combinations(k[1][1]) : Contributes(k[1][1], k[1][2], h, k[2])}]

\* compute(): at a point, the amplitudes of at.direct, and of at.mirror with the
\* initial partons exchanged, vanish although their structure does not; those
\* of at.nan are not numbers.  A sum that is not a number is not null.
Values(me, at, sub) ==
    LET structural == Structural[<<<<me.process, sub>>, me.params.mdl["MB"] # 0>>]
    IN  [direct |-> structural \ at.direct,
         mirror |-> IF HasMirror(sub) THEN structural \ at.mirror ELSE {}]
Updated(me) == [me EXCEPT !.params = updateCouplings(updateParameters(@))]
Evaluated(me, at) ==
    [me EXCEPT !.goodHel = [s \in DOMAIN me.goodHel |->
        LET v == Values(me, at, s)
        IN  {h \in me.goodHel[s] : h \in v.direct \/ h \in v.mirror \/ h \in at.nan}]]
Summed(me, at, sub) ==
    LET v == Values(me, at, sub)
    IN  [direct |-> v.direct \cap me.goodHel[sub], mirror |-> v.mirror \cap me.goodHel[sub],
         nan |-> at.nan \cap me.goodHel[sub]]

\* The map from initial states to squared matrix elements; empty for a final
\* state the object does not know.
Swap(pair) == <<pair[2], pair[1]>>
Result(me, at, finalState) ==
    IF finalState # FinalState(me.process) THEN <<>>
    ELSE LET Direct(s) == InitialStates(me.process, s)
             Mirror(s) == {Swap(i) : i \in {j \in Direct(s) : HasMirror(s)}}
             Of(pair) == CHOOSE s \in SubProcesses(me.process) : pair \in Direct(s) \cup Mirror(s)
         IN  [pair \in UNION {Direct(s) \cup Mirror(s) : s \in SubProcesses(me.process)} |->
                 LET sum == Summed(me, at, Of(pair))
                 IN  IF pair \in Direct(Of(pair)) THEN sum.direct \cup sum.nan
                     ELSE sum.mirror \cup sum.nan]
=============================================================================
