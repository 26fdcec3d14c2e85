------------------------------ MODULE Generators ------------------------------
(***************************************************************************)
(* The modules that turn a coordinate of the phase-space point, a number   *)
(* of [0, 1], into an energy, a momentum, an angle, an invariant or an     *)
(* assignment of particles, and give the jacobian of the change of         *)
(* variable; and the small modules that combine what others produce.       *)
(* Energies are integers; a coordinate is k/N, and what is linear in it is *)
(* given N times larger.                                                   *)
(***************************************************************************)
EXTENDS Integers, Sequences, FiniteSets, FiniteSetsExt, SequencesExt

CONSTANT N      \* the coordinates are 0/N .. N/N

ASSUME NAssumption == N \in Nat \ {0}

LargerOf(x, y)  == IF x > y THEN x ELSE y
SmallerOf(x, y) == IF x < y THEN x ELSE y

\* The change of variable from [0, 1] to [from, to].
Stretched(from, to, k) == [value |-> from * N + (to - from) * k, jacobian |-> to - from]
WithDensity(x, density) == [value |-> x.value, jacobian |-> x.jacobian, density |-> density]

-----------------------------------------------------------------------------
(* Transfer functions read from a two-dimensional histogram h, in bins of  *)
(* width 1: genAxis..genMax for the generated energy, deltaMin..deltaMax   *)
(* for the measured energy less the generated one; genMin is the lower     *)
(* limit of the former, or the cut that replaces it.                       *)

BinnedOnEnergyBase(h, minE) == [h EXCEPT !.genMin = LargerOf(h.genAxis, minE)]
BinnedOnPtBase(h, minPt)    == [h EXCEPT !.genMin = LargerOf(h.genAxis, minPt)]

\* GetDeltaMax() of the two modules
DeltaMaxOnEnergy(h, rec, mass) ==
    IF rec <= mass \/ h.deltaMax <= mass THEN 0
    ELSE SmallerOf(h.deltaMax, rec - h.genMin) - mass
\* Mutant: the cut on the generated energy is forgotten.
DeltaMaxWithoutCut(h, rec) == h.deltaMax
DeltaMaxOnPt(h, rec) == SmallerOf(h.deltaMax, rec - h.genMin)

\* FindFixBin() on one axis: 0 below its range, the last number above it.
Bin(from, to, value) ==
    IF value < from * N THEN 0
    ELSE IF value >= to * N THEN to - from + 1 ELSE 1 + (value - from * N) \div N
\* The bin of the histogram; an energy above its range is in the last bin.
Content(h, rec, gen) ==
    <<Bin(h.genAxis, h.genMax, SmallerOf(gen, h.genMax * N - 1)),
      Bin(h.deltaMin, h.deltaMax, rec * N - gen)>>

BinnedOnEnergy(h, rec, mass, k) ==
    LET top == DeltaMaxOnEnergy(h, rec, mass)
        gen == Stretched(rec - top, rec - h.deltaMin, k)
    IN  WithDensity(gen, Content(h, rec, gen.value))
BinnedOnPt(h, rec, k) ==
    LET top == DeltaMaxOnPt(h, rec)
        gen == Stretched(rec - top, rec - h.deltaMin, k)
    IN  WithDensity(gen, Content(h, rec, gen.value))

Inside(h, rec, gen) == h.deltaMin * N < rec * N - gen /\ rec * N - gen < h.deltaMax * N
Nothing == <<0, 0>>
BinnedOnEnergyEvaluator(h, rec, gen) == IF Inside(h, rec, gen) THEN Content(h, rec, gen) ELSE Nothing
BinnedOnPtEvaluator(h, rec, gen)     == IF Inside(h, rec, gen) THEN Content(h, rec, gen) ELSE Nothing

-----------------------------------------------------------------------------
(* Gaussian transfer functions, width = sigma_range * sigma * rec.  The    *)
(* density is that of the measured energy, of a law around the generated   *)
(* one whose width is a fraction of sigmaOf.                               *)

Normal(gen, sigmaOf, rec) == [at |-> gen, sigmaOf |-> sigmaOf, mean |-> rec]

GaussianOnEnergy(rec, mass, width, minE, k) ==
    LET gen == Stretched(LargerOf(LargerOf(minE, mass), rec - width), rec + width, k)
    IN  WithDensity(gen, Normal(gen.value, gen.value, rec))
GaussianOnPt(rec, width, minPt, k) ==
    LET gen == Stretched(LargerOf(minPt, rec - width), rec + width, k)
    IN  WithDensity(gen, Normal(gen.value, gen.value, rec))
GaussianOnEnergyEvaluator(rec, gen) == Normal(gen, gen, rec)
GaussianOnPtEvaluator(rec, gen)     == Normal(gen, gen, rec)

-----------------------------------------------------------------------------
(* Flat distributions; angles are in units of pi.                          *)

FlatOnP(min, max, k)          == Stretched(min, max, k)
FlatOnTheta(k)                == Stretched(0, 1, k)
FlatOnPhi(k)                  == Stretched(0, 2, k)
UniformGenerator(min, max, k) == Stretched(min, max, k)

\* s is increasing in y, which goes from -atan(mass/width), where s is null, up
\* to pi/2; y is counted from there, in units in which the range is given.
BreitWignerGenerator(range, k) == Stretched(0, range, k)

-----------------------------------------------------------------------------
(* Modules that combine their inputs.                                      *)

\* The permutations of 1..n, in the order in which std::next_permutation() gives
\* them, and the one a coordinate chooses of them.
Orders(n) == {f \in [1..n -> 1..n] : \A i, j \in 1..n : f[i] = f[j] => i = j}
Before(n, f, g) == \E i \in 1..n : f[i] < g[i] /\ \A j \in 1..(i - 1) : f[j] = g[j]
Preceding(n, f) == {g \in Orders(n) : Before(n, g, f)}
Chosen(count, k) == (2 * k * (count - 1) + N) \div (2 * N)
Permutator(inputs, k) ==
    LET n == Len(inputs)
        f == CHOOSE g \in Orders(n) : Cardinality(Preceding(n, g)) = Chosen(Cardinality(Orders(n)), k)
    IN  [i \in 1..n |-> inputs[f[i]]]

\* Twice the energies of the two partons; NEXT when the beams cannot give them.
Partons(energy, pz) == <<pz + energy, pz - energy>>
BuildInitialState(energy, pz, sqrtS) ==
    [partons |-> Partons(energy, pz),
     ok |-> \A i \in 1..2 : -sqrtS <= Partons(energy, pz)[i] /\ Partons(energy, pz)[i] <= sqrtS]
=============================================================================
