-------------------------------- MODULE Blocks --------------------------------
(***************************************************************************)
(* The blocks, modules/Block*.cc and modules/SecondaryBlock*.cc: work()    *)
(* reduces the kinematics of a phase-space point to an equation, gives it  *)
(* to a solver of module Solvers, and keeps the candidates that pass its   *)
(* tests.                                                                  *)
(*                                                                         *)
(* A point p is the equation its kinematics come to, the outcome of the    *)
(* test on the invariant masses that work() makes first (p.unphysical),    *)
(* whether a denominator vanishes (p.degenerate), and the largest energy   *)
(* the beams can give (p.beam).  A candidate is the list of its energies   *)
(* (or momenta), and whether it meets the equations before they were       *)
(* squared or divided, which the tests on the invariants look at again.    *)
(***************************************************************************)
EXTENDS Solvers, FiniteSetsExt

Finite(energies, holds) == [e |-> energies, finite |-> TRUE, holds |-> holds]
NaN == [e |-> <<>>, finite |-> FALSE, holds |-> FALSE]

\* The candidates for the roots of an equation in one unknown.
FromRoots(roots, Candidate(_)) == [i \in DOMAIN roots |-> Candidate(roots[i])]
\* The candidates the code reads at the same index of two lists.
FromLists(r, Candidate(_, _)) == [i \in DOMAIN r.E1 |-> Candidate(r.E1[i], r.E2[i])]

Parabola(p, x) == p.a * SQ(x) + p.b * x + p.c

\* |p1| and |p2| that balance the transverse momentum of the branches.
BlockA(p) ==
    FromLists(TwoLinear(p.A, p.B), LAMBDA x, y : Finite(<<x, y>>, Solves(p.A, p.B, x, y)))
\* E1 from the mass shell of p1.
BlockB(p) ==
    FromRoots(Quadratic(p.a, p.b, p.c), LAMBDA x : Finite(<<x>>, Parabola(p, x) = 0))
\* E1 and a parameter that gives E3.
BlockC(p) ==
    FromLists(Conics(p.A, p.B), LAMBDA x, y :
        Finite(<<x, p.slope * y + p.offset>>, Solves(p.A, p.B, x, y)))
\* E1 and E2 from two mass shells.
BlockD(p) ==
    FromLists(Conics(p.A, p.B), LAMBDA x, y : Finite(<<x, y>>, Solves(p.A, p.B, x, y)))
\* p2y, which gives E2, and E1 by the total energy s_hat and y_tot ask for.
BlockE(p) ==
    FromRoots(Quadratic(p.a, p.b, p.c), LAMBDA x :
        Finite(<<p.total - (p.slope * x + p.offset), p.slope * x + p.offset>>, Parabola(p, x) = 0))
\* The same, with the total energy of two phase-space points.
BlockF(p) ==
    FromRoots(Quadratic(p.a, p.b, p.c), LAMBDA x :
        Finite(<<p.total - (p.slope * x + p.offset), p.slope * x + p.offset>>, Parabola(p, x) = 0))
\* The roots |p3| of the equation that is left when |p4| is X/|p3|.
InP3(p) ==
    Quartic(p.alpha1 * p.alpha2, p.alpha1 * p.gamma2 + p.gamma1 * p.alpha2,
            p.gamma1 * p.gamma2 + (p.beta1 * p.alpha2 + p.alpha1 * p.beta2) * p.X - p.Y,
            (p.beta1 * p.gamma2 + p.gamma1 * p.beta2) * p.X,
            p.beta1 * p.beta2 * SQ(p.X))
\* |p3|, then |p4| = X/|p3|, and |p1|, |p2| linear in both.
BlockG(p) ==
    FromRoots(InP3(p), LAMBDA x :
        LET y  == Div(p.X, x)
            p1 == p.alpha1 * x + p.beta1 * y + p.gamma1
            p2 == p.alpha2 * x + p.beta2 * y + p.gamma2
        IN  IF x = 0 THEN NaN
            ELSE Finite(<<p1, p2, x, y>>, p1 * p2 = p.Y /\ x * y = p.X))
\* E1 from the mass shell of p1, as in BlockB.
SecondaryBlockA(p) ==
    FromRoots(Quadratic(p.a, p.b, p.c), LAMBDA x : Finite(<<x>>, Parabola(p, x) = 0))
\* E1, which gives the transverse momentum of p1.
SecondaryBlockB(p) ==
    FromRoots(Quadratic(p.a, p.b, p.c), LAMBDA x :
        Finite(<<x, p.slope * x + p.offset>>, Parabola(p, x) = 0))
\* E1 from the square of k + 2 E1 E2 = 2 |p1| |p2| cos(theta12), where k is
\* m1^2 + m2^2 - s12.  For a massive p1 two roots may have the sign of the
\* cosine.  Below m1 there is no |p1| to look at, and the tests need none.
Norm(m, x) == SquareRoot(SQ(x) - SQ(m))
WithEnergy(p, x) ==
    Finite(<<x>>, x >= p.m1 /\ p.k + 2 * x * p.E2 = 2 * Norm(p.m1, x) * p.p2cos)
\* Mutant: the mass of p1 is missing in the constant term.
SecondaryBlockCDOfMassless(p) ==
    FromRoots(Quadratic(4 * SQ(p.E2) - 4 * SQ(p.p2cos), 4 * p.E2 * p.k, SQ(p.k)),
              LAMBDA x : WithEnergy(p, x))
SecondaryBlockCD(p) ==
    FromRoots(Quadratic(4 * SQ(p.E2) - 4 * SQ(p.p2cos), 4 * p.E2 * p.k,
                        SQ(p.k) + 4 * SQ(p.m1) * SQ(p.p2cos)),
              LAMBDA x : WithEnergy(p, x))
\* |p1| and |p2|, which the code asks for in the other order.
SecondaryBlockE(p) ==
    FromLists(Conics(p.A, p.B), LAMBDA x, y : Finite(<<y, x>>, Solves(p.A, p.B, x, y)))

Solve(p) ==
    CASE p.block = "BlockA" -> BlockA(p) [] p.block = "BlockB" -> BlockB(p)
      [] p.block = "BlockC" -> BlockC(p) [] p.block = "BlockD" -> BlockD(p)
      [] p.block = "BlockE" -> BlockE(p) [] p.block = "BlockF" -> BlockF(p)
      [] p.block = "BlockG" -> BlockG(p) [] p.block = "SecondaryBlockA" -> SecondaryBlockA(p)
      [] p.block = "SecondaryBlockB" -> SecondaryBlockB(p)
      [] p.block = "SecondaryBlockCD" -> SecondaryBlockCD(p)
      [] p.block = "SecondaryBlockE" -> SecondaryBlockE(p)

-----------------------------------------------------------------------------
(* The tests.  A comparison with a NaN is false: `if (E1 <= 0) continue'   *)
(* lets it pass, `if (!ApproxComparison(...)) continue' does not.  The     *)
(* tests of M/E against m/E are left out: their tolerance of 1 lets every  *)
(* finite momentum pass.                                                   *)

Positive(c)    == c.finite => \A i \in DOMAIN c.e : c.e[i] > 0
NotNegative(c) == c.finite => \A i \in DOMAIN c.e : c.e[i] >= 0
EnergyOf(e)    == FoldSeq(LAMBDA x, y : x + y, 0, e)
InBeam(p, c)   == c.finite => EnergyOf(c.e) <= p.beam
\* The momenta put together give the invariant masses and the null transverse
\* momentum that the equations stand for.
Confirmed(c)   == c.finite /\ c.holds

BlockATests(p, c) == NotNegative(c) /\ InBeam(p, c) /\ Confirmed(c)
BlockBTests(p, c) == Positive(c) /\ InBeam(p, c) /\ Confirmed(c)
BlockCTests(p, c) == Positive(c) /\ InBeam(p, c) /\ Confirmed(c)
BlockDTests(p, c) == Positive(c) /\ InBeam(p, c) /\ Confirmed(c)
BlockETests(p, c) == Positive(c) /\ InBeam(p, c) /\ Confirmed(c)
BlockFTests(p, c) == Positive(c) /\ InBeam(p, c) /\ Confirmed(c)
BlockGTests(p, c) == NotNegative(c) /\ InBeam(p, c) /\ Confirmed(c)
SecondaryBlockATests(p, c) == Positive(c) /\ Confirmed(c)
SecondaryBlockBTests(p, c) ==
    (c.finite => c.e[1] > p.m1 /\ c.e[2] >= 0) /\ Confirmed(c)
SecondaryBlockCDTests(p, c) ==
    /\ Positive(c)
    /\ c.finite => c.e[1] > p.m1
    /\ c.finite => (p.k + 2 * c.e[1] * p.E2) * p.p2cos >= 0
    /\ Confirmed(c)
SecondaryBlockETests(p, c) == Positive(c) /\ Confirmed(c)

Passes(p, c) ==
    CASE p.block = "BlockA" -> BlockATests(p, c) [] p.block = "BlockB" -> BlockBTests(p, c)
      [] p.block = "BlockC" -> BlockCTests(p, c) [] p.block = "BlockD" -> BlockDTests(p, c)
      [] p.block = "BlockE" -> BlockETests(p, c) [] p.block = "BlockF" -> BlockFTests(p, c)
      [] p.block = "BlockG" -> BlockGTests(p, c)
      [] p.block = "SecondaryBlockA" -> SecondaryBlockATests(p, c)
      [] p.block = "SecondaryBlockB" -> SecondaryBlockBTests(p, c)
      [] p.block = "SecondaryBlockCD" -> SecondaryBlockCDTests(p, c)
      [] p.block = "SecondaryBlockE" -> SecondaryBlockETests(p, c)

\* The loop over the candidates.
Kept(p, candidates) ==
    LET upTo[i \in 0..Len(candidates)] ==
            IF i = 0 THEN <<>>
            ELSE upTo[i - 1] \o (IF Passes(p, candidates[i]) THEN <<candidates[i]>> ELSE <<>>)
    IN  upTo[Len(candidates)]

\* What work() leaves in `solutions'; it returns NEXT if that is nothing.  With
\* a null denominator the solvers are given infinities and NaNs, of which they
\* make roots or not.
Emissions(p) ==
    CASE p.unphysical -> {<<>>}
      [] ~p.unphysical /\ p.degenerate -> {Kept(p, <<>>), Kept(p, <<NaN>>), Kept(p, <<NaN, NaN>>)}
      [] OTHER -> {Kept(p, Solve(p))}
=============================================================================
