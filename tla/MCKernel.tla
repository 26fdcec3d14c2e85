------------------------------- MODULE MCKernel -------------------------------
(* Instances of module Kernel: small configurations, each of which exercises *)
(* one of the modules of a point in full and the others with a single case.  *)
EXTENDS Kernel

Equation(c20, c02, c11, c10, c01, c00) ==
    [c20 |-> c20, c02 |-> c02, c11 |-> c11, c10 |-> c10, c01 |-> c01, c00 |-> c00]
Combined(i, P, j, Q) == [c \in DOMAIN P |-> i * P[c] + j * Q[c]]

\* (E1 - x1)(E1 - x2) and (E2 - y1)(E2 - y2), combined so that they meet in the
\* corners of a rectangle.
Rectangles ==
    {<<Combined(m[1], P, m[2], Q), Combined(m[3], P, m[4], Q)>> :
        P \in {Equation(1, 0, 0, -(x + 3), 0, 3 * x) : x \in {-2, 1, 2}},
        Q \in {Equation(0, 1, 0, 0, -(y + 3), 3 * y) : y \in {-1, 1, 3}} \cup {Equation(0, 1, 0, 0, 0, -4)},
        m \in {<<1, 1, 1, -1>>, <<1, 2, 1, 1>>}}
\* A circle-like conic and two lines, then a product of lines and a product of
\* diagonals: (E1 - x)(E2 - y) and (E1 + E2 - s)(E1 - E2 - t).
Lines ==
    {<<Equation(0, 0, 1, -z[2], -z[1], z[1] * z[2]),
       Equation(1, -1, 0, -(z[3] + z[4]), z[3] - z[4], z[3] * z[4])>> :
        z \in {<<1, 2, 3, 1>>, <<3, 1, 2, 0>>, <<1, 2, 3, -1>>, <<2, 2, 6, 2>>, <<2, 1, 5, -1>>, <<-1, 2, 5, 1>>}}
\* Without squares: two hyperbolas, or two lines.
Bilinear ==
    {<<Equation(0, 0, 1, -y, -x, x * y), Equation(0, 0, 0, 1, 1, -s)>> : x \in {1, 2}, y \in {1, 3}, s \in {5, 9}}
Linear == {<<Equation(0, 0, 0, 1, a, -b), Equation(0, 0, 0, 1, 1, -4)>> : a \in {-1, 1, 0}, b \in {2, 4, 5}}

TwoUnknowns(block, systems) ==
    {[block |-> block, beam |-> 7, unphysical |-> FALSE, degenerate |-> FALSE, slope |-> 1, offset |-> 0,
      A |-> s[1], B |-> s[2]] : s \in systems}
\* The beams give what two energies of 4 in all need, and not what 6 needs.
OneUnknown(block) ==
    {[block |-> block, beam |-> 4, unphysical |-> FALSE, degenerate |-> FALSE, slope |-> 1, offset |-> 1,
      total |-> IF a = 1 THEN 4 ELSE 6, m1 |-> 1, a |-> a, b |-> -a * (x + y), c |-> a * x * y] :
        a \in {1, -2}, x \in {-1, 1, 4}, y \in {0, 1, 3}}
    \cup {[block |-> block, beam |-> 4, unphysical |-> FALSE, degenerate |-> FALSE, slope |-> 1, offset |-> 1,
           total |-> 4, m1 |-> 1, a |-> e[1], b |-> e[2], c |-> e[3]] :
             e \in {<<0, 1, -3>>, <<0, 0, 1>>, <<1, 0, 4>>, <<1, 0, -4>>, <<0, 1, -2>>}}
\* <<E2, |p2| cos(theta12), m1, k>>: a massless p1 has one root of each sign.  For a
\* massive one both are genuine (13 and 15; 10 and 17), neither is, one is, or
\* one is at the threshold; then p2 is massless and along p1, or across it.
Squared ==
    {[block |-> "SecondaryBlockCD", beam |-> 9, unphysical |-> FALSE, degenerate |-> FALSE,
      E2 |-> q[1], p2cos |-> q[2], m1 |-> q[3], k |-> q[4]] :
        q \in {<<e[1], e[2], 0, -2 * (e[1] - e[2]) * (e[1] + e[2]) * j>> :
                 e \in {<<3, 1>>, <<3, -1>>, <<5, 3>>, <<5, 4>>}, j \in {1, 2}}
        \cup {<<2, 1, 12, -42>>, <<9, 7, 8, -96>>, <<2, -1, 12, -42>>, <<7, 1, 12, -192>>, <<7, -1, 12, -192>>,
              <<2, 1, 3, -12>>, <<2, -1, 3, -12>>, <<5, 4, 3, -18>>, <<2, 1, 4, -1>>}
        \cup {<<2, 2, 0, -8>>, <<2, -2, 0, -8>>, <<1, 1, 4, -16>>, <<1, -1, 4, -16>>, <<1, 1, 1, -2>>}
        \cup {<<1, 0, 0, -2>>, <<1, 0, 3, -10>>}}
Quartics ==
    {[block |-> "BlockG", beam |-> 16, unphysical |-> FALSE, degenerate |-> FALSE,
      alpha1 |-> g[1], beta1 |-> g[2], gamma1 |-> g[3], alpha2 |-> g[4], beta2 |-> g[5], gamma2 |-> g[6],
      X |-> g[7], Y |-> g[8]] :
        g \in {<<1, 1, -6, 1, 1, -6, 6, 1>>, <<-1, -1, 6, -1, -1, 6, 6, 1>>, <<1, -2, 3, -1, 2, 3, 4, 5>>,
               <<-1, 1, -3, -1, 1, 3, 6, 16>>, <<1, 1, 2, 1, 1, -2, 6, 21>>}}
\* The same points where an invariant is out of range, or a denominator null.
Refused(all) ==
    LET p == CHOOSE q \in all : TRUE
    IN  {[p EXCEPT !.unphysical = TRUE], [p EXCEPT !.degenerate = TRUE]}

Systems(block) ==
    CASE block = "BlockD" -> Rectangles \cup Bilinear
      [] block = "BlockC" -> Lines \cup Linear
      [] block = "SecondaryBlockE" -> Lines \cup Bilinear
PointsOf(block) ==
    LET regular == CASE block = "BlockA" -> TwoUnknowns(block, Linear)
                     [] block \in {"BlockC", "BlockD", "SecondaryBlockE"} ->
                           TwoUnknowns(block, Systems(block))
                     [] block = "BlockG" -> Quartics
                     [] block = "SecondaryBlockCD" -> Squared
                     [] OTHER -> OneUnknown(block)
    IN  regular \cup Refused(regular)
OnePoint == {p \in OneUnknown("BlockB") : p.a = 1 /\ p.b = -4 /\ p.c = 3}
Secondary2 == {p \in OneUnknown("SecondaryBlockA") : p.a = 1 /\ p.b \in {-4, -5}}

Generated ==
    {[module |-> m, rec |-> r, mass |-> x, min |-> i,
      h |-> [genAxis |-> 2, genMin |-> 2, genMax |-> 8, deltaMin |-> -2, deltaMax |-> d]] :
        m \in {"BinnedTransferFunctionOnEnergy", "BinnedTransferFunctionOnPt"},
        r \in {1, 4, 6}, x \in {0, 1}, i \in {0, 3, 5}, d \in {1, 3}}
    \cup {[module |-> m, rec |-> r, mass |-> 2, width |-> 3, min |-> i] :
        m \in {"GaussianTransferFunctionOnEnergy", "GaussianTransferFunctionOnPt"},
        r \in {1, 6}, i \in {0, 4, 9}}
    \cup {[module |-> m, low |-> 1, high |-> 4] :
        m \in {"FlatTransferFunctionOnP", "UniformGenerator"}}
    \cup {[module |-> m] : m \in {"FlatTransferFunctionOnTheta", "FlatTransferFunctionOnPhi"}}
    \cup {[module |-> "BreitWignerGenerator", low |-> 0, high |-> 3]}
    \cup {[module |-> "Permutator", inputs |-> i] : i \in {<<"p">>, <<"p", "q">>, <<"p", "q", "r">>}}
OneGenerator == {[module |-> "FlatTransferFunctionOnPhi"]}

-----------------------------------------------------------------------------
Card == [n \in Names |-> 1]
NothingVanishes == [direct |-> {}, mirror |-> {}, nan |-> {}]
Simple(calls, sources, pts) ==
    [calls |-> calls, process |-> "WW", card |-> Card, override |-> <<>>, particles |-> <<-11, 12, 13, -14>>,
     indices |-> <<1, 2, 3, 4>>, sources |-> sources, points |-> pts, accidents |-> {NothingVanishes}]

\* Rows 25 and 34 of the tables of helicities are among those that contribute.
WW(override) ==
    [Simple(2, OneGenerator, OnePoint) EXCEPT
        !.override = override, !.particles = <<12, 13, -11, -14>>, !.indices = <<2, 3, 1, 4>>,
        !.accidents = {NothingVanishes, [direct |-> {25}, mirror |-> {}, nan |-> {}],
                       [direct |-> {25}, mirror |-> {25}, nan |-> {41}]}]
Top(override) ==
    [Simple(2, OneGenerator, OnePoint) EXCEPT
        !.process = "ttbar", !.override = override,
        !.particles = <<14, 5, -13, 13, -5, -14>>, !.indices = <<2, 3, 1, 4, 6, 5>>,
        !.accidents = {NothingVanishes, [direct |-> {34, 98}, mirror |-> {98}, nan |-> {}],
                       [direct |-> {34}, mirror |-> {34}, nan |-> {35, 0}]}]
AllSetups ==
    [generators |-> Simple(1, Generated, OnePoint), secondary |-> Simple(1, OneGenerator, Secondary2),
     WW |-> WW(<<>>), WWOverridden |-> WW([EW |-> 2, unknown |-> 3]),
     ttbar |-> Top(<<>>), ttbarOverridden |-> Top([MB |-> 0, aS |-> 2])]
    @@ [b \in Blocks |-> Simple(1, OneGenerator, PointsOf(b))]

\* What the proof that no solution is lost supposes of the solvers.
ASSUME SolversAssumption == SystemsAreSolved
=============================================================================
