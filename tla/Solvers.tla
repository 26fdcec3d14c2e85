------------------------------- MODULE Solvers -------------------------------
(***************************************************************************)
(* The equation solvers of core/src/Math.cc, which every block relies on.  *)
(* A double is an integer: the equations given to the solvers are such     *)
(* that every quotient and every root the code takes is exact, so that     *)
(* what is modelled is the choice of the branches and of the roots, not    *)
(* the rounding.  The operators return the roots the code appends, in the  *)
(* order it appends them.                                                  *)
(***************************************************************************)
EXTENDS Integers, Sequences, FiniteSets, SequencesExt, Functions

RootBound  == 64    \* no root of a cubic or of a quartic is further from 0
CoordBound == 12    \* no solution of a system has a coordinate further from 0

SQ(x) == x * x
CB(x) == x * x * x

Sign(x) == IF x > 0 THEN 1 ELSE IF x = 0 THEN 0 ELSE -1
Div(x, y) == IF y < 0 THEN (-x) \div (-y) ELSE x \div y
SquareRoot(x) == CHOOSE s \in 0..x : SQ(s) <= x /\ x < SQ(s + 1)

\* The roots in the original variable.
Scaled(roots, shift) == [i \in DOMAIN roots |-> roots[i] - shift]
Three(x) == <<x, x, x>>

\* solveQuadratic(): no root is the return value false.
Quadratic(a, b, c) ==
    LET rho == SQ(b) - 4 * a * c
        x   == -(b + Sign(b) * SquareRoot(rho)) \div 2
    IN  CASE a = 0 /\ b = 0 -> <<>>
          [] a = 0 /\ b # 0 -> <<Div(-c, b)>>
          [] a # 0 /\ rho < 0 -> <<>>
          [] a # 0 /\ rho >= 0 /\ b = 0 ->
                <<Div(SquareRoot(rho), 2 * a), -Div(SquareRoot(rho), 2 * a)>>
          [] OTHER -> <<Div(x, a), Div(c, x)>>

\* solveCubic(): three distinct roots, the third of which is the middle one,
\* or the root of odd multiplicity three times.
Cubic(a, b, c, d) ==
    LET an == Div(b, a)  bn == Div(c, a)  cn == Div(d, a)
        Q9  == SQ(an) - 3 * bn
        R54 == 2 * CB(an) - 9 * an * bn + 27 * cn
        zeros == {x \in -RootBound..RootBound : ((x + an) * x + bn) * x + cn = 0}
        least == CHOOSE x \in zeros : \A y \in zeros : x <= y
        most  == CHOOSE x \in zeros : \A y \in zeros : x >= y
    IN  CASE a = 0 -> Quadratic(b, c, d)
          [] a # 0 /\ SQ(R54) < 4 * CB(Q9) -> <<least, most, -an - least - most>>
          [] OTHER -> Three(CHOOSE x \in zeros :
                               3 * SQ(x) + 2 * an * x + bn = 0 => 3 * x = -an)

\* Case b = d = 0 of solveQuartic().
Biquadratic(a, c, e) ==
    LET squares == SelectSeq(Quadratic(a, c, e), LAMBDA s : s >= 0)
    IN  FlattenSeq([i \in DOMAIN squares |->
                       <<SquareRoot(squares[i]), -SquareRoot(squares[i])>>])

\* The factorisation of x^4 + 4k x^3 + ... into two quadratics, by the first
\* positive root of the resolvent cubic.
Factorised(k, c, d, e) ==
    LET bn == c - 6 * SQ(k)
        cn == 8 * CB(k) - 2 * k * c + d
        dn == -3 * SQ(SQ(k)) + e - k * d + c * SQ(k)
        positive == SelectSeq(Cubic(1, 2 * bn, SQ(bn) - 4 * dn, -SQ(cn)), LAMBDA r : r > 0)
        p == SquareRoot(positive[1])
        Half(s) == Quadratic(p, s * SQ(p), (p * (bn + SQ(p)) - s * cn) \div 2)
    IN  IF positive = <<>> THEN <<>> ELSE Scaled(Half(1) \o Half(-1), k)

\* solveQuartic()
Quartic(a, b, c, d, e) ==
    CASE a = 0 -> Cubic(b, c, d, e)
      [] a # 0 /\ b = 0 /\ c = 0 /\ d = 0 /\ e = 0 -> <<0, 0, 0, 0>>
      [] a # 0 /\ b = 0 /\ d = 0 /\ (c # 0 \/ e # 0) -> Biquadratic(a, c, e)
      [] OTHER -> Factorised(Div(b, 4 * a), Div(c, a), Div(d, a), Div(e, a))

-----------------------------------------------------------------------------
(* Systems of two equations in E1 and E2.  An equation is the record of    *)
(* its coefficients; a result keeps E1 and E2 apart, as the code does.     *)

NoRoots == [found |-> FALSE, E1 |-> <<>>, E2 |-> <<>>]

At(q, x, y) == q.c20 * SQ(x) + q.c02 * SQ(y) + q.c11 * x * y + q.c10 * x + q.c01 * y + q.c00

Solves(A, B, x, y) == At(A, x, y) = 0 /\ At(B, x, y) = 0

\* The real solutions of a system, all integers here, by enumeration.
Solutions(A, B) ==
    {p \in (-CoordBound..CoordBound) \X (-CoordBound..CoordBound) : Solves(A, B, p[1], p[2])}

\* solve2Linear()
TwoLinear(A, B) ==
    LET det == A.c10 * B.c01 - B.c10 * A.c01
        e2  == Div(B.c10 * A.c00 - A.c10 * B.c00, det)
        L   == IF A.c10 = 0 THEN B ELSE A
    IN  IF det = 0 THEN NoRoots
        ELSE [found |-> TRUE, E1 |-> <<-Div(L.c00 + L.c01 * e2, L.c10)>>, E2 |-> <<e2>>]

\* solve2QuadsDeg(): E2 from the first of three denominators that is not null;
\* the E1 that has none is dropped.
TwoBilinear(A, B) ==
    LET u == B.c11 * A.c10 - A.c11 * B.c10
        v == B.c11 * A.c01 - A.c11 * B.c01
        w == B.c11 * A.c00 - A.c11 * B.c00
        roots == Quadratic(A.c11 * u, A.c01 * u - A.c01 * v + A.c11 * w, A.c01 * w)
        Second(x) ==
            CASE A.c11 * x + A.c01 # 0 -> <<-Div(A.c10 * x + A.c00, A.c11 * x + A.c01)>>
              [] A.c11 * x + A.c01 = 0 /\ v # 0 -> <<-Div(u * x + w, v)>>
              [] A.c11 * x + A.c01 = 0 /\ v = 0 /\ B.c11 * x + B.c01 # 0 ->
                    <<-Div(B.c10 * x + B.c00, B.c11 * x + B.c01)>>
              [] OTHER -> <<>>
        kept == SelectSeq(roots, LAMBDA x : Second(x) # <<>>)
    IN  [found |-> kept # <<>>, E1 |-> kept, E2 |-> [i \in DOMAIN kept |-> Second(kept[i])[1]]]

\* The loop of solve2Quads() over the roots of the quartic: the E2 kept and the
\* E1 found so far.  A root that makes E1 vanish from the linear relation takes
\* the roots of one of the two equations in E1, and with it the root after it;
\* when there is none after it, or another one, nothing is left of either list.
Paired(A, B, roots) ==
    LET alpha == B.c20 * A.c02 - A.c20 * B.c02
        beta  == B.c20 * A.c11 - A.c20 * B.c11
        gamma == B.c20 * A.c10 - A.c20 * B.c10
        delta == B.c20 * A.c01 - A.c20 * B.c01
        omega == B.c20 * A.c00 - A.c20 * B.c00
        Linear(y) == beta * y + gamma
        Rest(y)   == alpha * SQ(y) + delta * y + omega
        InE1(q, y) == Quadratic(q.c20, q.c11 * y + q.c10, q.c02 * SQ(y) + q.c01 * y + q.c00)
        Put(e1, e2, r) ==
            IF r.found THEN [found |-> TRUE, E1 |-> e1 \o r.E1, E2 |-> e2 \o r.E2] ELSE NoRoots
        Walk[i \in 1..(Len(roots) + 1)] ==
            LET y == roots[i] IN
            CASE i > Len(roots) -> [NoRoots EXCEPT !.found = TRUE]
              [] i <= Len(roots) /\ Linear(y) # 0 -> Put(<<-Div(Rest(y), Linear(y))>>, <<y>>, Walk[i + 1])
              [] i <= Len(roots) /\ Linear(y) = 0 /\ Rest(y) # 0 -> Walk[i + 1]
              [] i <= Len(roots) /\ Linear(y) = 0 /\ Rest(y) = 0 /\ InE1(A, y) = <<>> ->
                    IF InE1(B, y) = <<>> THEN NoRoots ELSE Put(<<>>, <<y>>, Walk[i + 1])
              [] OTHER -> IF i = Len(roots) \/ roots[i + 1] # y THEN NoRoots
                          ELSE Put(InE1(A, y), <<y, y>>, Walk[i + 2])
    IN  Walk[1]

Swapped(q) == [c20 |-> q.c02, c02 |-> q.c20, c11 |-> q.c11, c10 |-> q.c01, c01 |-> q.c10, c00 |-> q.c00]

\* The quartic in E2 that is left when E1 is eliminated.
Eliminated(A, B) ==
    LET alpha == B.c20 * A.c02 - A.c20 * B.c02
        beta  == B.c20 * A.c11 - A.c20 * B.c11
        gamma == B.c20 * A.c10 - A.c20 * B.c10
        delta == B.c20 * A.c01 - A.c20 * B.c01
        omega == B.c20 * A.c00 - A.c20 * B.c00
    IN  <<A.c20 * SQ(alpha) + A.c02 * SQ(beta) - A.c11 * alpha * beta,
          2 * A.c20 * alpha * delta - A.c11 * (alpha * gamma + delta * beta)
             - A.c10 * alpha * beta + 2 * A.c02 * beta * gamma + A.c01 * SQ(beta),
          A.c20 * SQ(delta) + 2 * A.c20 * alpha * omega - A.c11 * (delta * gamma + omega * beta)
             - A.c10 * (alpha * gamma + delta * beta) + A.c02 * SQ(gamma)
             + 2 * A.c01 * beta * gamma + A.c00 * SQ(beta),
          2 * A.c20 * delta * omega - A.c11 * omega * gamma
             - A.c10 * (delta * gamma + omega * beta) + A.c01 * SQ(gamma) + 2 * A.c00 * beta * gamma,
          A.c20 * SQ(omega) - A.c10 * omega * gamma + A.c00 * SQ(gamma)>>

\* solve2Quads(); with no E1^2 term the code calls itself with E1 and E2 exchanged.
Conics(A, B) ==
    LET Full(P, Q) == LET q == Eliminated(P, Q)
                      IN  Paired(P, Q, Quartic(q[1], q[2], q[3], q[4], q[5]))
        other == Full(Swapped(A), Swapped(B))
    IN  CASE A.c20 # 0 \/ B.c20 # 0 -> Full(A, B)
          [] A.c20 = 0 /\ B.c20 = 0 /\ (A.c02 # 0 \/ B.c02 # 0) ->
                [found |-> other.found, E1 |-> other.E2, E2 |-> other.E1]
          [] A.c20 = 0 /\ B.c20 = 0 /\ A.c02 = 0 /\ B.c02 = 0 /\ (A.c11 # 0 \/ B.c11 # 0) ->
                TwoBilinear(A, B)
          [] OTHER -> TwoLinear(A, B)

\* The pairs a caller reads, by index over the shorter list.
Pairs(r) == {<<r.E1[i], r.E2[i]>> : i \in DOMAIN r.E1 \cap DOMAIN r.E2}
=============================================================================
