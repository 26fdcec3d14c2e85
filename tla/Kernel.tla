-------------------------------- MODULE Kernel --------------------------------
(***************************************************************************)
(* The modules of a usual configuration at work: a generator turns a       *)
(* coordinate into a quantity, a block gives the solutions of a point, a   *)
(* Looper takes them one by one through BuildInitialState, MatrixElement   *)
(* and a LooperSummer.  The order in which modules are called, and what a  *)
(* status does, is that of module Execution.                               *)
(***************************************************************************)
EXTENDS Blocks, Generators, MatrixElements

CONSTANTS
    Setups,         \* the configurations and what they meet, by name: see below
    MaxPoints       \* of an integration

\* A configuration s has a generator of s.sources, a block whose points come to
\* s.points, and a matrix element s.process with the parameters s.card and
\* s.override, which is given s.particles with the me_index s.indices.  At a
\* point, helicities may vanish as one of s.accidents says.  It is integrated
\* at most s.calls times.

Blocks == {"BlockA", "BlockB", "BlockC", "BlockD", "BlockE", "BlockF", "BlockG", "SecondaryBlockA",
           "SecondaryBlockB", "SecondaryBlockCD", "SecondaryBlockE"}

\* What a module that generates is given: a histogram and a cut, a width that is
\* a number of standard deviations, the limits of an interval, or particles.
IsGenerator(g) ==
    \/ /\ g.module \in {"BinnedTransferFunctionOnEnergy", "BinnedTransferFunctionOnPt"}
       /\ g.rec \in Nat \ {0} /\ g.mass \in Nat /\ g.min \in Nat
       /\ g.h \in [{"genAxis", "genMin", "genMax", "deltaMin", "deltaMax"} -> Int]
    \/ /\ g.module \in {"GaussianTransferFunctionOnEnergy", "GaussianTransferFunctionOnPt"}
       /\ g.rec \in Nat \ {0} /\ g.mass \in Nat /\ g.min \in Nat /\ g.width \in Nat
    \/ g.module \in {"FlatTransferFunctionOnTheta", "FlatTransferFunctionOnPhi"}
    \/ g.module \in {"FlatTransferFunctionOnP", "UniformGenerator"} /\ g.low \in Int /\ g.high \in Int
    \/ g.module = "BreitWignerGenerator" /\ g.low = 0 /\ g.high \in Int
    \/ g.module = "Permutator" /\ Len(g.inputs) \in Nat /\ DOMAIN g.inputs = 1..Len(g.inputs)

\* Momenta are numbers, and so are what the beams can give and the coefficients of
\* the equations.  A SecondaryBlockCD is given a particle p2, whose energy is
\* positive, and has refused an invariant mass that is too small for two.
Coefficients == {"c20", "c02", "c11", "c10", "c01", "c00"}
IsPoint(p) ==
    /\ p.block \in Blocks /\ p.unphysical \in BOOLEAN /\ p.degenerate \in BOOLEAN /\ p.beam \in Nat
    /\ p.block \in {"SecondaryBlockB", "SecondaryBlockCD"} => p.m1 \in Nat
    /\ p.block \in {"BlockA", "BlockC", "BlockD", "SecondaryBlockE"} =>
          p.A \in [Coefficients -> Int] /\ p.B \in [Coefficients -> Int]
    /\ p.block = "BlockA" => \A q \in {p.A, p.B} : q.c20 = 0 /\ q.c02 = 0 /\ q.c11 = 0
    /\ p.block \in {"BlockC", "BlockE", "BlockF", "SecondaryBlockB"} => p.slope \in Int /\ p.offset \in Int
    /\ p.block \in {"BlockB", "BlockE", "BlockF", "SecondaryBlockA", "SecondaryBlockB"} =>
          \A x \in {p.a, p.b, p.c} : x \in Int
    /\ p.block \in {"BlockE", "BlockF"} => p.total \in Int
    /\ p.block = "SecondaryBlockCD" =>
          /\ \A x \in {p.k, p.E2, p.p2cos} : x \in Int
          /\ p.E2 > 0 /\ (~p.unphysical => p.k < 0)
    /\ p.block = "BlockG" =>
          \A x \in {p.alpha1, p.beta1, p.gamma1, p.alpha2, p.beta2, p.gamma2, p.X, p.Y} : x \in Int
    /\ ~p.unphysical /\ ~p.degenerate =>
          LET candidates == Solve(p)
          IN  /\ Len(candidates) \in Nat /\ DOMAIN candidates = 1..Len(candidates)
              /\ \A i \in DOMAIN candidates : candidates[i].e \in Seq(Int)

\* The particles of a configuration are those of its process.
ASSUME KernelAssumption ==
    /\ MaxPoints \in Nat
    /\ \A name \in DOMAIN Setups :
          LET s == Setups[name]
          IN  /\ s.process \in {"ttbar", "WW"} /\ s.card \in [Names -> Int]
              /\ Sorted(s.particles, s.indices) = FinalState(s.process)
              /\ \A g \in s.sources : IsGenerator(g)
              /\ \A p \in s.points : IsPoint(p)

VARIABLES
    pc,             \* where the calls are
    setup,          \* the name of the configuration
    me,             \* its matrix element
    drawn,          \* what the last generator gave
    point,          \* the point
    solutions,      \* what the block gives for it
    turn,           \* the solution the Looper is at
    sum,            \* of the LooperSummer: the solutions it added
    computed,       \* the last evaluation of the matrix element
    vanished,       \* what gave nothing since the last reset of the helicities
    integrations, points

vars == <<pc, setup, me, drawn, point, solutions, turn, sum, computed, vanished, integrations, points>>

None == [none |-> TRUE]
Now  == Setups[setup]

-----------------------------------------------------------------------------
(* What the generators draw                                                *)

Draw(g, k) ==
    CASE g.module = "BinnedTransferFunctionOnEnergy" ->
            BinnedOnEnergy(BinnedOnEnergyBase(g.h, g.min), g.rec, g.mass, k)
      [] g.module = "BinnedTransferFunctionOnPt" -> BinnedOnPt(BinnedOnPtBase(g.h, g.min), g.rec, k)
      [] g.module = "GaussianTransferFunctionOnEnergy" ->
            GaussianOnEnergy(g.rec, g.mass, g.width, g.min, k)
      [] g.module = "GaussianTransferFunctionOnPt" -> GaussianOnPt(g.rec, g.width, g.min, k)
      [] g.module = "FlatTransferFunctionOnP" -> FlatOnP(g.low, g.high, k)
      [] g.module = "FlatTransferFunctionOnTheta" -> FlatOnTheta(k)
      [] g.module = "FlatTransferFunctionOnPhi" -> FlatOnPhi(k)
      [] g.module = "UniformGenerator" -> UniformGenerator(g.low, g.high, k)
      [] g.module = "BreitWignerGenerator" -> BreitWignerGenerator(g.high, k)
      [] g.module = "Permutator" -> [value |-> Permutator(g.inputs, k), jacobian |-> 1]

\* The evaluator of a transfer function, on what its generator gave.
Evaluator(g, value) ==
    CASE g.module = "BinnedTransferFunctionOnEnergy" ->
            BinnedOnEnergyEvaluator(BinnedOnEnergyBase(g.h, g.min), g.rec, value)
      [] g.module = "BinnedTransferFunctionOnPt" ->
            BinnedOnPtEvaluator(BinnedOnPtBase(g.h, g.min), g.rec, value)
      [] g.module = "GaussianTransferFunctionOnEnergy" -> GaussianOnEnergyEvaluator(g.rec, value)
      [] g.module = "GaussianTransferFunctionOnPt" -> GaussianOnPtEvaluator(g.rec, value)

-----------------------------------------------------------------------------
Init ==
    /\ pc = "new" /\ setup = "none" /\ me = None
    /\ drawn = None /\ point = None /\ solutions = <<>> /\ turn = 0 /\ sum = <<>>
    /\ computed = None /\ vanished = {}
    /\ integrations = 0 /\ points = 0

\* The constructor of MatrixElement.
Construct(name) ==
    /\ pc = "new"
    /\ setup' = name
    /\ me' = Overridden(NewMatrixElement(Setups[name].process, Setups[name].card), Setups[name].override)
    /\ pc' = "idle"
    /\ UNCHANGED <<drawn, point, solutions, turn, sum, computed, vanished, integrations, points>>

\* beginIntegration(): the helicities are all tried again.
BeginIntegration ==
    /\ pc = "idle" /\ integrations < Now.calls
    /\ me' = resetHelicities(me)
    /\ vanished' = {}
    /\ integrations' = integrations + 1
    /\ points' = 0
    /\ computed' = None
    /\ pc' = "integrating"
    /\ UNCHANGED <<setup, drawn, point, solutions, turn, sum>>

\* evaluateIntegrand(): a point for which no module begins an integration.
EvaluateIntegrand ==
    /\ pc = "idle" /\ integrations < Now.calls
    /\ integrations' = integrations + 1
    /\ points' = MaxPoints - 1
    /\ pc' = "integrating"
    /\ UNCHANGED <<setup, me, drawn, point, solutions, turn, sum, computed, vanished>>

EndIntegration ==
    /\ pc = "integrating" /\ points = MaxPoints
    /\ pc' = "idle"
    /\ UNCHANGED <<setup, me, drawn, point, solutions, turn, sum, computed, vanished, integrations, points>>

\* Mutant: the LooperSummer keeps its sum from point to point.
GenerateOnTheSum(g, k) ==
    /\ pc = "integrating" /\ points < MaxPoints
    /\ drawn' = [source |-> g, k |-> k, gen |-> Draw(g, k)]
    /\ points' = points + 1
    /\ pc' = "drawn"
    /\ UNCHANGED <<setup, me, point, solutions, turn, sum, computed, vanished, integrations>>

\* beginPoint() of the LooperSummer, then the first module of the path.
Generate(g, k) ==
    /\ pc = "integrating" /\ points < MaxPoints
    /\ sum' = <<>>
    /\ drawn' = [source |-> g, k |-> k, gen |-> Draw(g, k)]
    /\ points' = points + 1
    /\ pc' = "drawn"
    /\ UNCHANGED <<setup, me, point, solutions, turn, computed, vanished, integrations>>

\* Mutant: work() does not clear its solutions first.
SolveBlockOnTheLast(p) ==
    /\ pc = "drawn"
    /\ \E emitted \in Emissions(p) :
          /\ solutions' = solutions \o emitted
          /\ pc' = IF solutions' = <<>> THEN "integrating" ELSE "looping"
    /\ turn' = 1
    /\ point' = p
    /\ drawn' = None
    /\ UNCHANGED <<setup, me, sum, computed, vanished, integrations, points>>

\* work() of a block; without a solution the status is NEXT.
SolveBlock(p) ==
    /\ pc = "drawn"
    /\ \E emitted \in Emissions(p) :
          /\ solutions' = emitted
          /\ pc' = IF emitted = <<>> THEN "integrating" ELSE "looping"
    /\ turn' = 1
    /\ point' = p
    /\ drawn' = None
    /\ UNCHANGED <<setup, me, sum, computed, vanished, integrations, points>>

\* work() of BuildInitialState on the next solution: NEXT ends its turn.
TotalEnergy(c) ==
    LET upTo[i \in 0..Len(c.e)] == IF i = 0 THEN 0 ELSE upTo[i - 1] + c.e[i]
    IN  upTo[Len(c.e)]
InitialState ==
    /\ pc = "looping" /\ turn <= Len(solutions)
    /\ IF BuildInitialState(TotalEnergy(solutions[turn]), 0, point.beam).ok
       THEN pc' = "partons" /\ turn' = turn
       ELSE pc' = "looping" /\ turn' = turn + 1
    /\ UNCHANGED <<setup, me, drawn, point, solutions, sum, computed, vanished, integrations, points>>

\* The helicities whose amplitudes vanish in both directions.
Vanishing(x, at) ==
    {v \in (DOMAIN x.goodHel) \X at.direct : HasMirror(v[1]) => v[2] \in at.mirror}

\* work() of MatrixElement, then of the LooperSummer.
Evaluate(at) ==
    LET updated == Updated(me)
        final   == Sorted(Now.particles, Now.indices)
    IN  /\ pc = "partons"
        /\ me' = IF final = FinalState(me.process) THEN Evaluated(updated, at) ELSE updated
        /\ computed' = [result |-> Result(updated, at, final), at |-> at, read |-> Read(updated.params)]
        /\ vanished' = vanished \cup Vanishing(me, at)
        /\ sum' = Append(sum, solutions[turn])
        /\ turn' = turn + 1
        /\ pc' = "looping"
        /\ UNCHANGED <<setup, drawn, point, solutions, integrations, points>>

EndLoop ==
    /\ pc = "looping" /\ turn > Len(solutions)
    /\ pc' = "integrating"
    /\ UNCHANGED <<setup, me, drawn, point, solutions, turn, sum, computed, vanished, integrations, points>>

Next ==
    \/ \E name \in DOMAIN Setups : Construct(name)
    \/ BeginIntegration \/ EvaluateIntegrand \/ EndIntegration
    \/ \E k \in 0..N : pc = "integrating" /\ \E g \in Now.sources : Generate(g, k)
    \/ pc = "drawn" /\ \E p \in Now.points : SolveBlock(p)
    \/ InitialState \/ EndLoop
    \/ pc = "partons" /\ \E at \in Now.accidents : Evaluate(at)

Spec == Init /\ [][Next]_vars

-----------------------------------------------------------------------------
(* What the blocks should give, by enumeration of the unknowns.            *)

Coords == -CoordBound..CoordBound
Zeros(p) == {x \in -RootBound..RootBound : Parabola(p, x) = 0}

\* The energies that meet the equations of a point.
Exact(p) ==
    CASE p.block \in {"BlockA", "BlockD"} -> Solutions(p.A, p.B)
      [] p.block = "SecondaryBlockE" -> {Swap(s) : s \in Solutions(p.A, p.B)}
      [] p.block = "BlockC" -> {<<s[1], p.slope * s[2] + p.offset>> : s \in Solutions(p.A, p.B)}
      [] p.block \in {"BlockB", "SecondaryBlockA"} -> {<<x>> : x \in Zeros(p)}
      [] p.block \in {"BlockE", "BlockF"} ->
            {<<p.total - p.slope * x - p.offset, p.slope * x + p.offset>> : x \in Zeros(p)}
      [] p.block = "SecondaryBlockB" -> {<<x, p.slope * x + p.offset>> : x \in Zeros(p)}
      [] p.block = "SecondaryBlockCD" ->
            {<<x>> : x \in {y \in p.m1..RootBound :
                \E n \in 0..RootBound : SQ(n) + SQ(p.m1) = SQ(y) /\ p.k + 2 * y * p.E2 = 2 * n * p.p2cos}}
      [] p.block = "BlockG" ->
            LET p1(x, y) == p.alpha1 * x + p.beta1 * y + p.gamma1
                p2(x, y) == p.alpha2 * x + p.beta2 * y + p.gamma2
            IN  {<<p1(s[1], s[2]), p2(s[1], s[2]), s[1], s[2]>> :
                    s \in {t \in Coords \X Coords :
                              t[1] * t[2] = p.X /\ p1(t[1], t[2]) * p2(t[1], t[2]) = p.Y}}

Secondary(p) == p.block \in {"SecondaryBlockA", "SecondaryBlockB", "SecondaryBlockCD", "SecondaryBlockE"}
Possible(p, e) ==
    /\ \A i \in DOMAIN e : e[i] >= 0
    /\ Secondary(p) \/ EnergyOf(e) <= p.beam
AboveThreshold(p, e) ==
    /\ \A i \in DOMAIN e : e[i] > 0
    /\ p.block \in {"SecondaryBlockB", "SecondaryBlockCD"} => e[1] > p.m1

\* Two conics that meet in four points, one of which at least has a term in
\* E1^2, and whose quartic is not a quadratic equation in E2^2.
InGeneralPosition(A, B) ==
    LET q == Eliminated(A, B)
    IN  /\ A.c20 # 0 \/ B.c20 # 0
        /\ Cardinality(Solutions(A, B)) = 4
        /\ q[1] # 0 /\ (q[2] # 0 \/ q[4] # 0)
Regular(p) ==
    /\ ~p.unphysical /\ ~p.degenerate
    /\ p.block = "BlockA" => p.A.c10 * p.B.c01 # p.B.c10 * p.A.c01
    /\ p.block \in {"BlockC", "BlockD", "SecondaryBlockE"} => InGeneralPosition(p.A, p.B)
    /\ p.block = "BlockG" => Cardinality(Exact(p)) = 4
    /\ p.block \in {"BlockB", "BlockE", "BlockF", "SecondaryBlockA", "SecondaryBlockB"} => p.a # 0 \/ p.b # 0

\* solve2Quads() and solveQuartic() give every solution of a point in general
\* position.
SystemsAreSolved ==
    \A name \in DOMAIN Setups : \A p \in Setups[name].points :
        Regular(p) =>
           /\ p.block \in {"BlockC", "BlockD", "SecondaryBlockE"} =>
                 Solutions(p.A, p.B) \subseteq Pairs(Conics(p.A, p.B))
           /\ p.block = "BlockG" => {e[3] : e \in Exact(p)} \subseteq Range(InP3(p))

Solved == pc = "drawn" /\ pc' # "drawn"
Energies(list) == {list[i].e : i \in DOMAIN list}

\* Nothing of what the integrand must sum over is lost: at a point in general
\* position a block emits every solution with positive energies.
SolutionsAreAllFound ==
    [][Solved /\ Regular(point') =>
          \A e \in Exact(point') :
             Possible(point', e) /\ AboveThreshold(point', e) => e \in Energies(solutions')]_vars

\* The equation in one unknown has no double root, and the unknown is told from
\* the energies.
RootsAreSimple(p) ==
    /\ p.block \in {"BlockB", "BlockE", "BlockF", "SecondaryBlockA", "SecondaryBlockB"} =>
          SQ(p.b) # 4 * p.a * p.c
    /\ p.block \in {"BlockC", "BlockE", "BlockF"} => p.slope # 0
    /\ p.block = "SecondaryBlockCD" =>
          p.p2cos # 0 /\ SQ(p.k) # 4 * SQ(p.m1) * (SQ(p.E2) - SQ(p.p2cos))

\* The integrand sums over solutions of its point, each counted once: nothing is
\* left of an earlier point, whose list this is; what squaring, elimination and
\* null denominators made is gone; and two solutions that share an unknown, so
\* that one root of the quartic stands for both, are not paired twice.
SolutionsAreCountedOnce ==
    [][Solved =>
          /\ \A e \in Energies(solutions') :
                ~point'.unphysical /\ ~point'.degenerate /\ e \in Exact(point')
          /\ Regular(point') /\ RootsAreSimple(point') =>
                Len(solutions') = Cardinality(Energies(solutions'))]_vars

-----------------------------------------------------------------------------
(* What the generators should give.                                        *)

\* The interval the documentation of a module gives for what it generates.
Support(g) ==
    CASE g.module \in {"BinnedTransferFunctionOnEnergy", "BinnedTransferFunctionOnPt"} ->
            <<LargerOf(LargerOf(g.h.genAxis, g.min), g.rec - g.h.deltaMax), g.rec - g.h.deltaMin>>
      [] g.module = "GaussianTransferFunctionOnEnergy" ->
            <<LargerOf(LargerOf(g.min, g.mass), g.rec - g.width), g.rec + g.width>>
      [] g.module = "GaussianTransferFunctionOnPt" ->
            <<LargerOf(g.min, g.rec - g.width), g.rec + g.width>>
      [] g.module = "FlatTransferFunctionOnTheta" -> <<0, 1>>
      [] g.module = "FlatTransferFunctionOnPhi" -> <<0, 2>>
      [] OTHER -> <<g.low, g.high>>
\* The measured energy is not so low that nothing of the support is left, nor,
\* where a binned function of the energy disregards the lower limit (GetDeltaMax()
\* is then 0), that it is below that limit.
Usable(g) ==
    \/ g.module = "Permutator"
    \/ /\ Support(g)[1] < Support(g)[2]
       /\ g.module = "BinnedTransferFunctionOnEnergy" =>
             /\ g.mass < Support(g)[2] - Support(g)[1]
             /\ g.rec <= g.mass \/ g.h.deltaMax <= g.mass => Support(g)[1] <= g.rec
Massless(g) == g.module # "BinnedTransferFunctionOnEnergy" \/ g.mass = 0
IsTransferFunction(g) ==
    g.module \in {"BinnedTransferFunctionOnEnergy", "BinnedTransferFunctionOnPt",
                  "GaussianTransferFunctionOnEnergy", "GaussianTransferFunctionOnPt"}

Permuted(v, inputs) ==
    \E f \in [DOMAIN v -> DOMAIN inputs] :
        {f[i] : i \in DOMAIN v} = DOMAIN inputs /\ \A i \in DOMAIN v : v[i] = inputs[f[i]]

\* A generator stays in its support and its jacobian is the width of it (less
\* for a massive particle and a binned function of the energy); the module that
\* evaluates the same transfer function elsewhere gives the same density.
DrawnIsOfTheSupport ==
    drawn # None /\ Usable(drawn.source) =>
        LET g == drawn.source  v == drawn.gen.value  s == Support(g)
        IN  IF g.module = "Permutator"
            THEN Permuted(v, g.inputs)
            ELSE /\ s[1] * N <= v /\ v <= s[2] * N
                 /\ drawn.gen.jacobian > 0 /\ drawn.gen.jacobian <= s[2] - s[1]
                 /\ Massless(g) => drawn.gen.jacobian = s[2] - s[1]
                 /\ IsTransferFunction(g) /\ 0 < drawn.k /\ drawn.k < N =>
                       Evaluator(g, v) = drawn.gen.density

-----------------------------------------------------------------------------
(* What the matrix element should give.                                    *)

\* The card with what the configuration overrides.
Expected(s) ==
    [n \in Names |-> IF n \in DOMAIN s.override THEN s.override[n] ELSE s.card[n]]

\* An evaluation reads the couplings and the masses of the configuration, in
\* whatever layer they are cached.
CouplingsAreFresh ==
    computed # None =>
        computed.read = [GC_100 |-> Expected(Now)["EW"], GC_11 |-> Expected(Now)["aS"],
                         massiveB |-> Expected(Now)["MB"] # 0]

\* The result has every initial state of every subprocess, in both directions,
\* each with all the helicities that contribute at this point, except those
\* that gave nothing since the helicities were last reset.
ResultIsWhole ==
    computed # None =>
        \A s \in SubProcesses(Now.process) : \A i \in InitialStates(Now.process, s) :
            LET all == Structural[<<<<Now.process, s>>, Expected(Now)["MB"] # 0>>]
                gone == {v[2] : v \in {w \in vanished : w[1] = s}}
            IN  /\ all \ (computed.at.direct \cup gone) \subseteq computed.result[i]
                /\ HasMirror(s) =>
                      all \ (computed.at.mirror \cup gone) \subseteq computed.result[Swap(i)]

\* The sum a Looper leaves is over the solutions of the present point that had
\* their turn and that the beams can produce, each of them once.
SumIsOfThisPoint ==
    pc \in {"looping", "partons"} =>
        \E at \in [DOMAIN sum -> 1..(turn - 1)] :
            /\ \A i, j \in DOMAIN sum : i < j => at[i] < at[j]
            /\ {at[i] : i \in DOMAIN sum} =
                  {i \in 1..(turn - 1) : TotalEnergy(solutions[i]) <= point.beam}
            /\ \A i \in DOMAIN sum : sum[i] = solutions[at[i]]
=============================================================================
