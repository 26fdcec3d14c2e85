---------------------------- MODULE MCGraphBuilder ----------------------------
(* Configurations for GraphBuilder, after those of tests/unit_tests/graph.cc *)
EXTENDS GraphBuilder

\* InputTags: an output of a module, a dimension of cuba, the weight of cuba.
T(m)  == [mod |-> m, par |-> "out", idx |-> 0]
U(m)  == [mod |-> m, par |-> "none", idx |-> 0]
D(i)  == [mod |-> "cuba", par |-> "ps_points", idx |-> i]
W     == [mod |-> "cuba", par |-> "ps_weight", idx |-> 0]

\* A configuration out of rows <<name, kind, InputTags>>, cuba and momemta last.
Configuration(user, integrand, paths, pathOf, ndim) ==
    LET rows == user \o << <<"cuba", "internal", <<>>>>, <<"momemta", "internal", <<T(integrand)>>>> >>
        M    == {rows[i][1] : i \in DOMAIN rows}
        Row(m) == rows[CHOOSE i \in DOMAIN rows : rows[i][1] = m]
    IN  [modules |-> [i \in DOMAIN rows |-> rows[i][1]],
         kind    |-> [m \in M |-> Row(m)[2]],
         out     |-> [m \in M |-> CASE m = "cuba" -> {"ps_points", "ps_weight"}
                                    [] m = "momemta" -> {}
                                    [] OTHER -> {"out"}],
         tags    |-> [m \in M |-> Row(m)[3]],
         paths   |-> paths,
         pathOf  |-> pathOf,
         ndim    |-> ndim]

OnePath(l, els)   == <<[id |-> "p1", elements |-> els]>>

\* Modules a, b, c in line, an unused one and the chain that feeds it.
Unused2 == Configuration(
    << <<"c", "plain", <<T("b"), D(3)>>>>, <<"u", "plain", <<T("v"), D(0)>>>>,
       <<"a", "plain", <<D(1)>>>>, <<"v", "plain", <<D(2)>>>>, <<"b", "plain", <<T("a"), D(1)>>>> >>,
    "c", <<>>, <<>>, 4)
\* A sticky module keeps what it reads.
Sticky == Configuration(
    << <<"a", "plain", <<>>>>, <<"s", "sticky", <<T("x")>>>>, <<"x", "plain", <<D(0)>>>> >>,
    "a", <<>>, <<>>, 1)
\* Two modules that read each other.
Circular == Configuration(
    << <<"a", "plain", <<T("b")>>>>, <<"b", "plain", <<T("a")>>>> >>, "a", <<>>, <<>>, 0)
\* An input that names no module, or no output of the module.
NoModule == Configuration(<< <<"a", "plain", <<T("zz")>>>> >>, "a", <<>>, <<>>, 0)
NoOutput == Configuration(<< <<"a", "plain", <<U("b")>>>>, <<"b", "plain", <<>>>> >>, "a", <<>>, <<>>, 0)
\* A Looper, the block that feeds it, two modules in its path, one of them
\* reading a module outside.
Loop == Configuration(
    << <<"sum", "plain", <<T("in")>>>>, <<"L", "looper", <<T("block")>>>>, <<"dep", "plain", <<D(1)>>>>,
       <<"in", "plain", <<T("L"), T("dep")>>>>, <<"block", "plain", <<D(0)>>>> >>,
    "sum", OnePath("L", {"sum", "in"}), "L" :> "p1", 2)
\* The same with `in' outside the path.
OutOfLoop == Configuration(
    << <<"sum", "plain", <<T("in")>>>>, <<"L", "looper", <<>>>>, <<"in", "plain", <<T("L")>>>> >>,
    "sum", OnePath("L", {"sum"}), "L" :> "p1", 0)
\* A Looper whose path holds a module nobody reads and a missing one.
EmptyLoop == Configuration(
    << <<"a", "plain", <<>>>>, <<"L", "looper", <<T("a")>>>>, <<"x", "plain", <<T("L")>>>> >>,
    "a", OnePath("L", {"x", "missing"}), "L" :> "p1", 0)
\* A Looper in the path of another; what the inner path reads is read by the
\* block of the outer Looper as well.
Nested == Configuration(
    << <<"dep", "plain", <<D(0)>>>>, <<"K", "looper", <<T("in")>>>>, <<"sum", "plain", <<T("K"), T("dep"), T("L")>>>>,
       <<"L", "looper", <<T("dep")>>>>, <<"in", "plain", <<T("L")>>>>, <<"tot", "plain", <<T("sum")>>>> >>,
    "tot", <<[id |-> "p2", elements |-> {"sum"}], [id |-> "p1", elements |-> {"in", "K"}]>>,
    ("L" :> "p1") @@ ("K" :> "p2"), 1)
\* A cycle upstream of the path of a Looper, and one through the Looper.
CircularDep == Configuration(
    << <<"a", "plain", <<T("b")>>>>, <<"b", "plain", <<T("a")>>>>,
       <<"L", "looper", <<>>>>, <<"x", "plain", <<T("L"), T("a")>>>> >>,
    "x", OnePath("L", {"x"}), "L" :> "p1", 0)
CircularLoop == Configuration(
    << <<"a", "plain", <<T("x")>>>>, <<"L", "looper", <<T("a")>>>>, <<"x", "plain", <<T("L")>>>> >>,
    "x", OnePath("L", {"x"}), "L" :> "p1", 0)

SoundConfigs == {Unused2, Sticky, Circular, NoModule, NoOutput, Loop, OutOfLoop, EmptyLoop,
                 Nested, CircularDep, CircularLoop}

\* Every way three modules and a Looper may read each other, up to the names of
\* the modules, and every path the Looper may have, as long as no module outside
\* the path both depends on a module of the path and is needed by one; the
\* Looper reads one module at most.
Family ==
    LET Tags(S) == SetToSeq({T(m) : m \in S})
        Chosen(ra, rb, rc, rl, path) == Configuration(
            << <<"a", "plain", Tags(ra)>>, <<"b", "plain", Tags(rb)>>,
               <<"L", "looper", Tags(rl)>>, <<"c", "plain", Tags(rc)>> >>,
            "c", OnePath("L", path), "L" :> "p1", 0)
        Between(ra, rb, rc, path) ==
            LET R == [m \in {"a", "b", "c"} |-> CASE m = "a" -> ra [] m = "b" -> rb [] m = "c" -> rc]
            IN  \E x, z \in path : \E y \in {"a", "b", "c"} \ path : x \in R[y] /\ y \in R[z]
    IN  {Chosen(x[1], x[2], x[3], x[4], x[5]) :
            x \in {w \in (SUBSET {"L"}) \X (SUBSET {"a", "L"}) \X (SUBSET {"a", "b", "L"})
                         \X (SUBSET {"a", "b", "c"}) \X (SUBSET {"a", "b", "c"} \ {{}}) :
                   /\ ~Between(w[1], w[2], w[3], w[5])
                   /\ Cardinality(w[4]) <= 1}}

-----------------------------------------------------------------------------
\* The inner path of two nested Loopers reads `dep', that nothing else does.
NestedDep == Configuration(
    << <<"dep", "plain", <<>>>>, <<"K", "looper", <<T("in")>>>>, <<"sum", "plain", <<T("K"), T("dep")>>>>,
       <<"L", "looper", <<>>>>, <<"in", "plain", <<T("L")>>>> >>,
    "sum", <<[id |-> "p2", elements |-> {"sum"}], [id |-> "p1", elements |-> {"in", "K"}]>>,
    ("L" :> "p1") @@ ("K" :> "p2"), 0)
\* `y', outside the path, is read by `z' in the path and reads `x' in the path.
Leak == Configuration(
    << <<"L", "looper", <<>>>>, <<"x", "plain", <<T("L")>>>>, <<"y", "plain", <<T("x")>>>>,
       <<"z", "plain", <<T("L"), T("y")>>>> >>,
    "z", OnePath("L", {"x", "z"}), "L" :> "p1", 0)
\* Two Loopers one after the other; the path of the second reads the first.
TwoLoops == Configuration(
    << <<"L", "looper", <<>>>>, <<"x", "plain", <<T("L")>>>>, <<"K", "looper", <<T("x")>>>>,
       <<"z", "plain", <<T("K"), T("L")>>>> >>,
    "z", <<[id |-> "p1", elements |-> {"x"}], [id |-> "p2", elements |-> {"z"}]>>,
    ("L" :> "p1") @@ ("K" :> "p2"), 0)
\* A module with two dimensions, and an unused one that had the first two.
TwoDims == Configuration(
    << <<"u", "plain", <<D(0), D(1)>>>>, <<"a", "plain", <<D(2), D(3)>>>> >>, "a", <<>>, <<>>, 4)

\* The sets of configurations the runs start from.
AllConfigs   == SoundConfigs \cup Family
DepConfigs   == {NestedDep, Nested, Loop}
LeakConfigs  == {Leak, TwoLoops, Loop}
DimConfigs   == {TwoDims, Unused2}
=============================================================================
