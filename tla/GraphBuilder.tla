----------------------------- MODULE GraphBuilder -----------------------------
(***************************************************************************)
(* ComputationGraphBuilder::build() and ComputationGraph::initialize():    *)
(* from the modules a configuration declares to the execution paths the    *)
(* engine of module Execution runs.  Containers whose iteration order C++  *)
(* leaves open (the unordered_map `vertices') are visited in any order.    *)
(***************************************************************************)
EXTENDS Integers, Sequences, FiniteSets, SequencesExt

CONSTANTS
    Configs,  \* the configurations that may be read, see ConfigType
    Default   \* DEFAULT_EXECUTION_PATH

Kinds == {"plain", "sticky", "internal", "looper"}

\* What the builder takes from a Configuration and the module definitions.
\*   modules: the declared modules, in order, internal ones included
\*   kind, out, tags: of each module, its definition's flags and type, its
\*     outputs, and the InputTags its inputs hold
\*   paths: the execution paths, in order; pathOf: the path given to a Looper
\*   ndim: number of integration dimensions asked for
ConfigType(c) ==
    LET M == Range(c.modules) IN
    /\ c.modules \in Seq(M) /\ IsInjective(c.modules) /\ "cuba" \in M
    /\ c.kind \in [M -> Kinds] /\ c.kind["cuba"] = "internal"
    /\ DOMAIN c.out = M /\ DOMAIN c.tags = M
    /\ c.paths \in Seq(Range(c.paths))
    /\ \A i, j \in DOMAIN c.paths : c.paths[i].id = c.paths[j].id => i = j
    /\ \A l \in M : c.kind[l] = "looper" =>
          l \in DOMAIN c.pathOf
          /\ \E i \in DOMAIN c.paths :
                c.paths[i].id = c.pathOf[l] /\ l \notin c.paths[i].elements
    /\ \A i \in DOMAIN c.paths : c.paths[i].id # Default
    /\ c.ndim \in Nat
    /\ \A m \in M :
          /\ c.tags[m] \in Seq(Range(c.tags[m]))
          /\ \A t \in Range(c.tags[m]) :
                /\ t = [mod |-> t.mod, par |-> t.par, idx |-> t.idx]
                /\ t.idx \in Nat /\ t.idx < Max({c.ndim, 1})

ASSUME ConfigAssumption == \A c \in Configs : ConfigType(c)

VARIABLES
    config,     \* the configuration, not changed but for `tags'
    phase,      \* what build() or initialize() is doing, or how it ended
    tags,       \* the InputTags of each module: their indices are rewritten
    vertices,   \* the vertices left in the graph
    edges,      \* pairs of vertices; several InputTags make one pair
    unvisited,  \* vertices the current pass has still to visit
    queue,      \* modules the current pass has still to visit, in order
    sorted,     \* sorted_vertices
    mapping,    \* new_indices_mapping
    decls,      \* module_decls: the modules of each path, in order
    order,      \* sorted_execution_paths
    instances,  \* module_instances, by path
    given       \* the instances each Looper was constructed with

graph == <<vertices, edges>>
built == <<decls, order, instances, given>>
vars  == <<config, phase, tags, vertices, edges, unvisited, queue, sorted,
           mapping, decls, order, instances, given>>

Modules == Range(config.modules)
Kind(m) == config.kind[m]
Loopers == {m \in Modules : Kind(m) = "looper"}
Empty   == [x \in {} |-> x]

\* The ExecutionPath a Looper holds as parameter.
LooperPath(l) ==
    (CHOOSE i \in DOMAIN config.paths : config.paths[i].id = config.pathOf[l])
Elements(l)   == config.paths[LooperPath(l)].elements

\* Tag t points to an output of module v.
Matches(t, v) == t.mod = v /\ t.par \in config.out[v]

Init ==
    /\ config \in Configs
    /\ phase = "edges"
    /\ tags = config.tags
    /\ vertices = Range(config.modules)
    /\ edges = {}
    /\ unvisited = {} /\ queue = <<>> /\ sorted = <<>>
    /\ mapping = Empty
    /\ decls = Empty /\ order = <<>> /\ instances = Empty /\ given = Empty

-----------------------------------------------------------------------------
(* The graph.                                                              *)

\* One edge from each module to the modules that read its outputs.
AddEdges ==
    /\ phase = "edges"
    /\ edges' = {e \in vertices \X vertices :
                    e[1] # e[2] /\ \E i \in DOMAIN tags[e[2]] : Matches(tags[e[2]][i], e[1])}
    /\ phase' = "links"
    /\ unvisited' = Loopers
    /\ UNCHANGED <<config, tags, vertices, queue, sorted, mapping, built>>

\* The Looper is linked to every module of its path that exists.
WithPathLinks(l) == edges \cup {<<l, m>> : m \in Elements(l) \cap vertices}

\* The pairs <<v, w>> such that there is a path of E from v to w, or v = w: no
\* set of vertices that the edges do not leave has v and not w.
Connected(E) ==
    LET Closed == {S \in SUBSET vertices : \A e \in E : e[1] \in S => e[2] \in S}
    IN  {x \in vertices \X vertices : \A S \in Closed : x[1] \in S => x[2] \in S}
OnCycle(E, C) == {v \in vertices : \E w \in vertices : <<v, w>> \in E /\ <<w, v>> \in C}

\* The other sources of the edges into what Looper l points to.
SourcesOf(l, E) ==
    {s \in vertices \ {l} : \E t \in vertices : <<l, t>> \in E /\ <<s, t>> \in E}

\* isConnectedTo(s, l) walks from s along the edges, then against them, and
\* stops at l only: it recurses for ever when the walk takes a cycle.  Which
\* edge of a vertex comes first is left out: when the walk may find l or a
\* cycle, it does either.
MayDiverge(l, s, E) ==
    LET C   == Connected(E)
        Fwd == {e \in E : e[1] # l}
        Bwd == {e \in E : e[2] # l}
        CF  == Connected(Fwd)
        CB  == Connected(Bwd)
    IN  \/ \E v \in OnCycle(Fwd, CF) : <<s, v>> \in CF
        \/ <<s, l>> \notin C /\ \E v \in OnCycle(Bwd, CB) : <<v, s>> \in CB

MustDiverge(l, s, E) ==
    LET C == Connected(E)
    IN  MayDiverge(l, s, E) /\ <<s, l>> \notin C
        /\ (<<l, s>> \in C => \E v \in OnCycle(E, C) : <<s, v>> \in C)

\* Mutant: the dependencies of the path are not linked to the Looper.
LinkPathOnly(l) ==
    /\ phase = "links" /\ l \in unvisited
    /\ edges' = WithPathLinks(l)
    /\ unvisited' = unvisited \ {l}
    /\ UNCHANGED <<config, phase, tags, vertices, queue, sorted, mapping, built>>

\* A source connected to the Looper in no way is linked to it.  Sources are
\* taken one after the other, and one that reaches a source already linked is
\* connected by then: the sets of sources that may end up linked.
Linkable(l, E) ==
    LET C    == Connected(E)
        Free == {s \in SourcesOf(l, E) : <<s, l>> \notin C /\ <<l, s>> \notin C}
    IN  {new \in SUBSET Free : \A s \in Free \ new : \E n \in new : <<s, n>> \in C}

LinkLooper(l) ==
    /\ phase = "links" /\ l \in unvisited
    /\ LET E == WithPathLinks(l) IN
          /\ \A s \in SourcesOf(l, E) : ~MustDiverge(l, s, E)
          /\ \E new \in Linkable(l, E) : edges' = E \cup {<<s, l>> : s \in new}
    /\ unvisited' = unvisited \ {l}
    /\ UNCHANGED <<config, phase, tags, vertices, queue, sorted, mapping, built>>

\* The recursion of isConnectedTo() exhausts the stack.
RecurseForEver(l) ==
    /\ phase = "links" /\ l \in unvisited
    /\ \E s \in SourcesOf(l, WithPathLinks(l)) : MayDiverge(l, s, WithPathLinks(l))
    /\ phase' = "crashed"
    /\ UNCHANGED <<config, tags, graph, unvisited, queue, sorted, mapping, built>>

LinksDone ==
    /\ phase = "links" /\ unvisited = {}
    /\ phase' = "prune"
    /\ unvisited' = vertices
    /\ UNCHANGED <<config, tags, graph, queue, sorted, mapping, built>>

\* Mutant: clear_vertex() is not called.
EdgesKept(v) == edges

\* Mutants: sticky modules are removed as well; the in-edges are counted.
UnusedOrSticky(v)  == (\A e \in edges : e[1] # v) /\ Kind(v) # "internal"
WithoutInEdges(v)  == (\A e \in edges : e[2] # v) /\ Kind(v) \notin {"internal", "sticky"}

\* prune_graph(): a single pass over the vertices.
EdgesWithout(v) == {e \in edges : e[1] # v /\ e[2] # v}
Unused(v)       == (\A e \in edges : e[1] # v) /\ Kind(v) \notin {"internal", "sticky"}

PruneVertex(v) ==
    /\ phase = "prune" /\ v \in unvisited
    /\ IF Unused(v)
       THEN vertices' = vertices \ {v} /\ edges' = EdgesWithout(v)
       ELSE UNCHANGED graph
    /\ unvisited' = unvisited \ {v}
    /\ UNCHANGED <<config, phase, tags, queue, sorted, mapping, built>>

PruneDone ==
    /\ phase = "prune" /\ unvisited = {}
    /\ phase' = "sort"
    /\ unvisited' = vertices
    /\ UNCHANGED <<config, tags, graph, queue, sorted, mapping, built>>

\* sort_graph(): any order the edges allow; internal modules are left out.
SortVertex(v) ==
    /\ phase = "sort" /\ v \in unvisited
    /\ \A u \in unvisited : <<u, v>> \notin edges
    /\ unvisited' = unvisited \ {v}
    /\ sorted' = IF Kind(v) = "internal" THEN sorted ELSE Append(sorted, v)
    /\ UNCHANGED <<config, phase, tags, graph, queue, mapping, built>>

RejectCycle ==
    /\ phase = "sort" /\ unvisited # {}
    /\ \A v \in unvisited : \E u \in unvisited : <<u, v>> \in edges
    /\ phase' = "cyclic"
    /\ UNCHANGED <<config, tags, graph, unvisited, queue, sorted, mapping, built>>

SortDone ==
    /\ phase = "sort" /\ unvisited = {}
    /\ phase' = "validate"
    /\ UNCHANGED <<config, tags, graph, unvisited, queue, sorted, mapping, built>>

-----------------------------------------------------------------------------
(* validate()                                                              *)

Unresolved(m) ==
    /\ Kind(m) # "internal"
    /\ \E i \in DOMAIN tags[m] : \A v \in vertices : ~Matches(tags[m][i], v)

\* The Loopers are visited in order: one that points to t and has it in its
\* path erases what those before it recorded against t.
Misplaced(t) ==
    LET pointing == {i \in DOMAIN sorted : sorted[i] \in Loopers /\ <<sorted[i], t>> \in edges}
    IN  pointing # {} /\ t \notin Elements(sorted[Max(pointing)])

\* Mutant: only the inputs are validated.
ValidateInputs ==
    /\ phase = "validate"
    /\ phase' = IF \E m \in vertices : Unresolved(m) THEN "unresolved" ELSE "count"
    /\ UNCHANGED <<config, tags, graph, unvisited, queue, sorted, mapping, built>>

Validate ==
    /\ phase = "validate"
    /\ phase' = IF \E m \in vertices : Unresolved(m) THEN "unresolved"
                ELSE IF \E t \in vertices : Misplaced(t) THEN "incomplete"
                ELSE "count"
    /\ UNCHANGED <<config, tags, graph, unvisited, queue, sorted, mapping, built>>

-----------------------------------------------------------------------------
(* The integration dimensions.                                             *)

IsDim(t) == t.mod = "cuba" /\ t.par = "ps_points"

\* The dimensions a set of modules asks for, given their InputTags.
Dims(S, T) == UNION {{t.idx : t \in {u \in Range(T[m]) : IsDim(u)}} : m \in S}

\* The targets of the out-edges of cuba, in their order: an edge per InputTag,
\* output by output, and for each output in the order of the modules.
TargetsOf(par) ==
    FlattenSeq([k \in DOMAIN config.modules |->
        LET m == config.modules[k]
            T == {i \in DOMAIN tags[m] : tags[m][i].mod = "cuba" /\ tags[m][i].par = par}
        IN  IF m \in vertices THEN [i \in 1..Cardinality(T) |-> m] ELSE <<>>])

CubaTargets == TargetsOf("ps_points") \o TargetsOf("ps_weight")

\* Mutant: the configuration is trusted for the number of dimensions.
CountNothing ==
    /\ phase = "count"
    /\ phase' = "declare" /\ queue' = sorted
    /\ UNCHANGED <<config, tags, graph, unvisited, sorted, mapping, built>>

CountDimensions ==
    /\ phase = "count"
    /\ IF Cardinality(Dims(vertices, tags)) < config.ndim
       THEN phase' = "reindex" /\ queue' = CubaTargets
       ELSE phase' = "declare" /\ queue' = sorted
    /\ UNCHANGED <<config, tags, graph, unvisited, sorted, mapping, built>>

\* f with y at x, unless f has x already.
Emplaced(f, x, y) == [z \in DOMAIN f \cup {x} |-> IF z \in DOMAIN f THEN f[z] ELSE y]

\* An index met for the first time gets the next number.
Numbered(map, t) ==
    IF IsDim(t) THEN Emplaced(map, t.idx, Cardinality(DOMAIN map)) ELSE map

\* The mapping after the InputTags of m, taken in order.
Numbering(m) ==
    LET map[i \in 0..Len(tags[m])] ==
            IF i = 0 THEN mapping ELSE Numbered(map[i - 1], tags[m][i])
    IN  map[Len(tags[m])]

Reindexed(map, t) == IF IsDim(t) THEN [t EXCEPT !.idx = map[t.idx]] ELSE t

\* Mutant: the loop over the edges does not advance.
ReindexSameTarget ==
    /\ phase = "reindex" /\ queue # <<>>
    /\ LET m == Head(queue) IN
          tags' = [tags EXCEPT ![m] = [i \in DOMAIN tags[m] |-> Reindexed(Numbering(m), tags[m][i])]]
    /\ UNCHANGED <<config, phase, graph, unvisited, queue, sorted, mapping, built>>

\* All the InputTags of the target of one edge of cuba.
ReindexTarget ==
    /\ phase = "reindex" /\ queue # <<>>
    /\ LET m == Head(queue) IN
          /\ mapping' = Numbering(m)
          /\ tags' = [tags EXCEPT ![m] = [i \in DOMAIN tags[m] |-> Reindexed(mapping', tags[m][i])]]
    /\ queue' = Tail(queue)
    /\ UNCHANGED <<config, phase, graph, unvisited, sorted, built>>

ReindexDone ==
    /\ phase = "reindex" /\ queue = <<>>
    /\ phase' = "declare" /\ queue' = sorted
    /\ UNCHANGED <<config, tags, graph, unvisited, sorted, mapping, built>>

-----------------------------------------------------------------------------
(* The computation graph.                                                  *)

\* The first path of the configuration m is in, else the default one.
PathFor(m) ==
    LET in == {i \in DOMAIN config.paths : m \in config.paths[i].elements}
    IN  IF in = {} THEN Default ELSE config.paths[Min(in)].id

\* Mutant: the entry of the path is replaced.
PushedOver(f, p, x) == (p :> <<x>>) @@ f

\* f with x appended to the sequence at p, which may not exist yet.
Pushed(f, p, x) ==
    LET at == IF p \in DOMAIN f THEN f[p] ELSE <<>>
    IN  [q \in DOMAIN f \cup {p} |-> IF q = p THEN Append(at, x) ELSE f[q]]

\* ComputationGraph::addDecl.  The assertion on the first path is compiled
\* out of a release build, and does not stop it.
Declare ==
    /\ phase = "declare" /\ queue # <<>>
    /\ LET m == Head(queue)
           p == PathFor(m)
       IN  /\ decls' = Pushed(decls, p, m)
           /\ order' = IF p \in DOMAIN decls THEN order ELSE Append(order, p)
    /\ queue' = Tail(queue)
    /\ UNCHANGED <<config, phase, tags, graph, unvisited, sorted, mapping, instances, given>>

\* initialize() takes the paths from the last to the first.
DeclareDone ==
    /\ phase = "declare" /\ queue = <<>>
    /\ phase' = "instantiate"
    /\ queue' = FlattenSeq([i \in DOMAIN order |-> decls[Reverse(order)[i]]])
    /\ UNCHANGED <<config, tags, graph, unvisited, sorted, mapping, built>>

\* A Looper is constructed with the instances its path has by now.
Instantiate ==
    /\ phase = "instantiate" /\ queue # <<>>
    /\ LET m == Head(queue) IN
          /\ m \in Loopers => config.pathOf[m] \in DOMAIN instances
          /\ given' = IF m \in Loopers THEN Emplaced(given, m, instances[config.pathOf[m]])
                                       ELSE given
          /\ instances' = Pushed(instances, PathFor(m), m)
    /\ queue' = Tail(queue)
    /\ UNCHANGED <<config, phase, tags, graph, unvisited, sorted, mapping, decls, order>>

\* module_instances.at() finds no instance of the Looper's path.
InstantiateFails ==
    /\ phase = "instantiate" /\ queue # <<>>
    /\ Head(queue) \in Loopers /\ config.pathOf[Head(queue)] \notin DOMAIN instances
    /\ phase' = "failed"
    /\ UNCHANGED <<config, tags, graph, unvisited, queue, sorted, mapping, built>>

InstantiateDone ==
    /\ phase = "instantiate" /\ queue = <<>>
    /\ phase' = "built"
    /\ UNCHANGED <<config, tags, graph, unvisited, queue, sorted, mapping, built>>

-----------------------------------------------------------------------------
Ended == {"built", "failed", "cyclic", "unresolved", "incomplete", "crashed"}

Step ==
    \/ AddEdges
    \/ \E l \in Modules : LinkLooper(l)
    \/ \E l \in Modules : RecurseForEver(l)
    \/ LinksDone
    \/ \E v \in Modules : PruneVertex(v)
    \/ PruneDone
    \/ \E v \in Modules : SortVertex(v)
    \/ RejectCycle
    \/ SortDone
    \/ Validate
    \/ CountDimensions
    \/ ReindexTarget
    \/ ReindexDone
    \/ Declare
    \/ DeclareDone
    \/ Instantiate
    \/ InstantiateFails
    \/ InstantiateDone

Next == Step \/ (phase \in Ended /\ UNCHANGED vars)

Spec == Init /\ [][Next]_vars

\* build() and initialize() are synchronous calls.
FairSpec == Spec /\ WF_vars(Step)

-----------------------------------------------------------------------------
(* Properties                                                              *)

\* What m reads, as the configuration declares it.
Reads(m) == {v \in Modules \ {m} : \E i \in DOMAIN config.tags[m] : Matches(config.tags[m][i], v)}

\* The modules execute() reaches, from the default path, through the Loopers.
RunsIn(p) == IF p \in DOMAIN instances THEN Range(instances[p]) ELSE {}
Executed ==
    {m \in Modules : \A S \in SUBSET Modules :
        (/\ RunsIn(Default) \subseteq S
         /\ \A l \in S \cap DOMAIN given : Range(given[l]) \subseteq S) => m \in S}

\* m and the Loopers m is nested in.
Enclosing(m) ==
    {a \in Modules : \A S \in SUBSET Modules :
        (/\ m \in S
         /\ \A l \in DOMAIN given : Range(given[l]) \cap S # {} => l \in S) => a \in S}

\* a comes before b in one path.
Precedes(a, b) ==
    \E p \in DOMAIN instances : \E i, j \in DOMAIN instances[p] :
        i < j /\ instances[p][i] = a /\ instances[p][j] = b

\* The state has its type.
TypeOK ==
    /\ config \in Configs
    /\ phase \in Ended \cup {"edges", "links", "prune", "sort", "validate", "count",
                             "reindex", "declare", "instantiate"}
    /\ DOMAIN tags = Modules
    /\ vertices \subseteq Modules
    /\ edges \subseteq vertices \X vertices
    /\ unvisited \subseteq vertices
    /\ Range(queue) \subseteq vertices
    /\ Range(sorted) \subseteq {v \in vertices : Kind(v) # "internal"}
    /\ \A p \in DOMAIN decls : Range(decls[p]) \subseteq Range(sorted)
    /\ Range(order) = DOMAIN decls
    /\ DOMAIN instances \subseteq DOMAIN decls
    /\ DOMAIN given \subseteq Loopers

\* From the moment the edges exist, an internal or sticky module stays in the
\* graph, and so does every module a module of the graph reads: whatever the
\* order prune_graph() visits them in, nothing that contributes is removed.
KeptIsClosed ==
    phase # "edges" =>
        /\ \A v \in Modules : Kind(v) \in {"internal", "sticky"} => v \in vertices
        /\ \A m \in vertices : Reads(m) \subseteq vertices

\* Pruning never makes an input unresolved: build() throws unresolved_input
\* only for an InputTag that names no output of a declared module.
UnresolvedWasNeverDeclared ==
    phase = "unresolved" =>
        \E m \in Modules : \E i \in DOMAIN config.tags[m] :
            \A v \in Modules : ~Matches(config.tags[m][i], v)

\* In a graph that was built, a module is called after the modules it reads:
\* they precede it, or the Looper it is in, in a path (or are in a Looper that
\* does), or are the Looper it is in.
RunsAfterItsInputs ==
    phase = "built" =>
        \A m \in Range(sorted) : \A d \in Reads(m) \cap Range(sorted) :
            \/ d \in Enclosing(m)
            \/ \E a \in Enclosing(d), b \in Enclosing(m) : Precedes(a, b)

\* Every module that was kept is executed: the Loopers were constructed after
\* all the instances of their paths.
KeptModulesAreExecuted == phase = "built" => Range(sorted) \subseteq Executed

\* What reads the output of a Looper is executed inside the Looper.
LooperOutputsStayInside ==
    phase = "built" =>
        \A m \in Range(sorted) : Reads(m) \cap Loopers \subseteq Enclosing(m)

\* The modules ask for the dimensions 0..n-1, all of them, where n is what
\* cuba is told; two inputs share one exactly if they did in the configuration.
DimensionsAreContiguous ==
    phase \in {"instantiate", "built"} =>
        /\ Dims(vertices, tags) = 0..(Cardinality(Dims(vertices, config.tags)) - 1)
        /\ \A m, n \in vertices : \A i \in DOMAIN tags[m], j \in DOMAIN tags[n] :
              IsDim(config.tags[m][i]) /\ IsDim(config.tags[n][j]) =>
                  (tags[m][i].idx = tags[n][j].idx
                      <=> config.tags[m][i].idx = config.tags[n][j].idx)

\* build() and initialize() end, with a graph or an error.
BuildEnds == <>(phase \in Ended)

\* Graph.h: "In case it's not possible to build the computation graph (cyclic
\* dependencies for example), an exception is thrown".
CyclesAreReported == phase # "crashed"
=============================================================================
