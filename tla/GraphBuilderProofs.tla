-------------------------- MODULE GraphBuilderProofs --------------------------
(***************************************************************************)
(* Proofs about GraphBuilder: pruning removes nothing that contributes,    *)
(* and sort_graph() and addDecl() put every module that was kept in one    *)
(* path, behind what it reads there, whatever the configuration and        *)
(* whatever the order of the visits.                                       *)
(***************************************************************************)
EXTENDS GraphBuilder, TLAPS

\* The phases before an InputTag may be rewritten.
Early == {"edges", "links", "prune", "sort", "validate"}

\* Until then the InputTags are those of the configuration.
TagsAsDeclared == phase \in Early => tags = config.tags

\* The inductive invariant: what is read by a module of the graph is in the
\* graph, with its edge.  The edge is what keeps prune_graph() from removing it.
ReadsHaveEdges ==
    phase # "edges" =>
        \A m \in vertices : \A d \in Reads(m) : d \in vertices /\ <<d, m>> \in edges

NeededAreKept ==
    \A v \in Modules : Kind(v) \in {"internal", "sticky"} => v \in vertices

StartsWithAll == phase = "edges" => vertices = Modules

PInv ==
    /\ TagsAsDeclared
    /\ StartsWithAll
    /\ vertices \subseteq Modules
    /\ NeededAreKept
    /\ ReadsHaveEdges

-----------------------------------------------------------------------------
\* Init starts with every module, and no edge to check.
LEMMA InitPInv == Init => PInv
BY DEF Init, PInv, TagsAsDeclared, StartsWithAll, NeededAreKept, ReadsHaveEdges, Modules

\* A step that leaves the graph, the configuration and the InputTags alone, and
\* does not go back to the first phase, changes nothing of the invariant.
LEMMA SameGraph ==
    ASSUME PInv, UNCHANGED <<config, vertices, edges>>, phase' # "edges", phase # "edges",
           phase' \in Early => (phase \in Early /\ tags' = tags)
    PROVE  PInv'
BY DEF PInv, TagsAsDeclared, StartsWithAll, NeededAreKept, ReadsHaveEdges, Modules, Reads, Matches, Kind

\* Every way two modules are connected gets its edge.
LEMMA AddEdgesPInv == ASSUME PInv, AddEdges PROVE PInv'
<1> USE DEF AddEdges, Modules
<1>1. phase = "edges" /\ vertices = Modules /\ tags = config.tags
  BY DEF PInv, StartsWithAll, TagsAsDeclared, Early
<1>2. config' = config /\ vertices' = vertices /\ tags' = tags /\ phase' = "links"
  OBVIOUS
<1>3. TagsAsDeclared' /\ StartsWithAll' /\ (vertices \subseteq Modules)' /\ NeededAreKept'
  BY <1>1, <1>2 DEF PInv, TagsAsDeclared, StartsWithAll, NeededAreKept, Kind
<1>4. ASSUME NEW m \in vertices, NEW d \in Reads(m)
      PROVE  d \in vertices /\ <<d, m>> \in edges'
  BY <1>1, <1>4 DEF Reads
<1>5. ReadsHaveEdges'
  <2>1. \A m \in vertices' : \A d \in Reads(m) : d \in vertices' /\ <<d, m>> \in edges'
    BY <1>2, <1>4
  <2>2. \A m : Reads(m)' = Reads(m)
    BY <1>2 DEF Reads, Matches
  <2>3. QED
    BY <2>1, <2>2 DEF ReadsHaveEdges
<1>6. QED
  BY <1>3, <1>5 DEF PInv

\* Linking a Looper adds edges and takes none away.
LEMMA LinkLooperPInv == ASSUME PInv, NEW l, LinkLooper(l) PROVE PInv'
<1>1. config' = config /\ vertices' = vertices /\ tags' = tags /\ phase' = phase /\ phase = "links"
  BY DEF LinkLooper
<1>2. edges \subseteq edges'
  BY DEF LinkLooper, WithPathLinks
<1>3. QED
  BY <1>1, <1>2 DEF PInv, TagsAsDeclared, StartsWithAll, NeededAreKept, ReadsHaveEdges,
                    Modules, Reads, Matches, Kind

\* A vertex that is removed has no out-edge, so nothing that stays reads it;
\* the edges among the others are kept.
LEMMA PruneVertexPInv == ASSUME PInv, NEW v, PruneVertex(v) PROVE PInv'
<1>1. config' = config /\ tags' = tags /\ phase' = phase /\ phase = "prune"
  BY DEF PruneVertex
<1>2. CASE ~Unused(v)
  BY <1>1, <1>2 DEF PruneVertex, graph, PInv, TagsAsDeclared, StartsWithAll, NeededAreKept,
                    ReadsHaveEdges, Modules, Reads, Matches, Kind
<1>3. CASE Unused(v)
  <2>1. vertices' = vertices \ {v} /\ edges' = EdgesWithout(v)
    BY <1>3 DEF PruneVertex
  <2>2. ASSUME NEW m \in vertices \ {v}, NEW d \in Reads(m)
        PROVE  d \in vertices \ {v} /\ <<d, m>> \in EdgesWithout(v)
    <3>1. d \in vertices /\ <<d, m>> \in edges
      BY <1>1, <2>2 DEF PInv, ReadsHaveEdges
    <3>2. d # v
      BY <1>3, <3>1 DEF Unused
    <3>3. QED
      BY <3>1, <3>2 DEF EdgesWithout
  <2>3. ReadsHaveEdges'
    BY <1>1, <2>1, <2>2 DEF ReadsHaveEdges, Reads, Modules, Matches
  <2>4. NeededAreKept'
    BY <1>1, <1>3, <2>1 DEF PInv, NeededAreKept, Unused, Kind, Modules
  <2>5. QED
    BY <1>1, <2>1, <2>3, <2>4 DEF PInv, TagsAsDeclared, StartsWithAll, Modules
<1>4. QED
  BY <1>2, <1>3

\* One case per action.
LEMMA NextPInv == ASSUME PInv, [Next]_vars PROVE PInv'
<1>1. CASE AddEdges
  BY <1>1, AddEdgesPInv
<1>2. ASSUME NEW l \in Modules, LinkLooper(l) PROVE PInv'
  BY <1>2, LinkLooperPInv
<1>3. ASSUME NEW l \in Modules, RecurseForEver(l) PROVE PInv'
  BY <1>3, SameGraph DEF RecurseForEver, graph, Early
<1>4. CASE LinksDone
  BY <1>4, SameGraph DEF LinksDone, graph, Early
<1>5. ASSUME NEW v \in Modules, PruneVertex(v) PROVE PInv'
  BY <1>5, PruneVertexPInv
<1>6. CASE PruneDone
  BY <1>6, SameGraph DEF PruneDone, graph, Early
<1>7. ASSUME NEW v \in Modules, SortVertex(v) PROVE PInv'
  BY <1>7, SameGraph DEF SortVertex, graph, Early
<1>8. CASE RejectCycle
  BY <1>8, SameGraph DEF RejectCycle, graph, Early
<1>9. CASE SortDone
  BY <1>9, SameGraph DEF SortDone, graph, Early
<1>10. CASE Validate
  BY <1>10, SameGraph DEF Validate, graph, Early
<1>11. CASE CountDimensions
  BY <1>11, SameGraph DEF CountDimensions, graph, Early
<1>12. CASE ReindexTarget
  BY <1>12, SameGraph DEF ReindexTarget, graph, Early
<1>13. CASE ReindexDone
  BY <1>13, SameGraph DEF ReindexDone, graph, Early
<1>14. CASE Declare
  BY <1>14, SameGraph DEF Declare, graph, Early
<1>15. CASE DeclareDone
  BY <1>15, SameGraph DEF DeclareDone, graph, Early
<1>16. CASE Instantiate
  BY <1>16, SameGraph DEF Instantiate, graph, Early
<1>17. CASE InstantiateFails
  BY <1>17, SameGraph DEF InstantiateFails, graph, Early
<1>18. CASE InstantiateDone
  BY <1>18, SameGraph DEF InstantiateDone, graph, Early
<1>19. CASE UNCHANGED vars
  BY <1>19 DEF vars, PInv, TagsAsDeclared, StartsWithAll, NeededAreKept, ReadsHaveEdges,
               Modules, Reads, Matches, Kind
<1>20. QED
  BY <1>1, <1>2, <1>3, <1>4, <1>5, <1>6, <1>7, <1>8, <1>9, <1>10, <1>11, <1>12, <1>13,
     <1>14, <1>15, <1>16, <1>17, <1>18, <1>19 DEF Next, Step

\* The invariant holds in every reachable state.
LEMMA AlwaysPInv == Spec => []PInv
<1>1. QED
  BY InitPInv, NextPInv, PTL DEF Spec

-----------------------------------------------------------------------------
\* Whatever the configuration and the order of the visits, no internal or
\* sticky module is pruned, nor any module that a module of the graph reads.
THEOREM PruningIsSafe == Spec => []KeptIsClosed
<1>1. PInv => KeptIsClosed
  BY DEF PInv, ReadsHaveEdges, NeededAreKept, KeptIsClosed
<1>2. QED
  BY <1>1, AlwaysPInv, PTL

\* An InputTag validate() cannot resolve is one no declared module has.
LEMMA ValidateUnresolved ==
    ASSUME PInv, phase = "validate", NEW m \in vertices, Unresolved(m)
    PROVE  \E i \in DOMAIN config.tags[m] : \A v \in Modules : ~Matches(config.tags[m][i], v)
<1>1. tags = config.tags
  BY DEF PInv, TagsAsDeclared, Early
<1>2. PICK i \in DOMAIN tags[m] : \A v \in vertices : ~Matches(tags[m][i], v)
  BY DEF Unresolved
<1>3. ASSUME NEW v \in Modules, Matches(config.tags[m][i], v) PROVE FALSE
  <2>1. CASE v = m
    BY <1>1, <1>2, <1>3, <2>1
  <2>2. CASE v # m
    <3>1. v \in Reads(m)
      BY <1>1, <1>3, <2>2 DEF Reads
    <3>2. v \in vertices
      BY <3>1 DEF PInv, ReadsHaveEdges
    <3>3. QED
      BY <1>1, <1>2, <1>3, <3>2
  <2>3. QED
    BY <2>1, <2>2
<1>4. QED
  BY <1>1, <1>3

\* No other action ends in the phase, and the configuration does not change.
LEMMA NextUnresolved ==
    ASSUME PInv, UnresolvedWasNeverDeclared, [Next]_vars PROVE UnresolvedWasNeverDeclared'
<1>1. CASE Validate
  <2>1. config' = config /\ phase = "validate" /\ (phase' = "unresolved" => \E m \in vertices : Unresolved(m))
    BY <1>1 DEF Validate
  <2>2. \A m \in vertices : m \in Modules
    BY DEF PInv
  <2>3. QED
    BY <2>1, <2>2, ValidateUnresolved DEF UnresolvedWasNeverDeclared, Modules, Matches
<1>2. CASE ~Validate
  <2>1. config' = config /\ (phase' = "unresolved" => phase = "unresolved")
    BY <1>2 DEF Next, Step, AddEdges, LinkLooper, RecurseForEver, LinksDone, PruneVertex, PruneDone,
        SortVertex, RejectCycle, SortDone, CountDimensions, ReindexTarget, ReindexDone, Declare,
        DeclareDone, Instantiate, InstantiateFails, InstantiateDone, vars
  <2>2. QED
    BY <2>1 DEF UnresolvedWasNeverDeclared, Modules, Matches
<1>3. QED
  BY <1>1, <1>2

\* build() throws unresolved_input only for an InputTag that names no output of
\* any declared module, never because pruning took the module away.
THEOREM UnresolvedIsAConfigurationError == Spec => []UnresolvedWasNeverDeclared
<1>1. Init => UnresolvedWasNeverDeclared
  BY DEF Init, UnresolvedWasNeverDeclared
<1>2. QED
  BY <1>1, AlwaysPInv, NextUnresolved, PTL DEF Spec

-----------------------------------------------------------------------------
(* The order that sort_graph() and addDecl() make                           *)

\* No module of s has an edge to one before it, or is in s twice.
InOrder(s) ==
    \A i, j \in DOMAIN s :
        /\ <<s[i], s[j]>> \in edges => i < j
        /\ s[i] = s[j] => i = j

\* Module m is in its path.
Declared(m) ==
    PathFor(m) \in DOMAIN decls /\ \E i \in DOMAIN decls[PathFor(m)] : decls[PathFor(m)][i] = m

Unsorted == {"edges", "links", "prune"}

\* What is sorted has no edge from what is left to sort.
SortInv ==
    /\ phase \in Unsorted => sorted = <<>>
    /\ sorted \in Seq(vertices)
    /\ InOrder(sorted)
    /\ phase = "sort" =>
          /\ unvisited \subseteq vertices
          /\ \A i \in DOMAIN sorted :
                sorted[i] \notin unvisited /\ \A v \in unvisited : <<v, sorted[i]>> \notin edges
          /\ \A v \in vertices \ unvisited :
                Kind(v) = "internal" \/ \E i \in DOMAIN sorted : sorted[i] = v
    /\ phase \notin Unsorted \cup {"sort"} \cup {"crashed", "cyclic"} =>
          \A v \in vertices : Kind(v) = "internal" \/ \E i \in DOMAIN sorted : sorted[i] = v

\* What is declared has no edge from what is left to declare.
DeclInv ==
    /\ phase \in Early \cup {"count", "reindex"} => decls = Empty
    /\ \A p \in DOMAIN decls : decls[p] \in Seq(vertices) /\ InOrder(decls[p])
    /\ phase = "declare" =>
          /\ queue \in Seq(vertices) /\ InOrder(queue)
          /\ \A p \in DOMAIN decls : \A i \in DOMAIN decls[p], k \in DOMAIN queue :
                <<queue[k], decls[p][i]>> \notin edges /\ queue[k] # decls[p][i]
          /\ \A k \in DOMAIN sorted :
                Declared(sorted[k]) \/ \E i \in DOMAIN queue : queue[i] = sorted[k]
    /\ phase \in {"instantiate", "built", "failed"} => \A k \in DOMAIN sorted : Declared(sorted[k])

-----------------------------------------------------------------------------
(* Lemmas about sequences                                                  *)

LEMMA Appended ==
    ASSUME NEW S, NEW s \in Seq(S), NEW x \in S
    PROVE  /\ Append(s, x) \in Seq(S)
           /\ DOMAIN s = 1..Len(s) /\ Len(s) \in Nat
           /\ DOMAIN Append(s, x) = 1..(Len(s) + 1)
           /\ \A i \in 1..Len(s) : Append(s, x)[i] = s[i]
           /\ Append(s, x)[Len(s) + 1] = x
OBVIOUS

\* x may follow s if it has no edge to s or itself, and is not in s.
LEMMA InOrderAppend ==
    ASSUME NEW S, NEW s \in Seq(S), NEW x \in S, InOrder(s),
           \A i \in DOMAIN s : <<x, s[i]>> \notin edges /\ s[i] # x,
           <<x, x>> \notin edges
    PROVE  InOrder(Append(s, x))
<1> DEFINE t == Append(s, x)
<1>1. /\ DOMAIN s = 1..Len(s) /\ Len(s) \in Nat
      /\ DOMAIN t = 1..(Len(s) + 1) /\ t[Len(s) + 1] = x
      /\ \A i \in 1..Len(s) : t[i] = s[i]
  BY Appended
<1> SUFFICES ASSUME NEW i \in DOMAIN t, NEW j \in DOMAIN t
             PROVE  (<<t[i], t[j]>> \in edges => i < j) /\ (t[i] = t[j] => i = j)
  BY DEF InOrder
<1> HIDE DEF t
<1>2. CASE i \in 1..Len(s) /\ j \in 1..Len(s)
  BY <1>1, <1>2 DEF InOrder
<1>3. CASE i = Len(s) + 1 /\ j \in 1..Len(s)
  BY <1>1, <1>3
<1>4. CASE i \in 1..Len(s) /\ j = Len(s) + 1
  BY <1>1, <1>4
<1>5. CASE i = Len(s) + 1 /\ j = Len(s) + 1
  BY <1>1, <1>5
<1> QED
  BY <1>1, <1>2, <1>3, <1>4, <1>5

LEMMA Tailed ==
    ASSUME NEW S, NEW s \in Seq(S), s # <<>>
    PROVE  /\ Tail(s) \in Seq(S) /\ Head(s) \in S /\ Head(s) = s[1] /\ 1 \in DOMAIN s
           /\ \A i \in DOMAIN Tail(s) : i + 1 \in DOMAIN s /\ Tail(s)[i] = s[i + 1] /\ i \in Nat /\ i # 0
           /\ \A i \in DOMAIN s : i # 1 => i - 1 \in DOMAIN Tail(s) /\ Tail(s)[i - 1] = s[i]
OBVIOUS

LEMMA InOrderTail ==
    ASSUME NEW S, NEW s \in Seq(S), s # <<>>, InOrder(s)
    PROVE  /\ InOrder(Tail(s))
           /\ <<Head(s), Head(s)>> \notin edges
           /\ \A k \in DOMAIN Tail(s) : <<Tail(s)[k], Head(s)>> \notin edges /\ Tail(s)[k] # Head(s)
BY Tailed DEF InOrder

-----------------------------------------------------------------------------
(* Sorting                                                                 *)

LEMMA SortVertexKeeps ==
    ASSUME SortInv, NEW v, SortVertex(v)
    PROVE  SortInv'
<1>1. /\ phase = "sort" /\ phase' = "sort" /\ v \in unvisited /\ v \in vertices
      /\ vertices' = vertices /\ edges' = edges /\ config' = config
      /\ unvisited' = unvisited \ {v} /\ sorted \in Seq(vertices)
      /\ \A u \in unvisited : <<u, v>> \notin edges
  BY DEF SortVertex, SortInv, graph
<1>2. CASE Kind(v) = "internal"
  BY <1>1, <1>2 DEF SortVertex, SortInv, InOrder, Kind, Unsorted
<1>3. CASE Kind(v) # "internal"
  <2>1. sorted' = Append(sorted, v)
    BY <1>3 DEF SortVertex
  <2>2. /\ sorted' \in Seq(vertices) /\ DOMAIN sorted = 1..Len(sorted) /\ Len(sorted) \in Nat
        /\ DOMAIN sorted' = 1..(Len(sorted) + 1) /\ sorted'[Len(sorted) + 1] = v
        /\ \A i \in 1..Len(sorted) : sorted'[i] = sorted[i]
    BY <1>1, <2>1, Appended
  <2>3. InOrder(sorted)'
    <3>1. InOrder(Append(sorted, v))
      <4>1. InOrder(sorted) /\ \A i \in DOMAIN sorted : <<v, sorted[i]>> \notin edges /\ sorted[i] # v
        BY <1>1 DEF SortInv
      <4>2. <<v, v>> \notin edges
        BY <1>1
      <4> QED
        BY <1>1, <4>1, <4>2, InOrderAppend
    <3> QED
      BY <1>1, <2>1, <3>1 DEF InOrder
  <2>4. \A i \in DOMAIN sorted' :
           sorted'[i] \notin unvisited' /\ \A u \in unvisited' : <<u, sorted'[i]>> \notin edges
    <3> SUFFICES ASSUME NEW i \in DOMAIN sorted'
                 PROVE  sorted'[i] \notin unvisited' /\ \A u \in unvisited' : <<u, sorted'[i]>> \notin edges
      OBVIOUS
    <3>1. CASE i \in DOMAIN sorted
      BY <1>1, <2>2, <3>1 DEF SortInv
    <3>2. CASE i = Len(sorted) + 1
      BY <1>1, <2>2, <3>2
    <3> QED
      BY <2>2, <3>1, <3>2
  <2>5. \A u \in vertices \ unvisited' :
           Kind(u) = "internal" \/ \E i \in DOMAIN sorted' : sorted'[i] = u
    <3>1. Len(sorted) + 1 \in DOMAIN sorted' /\ DOMAIN sorted \subseteq DOMAIN sorted'
      BY <2>2
    <3>2. \A u \in vertices \ unvisited : Kind(u) = "internal" \/ \E i \in DOMAIN sorted : sorted[i] = u
      BY <1>1 DEF SortInv
    <3> QED
      BY <1>1, <2>2, <3>1, <3>2
  <2>6. \A u : Kind(u)' = Kind(u)
    BY <1>1 DEF Kind
  <2> QED
    BY <1>1, <2>2, <2>3, <2>4, <2>5, <2>6 DEF SortInv, Unsorted
<1> QED
  BY <1>2, <1>3

LEMMA SortNext ==
    ASSUME SortInv, [Next]_vars
    PROVE  SortInv'
<1>1. ASSUME phase \in Unsorted, sorted' = sorted, phase' \in Unsorted \cup {"crashed"}
      PROVE  SortInv'
  <2>1. sorted = <<>> /\ sorted' = <<>> /\ phase' # "sort"
    BY <1>1 DEF SortInv, Unsorted
  <2> QED
    BY <1>1, <2>1 DEF SortInv, InOrder
<1>2. CASE PruneDone
  <2>1. sorted = <<>> /\ sorted' = <<>> /\ phase' = "sort" /\ unvisited' = vertices /\ vertices' = vertices
    BY <1>2 DEF PruneDone, SortInv, Unsorted, graph
  <2> QED
    BY <2>1 DEF SortInv, InOrder, Unsorted
<1>3. ASSUME NEW v \in Modules, SortVertex(v) PROVE SortInv'
  BY <1>3, SortVertexKeeps
<1>4. ASSUME UNCHANGED <<config, vertices, edges, sorted>>, phase \notin Unsorted,
             phase' \notin Unsorted \cup {"sort"},
             phase = "sort" => unvisited = {} \/ phase' \in {"crashed", "cyclic"},
             phase \in {"crashed", "cyclic"} => phase' = phase
      PROVE  SortInv'
  BY <1>4 DEF SortInv, InOrder, Kind
<1>5. CASE UNCHANGED vars
  BY <1>5 DEF vars, SortInv, InOrder, Kind
<1>6. CASE AddEdges \/ LinksDone \/ \E x \in Modules : LinkLooper(x) \/ RecurseForEver(x) \/ PruneVertex(x)
  BY <1>1, <1>6 DEF AddEdges, LinkLooper, RecurseForEver, LinksDone, PruneVertex, Unsorted
<1>7. CASE RejectCycle \/ SortDone \/ Validate \/ CountDimensions \/ ReindexTarget \/ ReindexDone
           \/ Declare \/ DeclareDone \/ Instantiate \/ InstantiateFails \/ InstantiateDone
  BY <1>4, <1>7 DEF RejectCycle, SortDone, Validate, CountDimensions, ReindexTarget, ReindexDone,
        Declare, DeclareDone, Instantiate, InstantiateFails, InstantiateDone, Unsorted, graph, built
<1> QED
  BY <1>2, <1>3, <1>5, <1>6, <1>7 DEF Next, Step

-----------------------------------------------------------------------------
(* Declaring                                                               *)

\* A step that leaves the graph and the paths alone.
LEMMA SamePaths ==
    ASSUME DeclInv, UNCHANGED <<config, vertices, edges, sorted, decls>>,
           phase' # "declare",
           phase' \in {"instantiate", "built", "failed"} => phase \in {"instantiate", "built", "failed"},
           phase' \in Early \cup {"count", "reindex"} => phase \in Early \cup {"count", "reindex"}
    PROVE  DeclInv'
<1>1. \A m : PathFor(m)' = PathFor(m)
  BY DEF PathFor
<1>2. \A m : Declared(m)' <=> Declared(m)
  BY <1>1 DEF Declared
<1>3. \A p \in DOMAIN decls : decls'[p] \in Seq(vertices') /\ InOrder(decls[p])'
  BY DEF DeclInv, InOrder
<1> QED
  BY <1>2, <1>3 DEF DeclInv

LEMMA StartDeclaring ==
    ASSUME SortInv, decls = Empty, phase \notin Unsorted,
           UNCHANGED <<config, vertices, edges, sorted, decls>>,
           phase' = "declare", queue' = sorted
    PROVE  DeclInv'
<1>1. decls' = Empty /\ DOMAIN Empty = {}
  BY DEF Empty
<1>2. sorted \in Seq(vertices) /\ InOrder(sorted)
  BY DEF SortInv
<1>3. InOrder(queue)'
  BY <1>2 DEF InOrder
<1> QED
  BY <1>1, <1>2, <1>3 DEF DeclInv, Early

LEMMA DeclareKeeps ==
    ASSUME SortInv, DeclInv, Declare
    PROVE  DeclInv'
<1> DEFINE m  == Head(queue)
           p  == PathFor(m)
           at == IF p \in DOMAIN decls THEN decls[p] ELSE <<>>
<1>1. /\ phase = "declare" /\ phase' = "declare" /\ queue # <<>> /\ queue' = Tail(queue)
      /\ vertices' = vertices /\ edges' = edges /\ config' = config /\ sorted' = sorted
      /\ decls' = Pushed(decls, p, m)
  BY DEF Declare, graph
<1>2. /\ queue \in Seq(vertices) /\ InOrder(queue)
      /\ \A q \in DOMAIN decls : \A i \in DOMAIN decls[q], k \in DOMAIN queue :
            <<queue[k], decls[q][i]>> \notin edges /\ queue[k] # decls[q][i]
  BY <1>1 DEF DeclInv
<1>3. m \in vertices /\ m = queue[1] /\ 1 \in DOMAIN queue
  BY <1>1, <1>2, Tailed
<1> HIDE DEF m, p
<1>4. /\ DOMAIN decls' = DOMAIN decls \cup {p}
      /\ \A q \in DOMAIN decls \ {p} : decls'[q] = decls[q]
      /\ decls'[p] = Append(at, m)
  BY <1>1 DEF Pushed, at
<1> HIDE DEF at
<1>5. at \in Seq(vertices) /\ InOrder(at)
      /\ \A i \in DOMAIN at, k \in DOMAIN queue : <<queue[k], at[i]>> \notin edges /\ queue[k] # at[i]
  <2>1. CASE p \in DOMAIN decls
    BY <1>2, <2>1 DEF DeclInv, at
  <2>2. CASE p \notin DOMAIN decls
    <3>1. at = <<>> /\ DOMAIN at = {}
      BY <2>2 DEF at
    <3>2. at \in Seq(vertices)
      BY <3>1
    <3> QED
      BY <3>1, <3>2 DEF InOrder
  <2> QED
    BY <2>1, <2>2
<1>6. <<m, m>> \notin edges
  BY <1>1, <1>2, InOrderTail DEF m
<1>7. InOrder(Append(at, m)) /\ Append(at, m) \in Seq(vertices)
  BY <1>3, <1>5, <1>6, InOrderAppend, Appended
<1>8. \A q \in DOMAIN decls' : decls'[q] \in Seq(vertices') /\ InOrder(decls[q])'
  <2>1. \A q \in DOMAIN decls' : decls'[q] \in Seq(vertices) /\ InOrder(decls'[q])
    BY <1>4, <1>7 DEF DeclInv
  <2> QED
    BY <1>1, <2>1 DEF InOrder
<1>9. queue' \in Seq(vertices') /\ InOrder(queue)'
  <2>1. InOrder(Tail(queue)) /\ Tail(queue) \in Seq(vertices)
    BY <1>1, <1>2, InOrderTail, Tailed
  <2> QED
    BY <1>1, <2>1 DEF InOrder
<1>10. \A q \in DOMAIN decls' : \A i \in DOMAIN decls'[q], k \in DOMAIN queue' :
          <<queue'[k], decls'[q][i]>> \notin edges' /\ queue'[k] # decls'[q][i]
  <2> SUFFICES ASSUME NEW q \in DOMAIN decls', NEW i \in DOMAIN decls'[q], NEW k \in DOMAIN queue'
               PROVE  <<queue'[k], decls'[q][i]>> \notin edges /\ queue'[k] # decls'[q][i]
    BY <1>1
  <2>1. k + 1 \in DOMAIN queue /\ queue'[k] = queue[k + 1]
    BY <1>1, <1>2, Tailed
  <2>2. CASE q # p
    BY <1>2, <1>4, <2>1, <2>2
  <2>3. CASE q = p /\ i \in DOMAIN at
    BY <1>3, <1>4, <1>5, <2>1, <2>3, Appended
  <2>4. CASE q = p /\ i \notin DOMAIN at
    <3>1. decls'[q][i] = m
      BY <1>3, <1>4, <1>5, <2>4, Appended
    <3>2. <<queue'[k], m>> \notin edges /\ queue'[k] # m
      BY <1>1, <1>2, InOrderTail DEF m
    <3> QED
      BY <3>1, <3>2
  <2> QED
    BY <2>2, <2>3, <2>4
<1>11. ASSUME NEW k \in DOMAIN sorted
       PROVE  Declared(sorted[k])' \/ \E i \in DOMAIN queue' : queue'[i] = sorted[k]
  <2>1. PathFor(sorted[k])' = PathFor(sorted[k])
    BY <1>1 DEF PathFor
  <2>2. CASE Declared(sorted[k])
    <3> DEFINE q == PathFor(sorted[k])
    <3>1. PICK i \in DOMAIN decls[q] : decls[q][i] = sorted[k]
      BY <2>2 DEF Declared
    <3>2. i \in DOMAIN decls'[q] /\ decls'[q][i] = sorted[k] /\ q \in DOMAIN decls'
      <4>1. CASE q # p
        BY <1>4, <2>2, <3>1, <4>1 DEF Declared
      <4>2. CASE q = p
        <5>1. at = decls[q]
          BY <2>2, <4>2 DEF Declared, at
        <5> QED
          BY <1>3, <1>4, <1>5, <3>1, <4>2, <5>1, Appended
      <4> QED
        BY <4>1, <4>2
    <3> QED
      BY <1>1, <2>1, <3>2 DEF Declared
  <2>3. ASSUME NEW i \in DOMAIN queue, queue[i] = sorted[k]
        PROVE  Declared(sorted[k])' \/ \E j \in DOMAIN queue' : queue'[j] = sorted[k]
    <3>1. CASE i = 1
      <4>1. sorted[k] = m /\ PathFor(sorted[k]) = p
        BY <1>3, <2>3, <3>1 DEF p
      <4>2. Len(at) + 1 \in DOMAIN decls'[p] /\ decls'[p][Len(at) + 1] = m
        BY <1>3, <1>4, <1>5, Appended
      <4>3. p \in DOMAIN decls'
        BY <1>4
      <4> QED
        BY <1>1, <2>1, <4>1, <4>2, <4>3 DEF Declared
    <3>2. CASE i # 1
      <4>1. i - 1 \in DOMAIN Tail(queue) /\ Tail(queue)[i - 1] = queue[i]
        BY <1>1, <1>2, <3>2, Tailed
      <4> QED
        BY <1>1, <2>3, <4>1
    <3> QED
      BY <3>1, <3>2
  <2> QED
    BY <1>1, <2>2, <2>3 DEF DeclInv
<1> QED
  BY <1>1, <1>8, <1>9, <1>10, <1>11 DEF DeclInv, Early

\* After the last declaration, all that was sorted is in its path.
LEMMA StopDeclaring ==
    ASSUME DeclInv, DeclareDone
    PROVE  DeclInv'
<1>1. /\ phase = "declare" /\ queue = <<>> /\ phase' = "instantiate"
      /\ UNCHANGED <<config, vertices, edges, sorted, decls>>
  BY DEF DeclareDone, graph, built
<1>2. \A m : PathFor(m)' = PathFor(m)
  BY <1>1 DEF PathFor
<1>3. \A m : Declared(m)' <=> Declared(m)
  BY <1>1, <1>2 DEF Declared
<1>4. \A k \in DOMAIN sorted : Declared(sorted[k])
  BY <1>1 DEF DeclInv
<1>5. ASSUME NEW p \in DOMAIN decls
      PROVE  decls'[p] \in Seq(vertices') /\ InOrder(decls[p])'
  <2>1. decls[p] \in Seq(vertices) /\ InOrder(decls[p])
    BY DEF DeclInv
  <2> QED
    BY <1>1, <2>1 DEF InOrder
<1> QED
  BY <1>1, <1>3, <1>4, <1>5 DEF DeclInv, Early

LEMMA DeclNext ==
    ASSUME SortInv, DeclInv, [Next]_vars
    PROVE  DeclInv'
<1>1. ASSUME decls = Empty, decls' = decls, phase' \notin {"declare", "instantiate", "built", "failed"}
      PROVE  DeclInv'
  BY <1>1 DEF DeclInv, Empty
<1>2. CASE AddEdges \/ LinksDone \/ PruneDone \/ RejectCycle \/ SortDone \/ Validate
           \/ \E x \in Modules : LinkLooper(x) \/ RecurseForEver(x) \/ PruneVertex(x) \/ SortVertex(x)
  <2>1. phase \in Early /\ decls' = decls
    BY <1>2 DEF AddEdges, LinksDone, PruneDone, RejectCycle, SortDone, Validate, LinkLooper,
          RecurseForEver, PruneVertex, SortVertex, Early, built
  <2>2. phase' \notin {"declare", "instantiate", "built", "failed"}
    BY <1>2 DEF AddEdges, LinksDone, PruneDone, RejectCycle, SortDone, Validate, LinkLooper,
          RecurseForEver, PruneVertex, SortVertex
  <2> QED
    BY <1>1, <2>1, <2>2 DEF DeclInv
<1>3. CASE CountDimensions
  <2>1. phase = "count" /\ decls = Empty /\ UNCHANGED <<config, vertices, edges, sorted, decls>>
    BY <1>3 DEF CountDimensions, DeclInv, graph, built
  <2>2. CASE phase' = "reindex"
    BY <1>1, <2>1, <2>2
  <2>3. CASE phase' = "declare" /\ queue' = sorted
    BY <2>1, <2>3, StartDeclaring DEF Unsorted
  <2> QED
    BY <1>3, <2>2, <2>3 DEF CountDimensions
<1>4. CASE ReindexTarget
  <2>1. phase = "reindex" /\ phase' = "reindex" /\ decls = Empty /\ decls' = decls
    BY <1>4 DEF ReindexTarget, DeclInv, built
  <2> QED
    BY <1>1, <2>1
<1>5. CASE ReindexDone
  <2>1. /\ phase = "reindex" /\ phase' = "declare" /\ queue' = sorted /\ decls = Empty
        /\ UNCHANGED <<config, vertices, edges, sorted, decls>>
    BY <1>5 DEF ReindexDone, DeclInv, graph, built
  <2> QED
    BY <2>1, StartDeclaring DEF Unsorted
<1>6. CASE Declare
  BY <1>6, DeclareKeeps
<1>7. CASE DeclareDone
  BY <1>7, StopDeclaring
<1>8. CASE Instantiate \/ InstantiateFails \/ InstantiateDone
  BY <1>8, SamePaths DEF Instantiate, InstantiateFails, InstantiateDone, graph, built, Early
<1>9. CASE UNCHANGED vars
  <2>1. /\ phase' = phase /\ queue' = queue
        /\ UNCHANGED <<config, vertices, edges, sorted, decls>>
    BY <1>9 DEF vars
  <2>2. \A m : PathFor(m)' = PathFor(m)
    BY <2>1 DEF PathFor
  <2>3. \A m : Declared(m)' <=> Declared(m)
    BY <2>1, <2>2 DEF Declared
  <2> QED
    BY <2>1, <2>3 DEF DeclInv, InOrder
<1> QED
  BY <1>2, <1>3, <1>4, <1>5, <1>6, <1>7, <1>8, <1>9 DEF Next, Step

LEMMA AlwaysInOrder == Spec => [](PInv /\ SortInv /\ DeclInv)
<1>1. Init => SortInv /\ DeclInv
  BY DEF Init, SortInv, DeclInv, InOrder, Unsorted, Early, Empty
<1>2. SortInv /\ DeclInv /\ [Next]_vars => SortInv' /\ DeclInv'
  BY SortNext, DeclNext
<1> QED
  BY <1>1, <1>2, AlwaysPInv, PTL DEF Spec

-----------------------------------------------------------------------------
\* In each path of the graph, a module comes after those of the path it reads.
PathsAreInOrder ==
    \A p \in DOMAIN decls : \A i, j \in DOMAIN decls[p] :
        decls[p][i] \in Reads(decls[p][j]) => i < j

\* Once all is declared, every module that was kept is in the path the
\* configuration has it in, or in the default one.
KeptAreDeclared ==
    phase \in {"instantiate", "built", "failed"} =>
        \A m \in vertices : Kind(m) # "internal" => Declared(m)

\* Whatever the order the containers are visited in, and with any number of
\* paths, build() gives each kept module its path and has it behind the
\* modules of this path that it reads.
THEOREM PathsAreSorted == Spec => [](PathsAreInOrder /\ KeptAreDeclared)
<1>1. PInv /\ SortInv /\ DeclInv => PathsAreInOrder /\ KeptAreDeclared
  <2> SUFFICES ASSUME PInv, SortInv, DeclInv
               PROVE  PathsAreInOrder /\ KeptAreDeclared
    OBVIOUS
  <2>1. ASSUME NEW p \in DOMAIN decls, NEW i \in DOMAIN decls[p], NEW j \in DOMAIN decls[p],
               decls[p][i] \in Reads(decls[p][j])
        PROVE  i < j
    <3>1. decls[p] \in Seq(vertices) /\ InOrder(decls[p])
      BY DEF DeclInv
    <3>2. decls[p][j] \in vertices /\ phase # "edges"
      BY <3>1 DEF DeclInv, Early, Empty
    <3>3. <<decls[p][i], decls[p][j]>> \in edges
      BY <2>1, <3>2 DEF PInv, ReadsHaveEdges
    <3> QED
      BY <3>1, <3>3 DEF InOrder
  <2>2. ASSUME phase \in {"instantiate", "built", "failed"}, NEW m \in vertices, Kind(m) # "internal"
        PROVE  Declared(m)
    <3>1. \E k \in DOMAIN sorted : sorted[k] = m
      BY <2>2 DEF SortInv, Unsorted
    <3> QED
      BY <2>2, <3>1 DEF DeclInv
  <2> QED
    BY <2>1, <2>2 DEF PathsAreInOrder, KeptAreDeclared
<1> QED
  BY <1>1, AlwaysInOrder, PTL
=============================================================================
