--------------------------- MODULE GraphPathsProofs ---------------------------
(***************************************************************************)
(* Proofs about what GraphBuilder makes of any configuration: addDecl() and *)
(* initialize() give each path its modules in the order of the sort, and    *)
(* each Looper the instances of its path; the indices of the dimensions are *)
(* renumbered; validate() rejects what reads a Looper outside of its path;  *)
(* a module is called after the modules it reads.  The theorems that do not *)
(* hold of every configuration name the hypothesis they need.               *)
(***************************************************************************)
EXTENDS GraphBuilderProofs, FiniteInduction

\* The phases in which module declarations and instances are made.
Declaring     == {"declare", "instantiate", "built", "failed"}
Instantiating == {"instantiate", "built", "failed"}

\* x comes before y in the sorted vertices.
Earlier(x, y) == \E i, j \in DOMAIN sorted : i < j /\ sorted[i] = x /\ sorted[j] = y

Increasing(s) == \A i, j \in DOMAIN s : i < j => Earlier(s[i], s[j])

\* Path p comes before q in sorted_execution_paths.
FirstDeclared(p, q) == \E a, b \in DOMAIN order : a < b /\ order[a] = p /\ order[b] = q

\* A Looper is in the graph with what is left of its path, and points to it.
Linked(l) == \A m \in Elements(l) \cap vertices : l \in vertices /\ <<l, m>> \in edges

LinkInv ==
    /\ edges \subseteq vertices \X vertices
    /\ phase = "edges" => edges = {}
    /\ phase \in {"edges", "links"} => vertices = Modules
    /\ phase = "links" => unvisited \subseteq Loopers /\ \A l \in Loopers \ unvisited : Linked(l)
    /\ phase \notin {"edges", "links", "crashed"} => \A l \in Loopers : Linked(l)

\* The modules of each path are in the order of `sorted', and the paths in the
\* order of their first modules.
OrderInv ==
    /\ phase \notin Declaring => order = <<>> /\ decls = Empty
    /\ \A p \in DOMAIN decls :
          /\ decls[p] \in Seq(Range(sorted)) /\ decls[p] # <<>> /\ Increasing(decls[p])
          /\ \A i \in DOMAIN decls[p] : PathFor(decls[p][i]) = p
    /\ order \in Seq(DOMAIN decls) /\ Range(order) = DOMAIN decls
    /\ \A a, b \in DOMAIN order : a < b =>
          \A i \in DOMAIN decls[order[b]] : Earlier(decls[order[a]][1], decls[order[b]][i])
    /\ phase = "declare" =>
          /\ queue \in Seq(Range(sorted)) /\ Increasing(queue)
          /\ \A p \in DOMAIN decls : \A i \in DOMAIN decls[p], k \in DOMAIN queue :
                Earlier(decls[p][i], queue[k])

\* Of two modules still to be instantiated, the first is the one that is sorted
\* first when they are of one path, and else that of the path declared last.
QueueInv ==
    phase \in {"instantiate", "failed"} =>
        /\ queue \in Seq(Range(sorted))
        /\ \A i, j \in DOMAIN queue : i < j =>
              IF PathFor(queue[i]) = PathFor(queue[j])
              THEN Earlier(queue[i], queue[j])
              ELSE FirstDeclared(PathFor(queue[j]), PathFor(queue[i]))

\* m was instantiated, in its path.
Instantiated(m) ==
    /\ PathFor(m) \in DOMAIN instances
    /\ \E i \in DOMAIN instances[PathFor(m)] : instances[PathFor(m)][i] = m

\* Looper l was constructed with all that is sorted of its path.
HasItsPath(l) ==
    \A m \in Range(sorted) : PathFor(m) = config.pathOf[l] =>
        \E i \in DOMAIN given[l] : given[l][i] = m

InstancesInv ==
    /\ phase \notin Instantiating => instances = Empty /\ given = Empty
    /\ \A p \in DOMAIN instances :
          /\ instances[p] \in Seq(Range(sorted)) /\ Increasing(instances[p])
          /\ \A i \in DOMAIN instances[p] : PathFor(instances[p][i]) = p
          /\ phase \in {"instantiate", "failed"} =>
                \A i \in DOMAIN instances[p], k \in DOMAIN queue :
                    PathFor(queue[k]) = p => Earlier(instances[p][i], queue[k])
    /\ DOMAIN instances \subseteq DOMAIN decls
    /\ phase \in {"instantiate", "failed"} =>
          \A m \in Range(sorted) : Instantiated(m) \/ \E k \in DOMAIN queue : queue[k] = m
    /\ phase = "built" => \A m \in Range(sorted) : Instantiated(m)
    /\ DOMAIN given \subseteq Loopers
    /\ \A p \in DOMAIN instances : \A i \in DOMAIN instances[p] :
          instances[p][i] \in Loopers => instances[p][i] \in DOMAIN given
    /\ \A l \in DOMAIN given : HasItsPath(l)

PathsInv == LinkInv /\ OrderInv /\ QueueInv /\ InstancesInv

-----------------------------------------------------------------------------
(* The paths of a configuration                                            *)

\* A step does not change the configuration, nor what is read from it.
LEMMA ConfigKept == ASSUME [Next]_vars PROVE config' = config
BY DEF Next, Step, AddEdges, LinkLooper, RecurseForEver, LinksDone, PruneVertex, PruneDone, SortVertex,
       RejectCycle, SortDone, Validate, CountDimensions, ReindexTarget, ReindexDone, Declare, DeclareDone,
       Instantiate, InstantiateFails, InstantiateDone, vars

LEMMA SameConfig ==
    ASSUME [Next]_vars
    PROVE  /\ config' = config /\ Modules' = Modules /\ Loopers' = Loopers
           /\ \A m : Kind(m)' = Kind(m)
           /\ \A l : Elements(l)' = Elements(l)
           /\ \A m : PathFor(m)' = PathFor(m)
           /\ \A m : Reads(m)' = Reads(m)
<1>1. config' = config
  BY ConfigKept
<1>2. Modules' = Modules /\ Loopers' = Loopers /\ \A m : Kind(m)' = Kind(m)
  BY <1>1 DEF Modules, Loopers, Kind
<1>3. \A l : Elements(l)' = Elements(l)
  BY <1>1 DEF Elements, LooperPath
<1>4. \A m : PathFor(m)' = PathFor(m)
  BY <1>1 DEF PathFor
<1>5. \A m : Reads(m)' = Reads(m)
  BY <1>1, <1>2 DEF Reads, Matches
<1> QED
  BY <1>1, <1>2, <1>3, <1>4, <1>5

\* The path of a Looper is one of the configuration, and does not hold it.
LEMMA LooperPathIs ==
    ASSUME config \in Configs, NEW l \in Loopers
    PROVE  /\ LooperPath(l) \in DOMAIN config.paths
           /\ config.paths[LooperPath(l)].id = config.pathOf[l]
           /\ l \notin Elements(l)
<1>1. ConfigType(config)
  BY ConfigAssumption
<1>2. l \in Range(config.modules) /\ config.kind[l] = "looper"
  BY DEF Loopers, Modules, Kind
<1>3. PICK i \in DOMAIN config.paths :
         config.paths[i].id = config.pathOf[l] /\ l \notin config.paths[i].elements
  BY <1>1, <1>2 DEF ConfigType
<1>4. \A j \in DOMAIN config.paths : config.paths[j].id = config.pathOf[l] => j = i
  BY <1>1, <1>3 DEF ConfigType
<1>5. LooperPath(l) = i
  BY <1>3, <1>4 DEF LooperPath
<1> QED
  BY <1>3, <1>5 DEF Elements

\* A module has the default path, or a path of the configuration that holds it.
LEMMA PathForIs ==
    ASSUME config \in Configs, NEW m
    PROVE  \/ PathFor(m) = Default /\ \A i \in DOMAIN config.paths : m \notin config.paths[i].elements
           \/ \E i \in DOMAIN config.paths :
                 m \in config.paths[i].elements /\ PathFor(m) = config.paths[i].id
<1> DEFINE in == {i \in DOMAIN config.paths : m \in config.paths[i].elements}
<1>1. CASE in = {}
  BY <1>1 DEF PathFor
<1>2. CASE in # {}
  <2>1. config.paths \in Seq(Range(config.paths))
    BY ConfigAssumption DEF ConfigType
  <2>2. in \in SUBSET Nat
    BY <2>1
  <2>3. \E i \in in : \A j \in in : i <= j
    BY <1>2, <2>2, LeastNatural
  <2>4. Min(in) \in in
    BY <2>3 DEF Min
  <2>5. PathFor(m) = config.paths[Min(in)].id
    BY <1>2 DEF PathFor
  <2> QED
    BY <2>4, <2>5
<1> QED
  BY <1>1, <1>2

\* What is in the path of a Looper is among the elements of its ExecutionPath.
LEMMA PathOfLooper ==
    ASSUME config \in Configs, NEW l \in Loopers, NEW m, PathFor(m) = config.pathOf[l]
    PROVE  m \in Elements(l) /\ m # l
<1>1. ConfigType(config)
  BY ConfigAssumption
<1>2. LooperPath(l) \in DOMAIN config.paths /\ config.paths[LooperPath(l)].id = config.pathOf[l]
      /\ l \notin Elements(l)
  BY LooperPathIs
<1>3. PathFor(m) # Default
  BY <1>1, <1>2 DEF ConfigType
<1>4. PICK i \in DOMAIN config.paths : m \in config.paths[i].elements /\ PathFor(m) = config.paths[i].id
  BY <1>3, PathForIs
<1>5. i = LooperPath(l)
  BY <1>1, <1>2, <1>4 DEF ConfigType
<1> QED
  BY <1>2, <1>4, <1>5 DEF Elements

-----------------------------------------------------------------------------
(* The links of the Loopers                                                *)

\* Every step keeps LinkInv.
LEMMA LinkNext ==
    ASSUME PInv, LinkInv, [Next]_vars
    PROVE  LinkInv'
<1>0. Modules' = Modules /\ Loopers' = Loopers /\ \A l : Elements(l)' = Elements(l)
  BY SameConfig
<1>1. CASE AddEdges
  BY <1>0, <1>1 DEF AddEdges, LinkInv, Linked
<1>2. ASSUME NEW l \in Modules, LinkLooper(l) PROVE LinkInv'
  <2>1. /\ phase = "links" /\ phase' = phase /\ config' = config /\ vertices' = vertices
        /\ l \in unvisited /\ unvisited' = unvisited \ {l} /\ vertices = Modules
    BY <1>2 DEF LinkLooper, LinkInv
  <2>2. PICK new \in SUBSET vertices : edges' = WithPathLinks(l) \cup {<<s, l>> : s \in new}
    BY <1>2 DEF LinkLooper, Linkable, SourcesOf
  <2>3. edges' \subseteq vertices \X vertices /\ WithPathLinks(l) \subseteq edges' /\ edges \subseteq edges'
    BY <2>1, <2>2 DEF WithPathLinks, LinkInv
  <2>4. \A k \in Loopers \ unvisited' : Linked(k)'
    <3> SUFFICES ASSUME NEW k \in Loopers, k \notin unvisited', NEW m \in Elements(k) \cap vertices
                 PROVE  k \in vertices /\ <<k, m>> \in edges'
      BY <1>0, <2>1 DEF Linked
    <3>1. CASE k = l
      BY <1>0, <2>1, <2>3, <3>1 DEF WithPathLinks, Loopers
    <3>2. CASE k # l
      BY <2>1, <2>3, <3>2 DEF LinkInv, Linked
    <3> QED
      BY <3>1, <3>2
  <2> QED
    BY <1>0, <2>1, <2>3, <2>4 DEF LinkInv
<1>3. CASE LinksDone
  BY <1>0, <1>3 DEF LinksDone, graph, LinkInv, Linked
<1>4. ASSUME NEW v \in Modules, PruneVertex(v) PROVE LinkInv'
  <2>1. phase = "prune" /\ phase' = phase /\ config' = config
    BY <1>4 DEF PruneVertex
  <2>2. CASE ~Unused(v)
    BY <1>0, <1>4, <2>1, <2>2 DEF PruneVertex, graph, LinkInv, Linked
  <2>3. CASE Unused(v)
    <3>1. vertices' = vertices \ {v} /\ edges' = EdgesWithout(v)
      BY <1>4, <2>3 DEF PruneVertex
    <3>2. ASSUME NEW l \in Loopers, NEW m \in Elements(l) \cap vertices, m # v
          PROVE  l \in vertices \ {v} /\ <<l, m>> \in EdgesWithout(v)
      <4>1. l \in vertices /\ <<l, m>> \in edges
        BY <2>1 DEF LinkInv, Linked
      <4>2. l # v
        BY <2>3, <4>1 DEF Unused
      <4> QED
        BY <3>2, <4>1, <4>2 DEF EdgesWithout
    <3>3. ASSUME NEW l \in Loopers PROVE Linked(l)'
      <4> SUFFICES ASSUME NEW m \in Elements(l) \cap vertices, m # v
                   PROVE  l \in vertices' /\ <<l, m>> \in edges'
        BY <1>0, <3>1 DEF Linked
      <4> QED
        BY <3>1, <3>2
    <3>4. edges' \subseteq vertices' \X vertices'
      BY <3>1 DEF EdgesWithout, LinkInv
    <3>5. \A l \in Loopers' : Linked(l)'
      BY <1>0, <3>3
    <3> QED
      BY <2>1, <3>4, <3>5 DEF LinkInv
  <2> QED
    BY <2>2, <2>3
<1>5. CASE UNCHANGED vars
  BY <1>0, <1>5 DEF vars, LinkInv, Linked
<1>6. ASSUME UNCHANGED <<config, vertices, edges>>, phase # "edges", phase' \notin {"edges", "links"},
             phase' = "crashed" \/ phase \notin {"links", "crashed"}
      PROVE  LinkInv'
  BY <1>0, <1>6 DEF LinkInv, Linked
<1>7. CASE PruneDone \/ RejectCycle \/ SortDone \/ Validate \/ CountDimensions \/ ReindexTarget
           \/ ReindexDone \/ Declare \/ DeclareDone \/ Instantiate \/ InstantiateFails \/ InstantiateDone
           \/ \E x \in Modules : RecurseForEver(x) \/ SortVertex(x)
  BY <1>6, <1>7 DEF PruneDone, RejectCycle, SortDone, Validate, CountDimensions, ReindexTarget,
        ReindexDone, Declare, DeclareDone, Instantiate, InstantiateFails, InstantiateDone,
        RecurseForEver, SortVertex, graph
<1> QED
  BY <1>1, <1>2, <1>3, <1>4, <1>5, <1>7 DEF Next, Step

-----------------------------------------------------------------------------
(* The order of the sorted vertices                                        *)

\* Earlier is a total order of what is sorted, and follows the edges.
LEMMA EarlierIsAnOrder ==
    ASSUME SortInv
    PROVE  /\ \A x, y : Earlier(x, y) => x \in Range(sorted) /\ y \in Range(sorted) /\ ~Earlier(y, x) /\ x # y
           /\ \A x, y, z : Earlier(x, y) /\ Earlier(y, z) => Earlier(x, z)
           /\ \A x, y \in Range(sorted) : x # y => Earlier(x, y) \/ Earlier(y, x)
           /\ \A x, y \in Range(sorted) : <<x, y>> \in edges => Earlier(x, y)
           /\ Increasing(sorted) /\ sorted \in Seq(Range(sorted))
<1>1. sorted \in Seq(vertices) /\ \A i, j \in DOMAIN sorted : sorted[i] = sorted[j] => i = j
  BY DEF SortInv, InOrder
<1>2. DOMAIN sorted \subseteq Nat
  BY <1>1
<1>3. \A x, y : Earlier(x, y) => x \in Range(sorted) /\ y \in Range(sorted) /\ ~Earlier(y, x) /\ x # y
  BY <1>1, <1>2 DEF Earlier, Range
<1>4. \A x, y, z : Earlier(x, y) /\ Earlier(y, z) => Earlier(x, z)
  BY <1>1, <1>2 DEF Earlier
<1>5. \A x, y \in Range(sorted) : x # y => Earlier(x, y) \/ Earlier(y, x)
  BY <1>1, <1>2 DEF Earlier, Range
<1>6. \A x, y \in Range(sorted) : <<x, y>> \in edges => Earlier(x, y)
  BY DEF Earlier, Range, SortInv, InOrder
<1>7. Increasing(sorted)
  BY DEF Increasing, Earlier
<1>8. sorted \in Seq(Range(sorted))
  BY <1>1 DEF Range
<1> QED
  BY <1>3, <1>4, <1>5, <1>6, <1>7, <1>8

\* A sequence in the order of the sort stays so with a later module behind it.
LEMMA IncreasingAppend ==
    ASSUME NEW S, NEW s \in Seq(S), NEW x \in S, Increasing(s), \A i \in DOMAIN s : Earlier(s[i], x)
    PROVE  Increasing(Append(s, x))
<1> DEFINE t == Append(s, x)
<1>1. /\ DOMAIN s = 1..Len(s) /\ Len(s) \in Nat
      /\ DOMAIN t = 1..(Len(s) + 1) /\ t[Len(s) + 1] = x
      /\ \A i \in 1..Len(s) : t[i] = s[i]
  BY Appended
<1> SUFFICES ASSUME NEW i \in DOMAIN t, NEW j \in DOMAIN t, i < j
             PROVE  Earlier(t[i], t[j])
  BY DEF Increasing
<1> HIDE DEF t
<1>2. CASE j \in 1..Len(s)
  BY <1>1, <1>2 DEF Increasing
<1>3. CASE j = Len(s) + 1
  BY <1>1, <1>3
<1> QED
  BY <1>1, <1>2, <1>3

\* The rest of such a sequence is one, and its first module is before the others.
LEMMA IncreasingTail ==
    ASSUME NEW S, NEW s \in Seq(S), s # <<>>, Increasing(s)
    PROVE  /\ Increasing(Tail(s))
           /\ \A k \in DOMAIN Tail(s) : Earlier(Head(s), Tail(s)[k])
BY Tailed DEF Increasing

\* What f holds at p by now.
Held(f, p) == IF p \in DOMAIN f THEN f[p] ELSE <<>>

-----------------------------------------------------------------------------
(* Declaring                                                               *)

\* addDecl() keeps OrderInv.
LEMMA DeclareOrder ==
    ASSUME config \in Configs, SortInv, OrderInv, Declare, [Next]_vars
    PROVE  OrderInv'
<1> DEFINE m == Head(queue)
           p == PathFor(m)
           S == Range(sorted)
<1>1. /\ phase = "declare" /\ phase' = "declare" /\ queue # <<>> /\ queue' = Tail(queue)
      /\ sorted' = sorted /\ decls' = Pushed(decls, p, m)
      /\ order' = IF p \in DOMAIN decls THEN order ELSE Append(order, p)
  BY DEF Declare
<1>2. /\ queue \in Seq(S) /\ Increasing(queue)
      /\ \A q \in DOMAIN decls : \A i \in DOMAIN decls[q], k \in DOMAIN queue : Earlier(decls[q][i], queue[k])
      /\ order \in Seq(DOMAIN decls) /\ Range(order) = DOMAIN decls
  BY <1>1 DEF OrderInv
<1>3. m \in S /\ m = queue[1] /\ 1 \in DOMAIN queue
  BY <1>1, <1>2, Tailed
<1>4. /\ Tail(queue) \in Seq(S) /\ Increasing(Tail(queue))
      /\ \A k \in DOMAIN Tail(queue) : Earlier(m, Tail(queue)[k])
      /\ \A k \in DOMAIN Tail(queue) : k + 1 \in DOMAIN queue /\ Tail(queue)[k] = queue[k + 1]
  BY <1>1, <1>2, Tailed, IncreasingTail
<1> HIDE DEF m, p, S
<1>5. \A q \in DOMAIN decls :
         /\ decls[q] \in Seq(S) /\ decls[q] # <<>> /\ Increasing(decls[q])
         /\ \A i \in DOMAIN decls[q] : PathFor(decls[q][i]) = q /\ Earlier(decls[q][i], m)
  BY <1>2, <1>3 DEF OrderInv, S
<1> DEFINE at == Held(decls, p)
<1>6. /\ DOMAIN decls' = DOMAIN decls \cup {p}
      /\ \A q \in DOMAIN decls \ {p} : decls'[q] = decls[q]
      /\ decls'[p] = Append(at, m) /\ at \in Seq(S)
      /\ at = IF p \in DOMAIN decls THEN decls[p] ELSE <<>>
  <2>1. p \in DOMAIN decls => decls[p] \in Seq(S)
    BY <1>5
  <2>2. /\ DOMAIN Pushed(decls, p, m) = DOMAIN decls \cup {p}
        /\ \A q \in DOMAIN decls \ {p} : Pushed(decls, p, m)[q] = decls[q]
        /\ Pushed(decls, p, m)[p] = Append(at, m) /\ at \in Seq(S)
    BY <2>1 DEF Pushed, Held
  <2> QED
    BY <1>1, <2>2 DEF Held
<1> HIDE DEF at
<1>7. Increasing(at) /\ \A i \in DOMAIN at : PathFor(at[i]) = p /\ Earlier(at[i], m)
  <2>1. CASE p \in DOMAIN decls
    BY <1>5, <1>6, <2>1
  <2>2. CASE p \notin DOMAIN decls
    <3>1. at = <<>> /\ DOMAIN at = {}
      BY <1>6, <2>2
    <3> QED
      BY <3>1 DEF Increasing
  <2> QED
    BY <2>1, <2>2
<1>8. /\ Append(at, m) \in Seq(S) /\ Append(at, m) # <<>> /\ Increasing(Append(at, m))
      /\ DOMAIN at = 1..Len(at) /\ Len(at) \in Nat
      /\ DOMAIN Append(at, m) = 1..(Len(at) + 1)
      /\ \A i \in 1..Len(at) : Append(at, m)[i] = at[i]
      /\ Append(at, m)[Len(at) + 1] = m
  <2>1. at \in Seq(S)
    BY <1>6
  <2>2. Increasing(Append(at, m))
    BY <1>3, <1>7, <2>1, IncreasingAppend
  <2> QED
    BY <1>3, <2>1, <2>2
<1>9. \A i \in DOMAIN Append(at, m) : (i \in DOMAIN at /\ Append(at, m)[i] = at[i]) \/ Append(at, m)[i] = m
  BY <1>8
<1>10. ASSUME NEW q \in DOMAIN decls'
       PROVE  /\ decls'[q] \in Seq(S) /\ decls'[q] # <<>> /\ Increasing(decls'[q])
              /\ \A i \in DOMAIN decls'[q] : PathFor(decls'[q][i]) = q
              /\ \A i \in DOMAIN decls'[q], k \in DOMAIN Tail(queue) : Earlier(decls'[q][i], Tail(queue)[k])
              /\ q \in DOMAIN decls => decls'[q][1] = decls[q][1]
              /\ \A i \in DOMAIN decls'[q] :
                    decls'[q][i] = m \/ (q \in DOMAIN decls /\ i \in DOMAIN decls[q] /\ decls'[q][i] = decls[q][i])
  <2>1. CASE q # p
    BY <1>2, <1>4, <1>5, <1>6, <2>1
  <2>2. CASE q = p
    <3>1. decls'[q] \in Seq(S) /\ decls'[q] # <<>> /\ Increasing(decls'[q])
      BY <1>6, <1>8, <2>2
    <3>2. \A i \in DOMAIN decls'[q] : PathFor(decls'[q][i]) = q
      BY <1>6, <1>7, <1>9, <2>2 DEF p
    <3>3. q \in DOMAIN decls => at = decls[q] /\ 1 \in DOMAIN at
      BY <1>5, <1>6, <2>2
    <3>4. \A i \in DOMAIN decls'[q] :
             decls'[q][i] = m \/ (q \in DOMAIN decls /\ i \in DOMAIN decls[q] /\ decls'[q][i] = decls[q][i])
      <4>1. q \notin DOMAIN decls => DOMAIN at = {}
        BY <1>6, <2>2
      <4> QED
        BY <1>6, <1>9, <2>2, <3>3, <4>1
    <3>5. \A i \in DOMAIN decls'[q], k \in DOMAIN Tail(queue) : Earlier(decls'[q][i], Tail(queue)[k])
      BY <1>2, <1>4, <3>4
    <3>6. q \in DOMAIN decls => decls'[q][1] = decls[q][1]
      BY <1>6, <1>8, <2>2, <3>3
    <3> QED
      BY <3>1, <3>2, <3>4, <3>5, <3>6
  <2> QED
    BY <2>1, <2>2
<1>11. order' \in Seq(DOMAIN decls') /\ Range(order') = DOMAIN decls'
  <2>1. order \in Seq(DOMAIN decls')
    BY <1>2, <1>6
  <2>2. CASE p \in DOMAIN decls
    BY <1>1, <1>2, <1>6, <2>1, <2>2
  <2>3. CASE p \notin DOMAIN decls
    <3>1. order' = Append(order, p) /\ p \in DOMAIN decls'
      BY <1>1, <1>6, <2>3
    <3>2. /\ Append(order, p) \in Seq(DOMAIN decls') /\ DOMAIN order = 1..Len(order) /\ Len(order) \in Nat
          /\ DOMAIN Append(order, p) = 1..(Len(order) + 1)
          /\ \A i \in 1..Len(order) : Append(order, p)[i] = order[i]
          /\ Append(order, p)[Len(order) + 1] = p
      BY <2>1, <3>1, Appended
    <3>3. Range(Append(order, p)) = Range(order) \cup {p}
      BY <3>2 DEF Range
    <3> QED
      BY <1>2, <1>6, <3>1, <3>2, <3>3
  <2> QED
    BY <2>2, <2>3
<1>12. ASSUME NEW a \in DOMAIN order', NEW b \in DOMAIN order', a < b, NEW i \in DOMAIN decls'[order'[b]]
       PROVE  Earlier(decls'[order'[a]][1], decls'[order'[b]][i])
  <2>0. a \in Nat /\ b \in Nat /\ order'[a] \in DOMAIN decls' /\ order'[b] \in DOMAIN decls'
    BY <1>11
  <2>1. a \in DOMAIN order /\ order'[a] = order[a] /\ order[a] \in DOMAIN decls
        /\ (b \in DOMAIN order => order'[b] = order[b] /\ order[b] \in DOMAIN decls)
        /\ (b \notin DOMAIN order => p \notin DOMAIN decls /\ order'[b] = p)
    <3>1. CASE p \in DOMAIN decls
      BY <1>1, <1>2, <1>12, <3>1
    <3>2. CASE p \notin DOMAIN decls
      <4>1. order' = Append(order, p)
        BY <1>1, <3>2
      <4>2. /\ DOMAIN order = 1..Len(order) /\ Len(order) \in Nat
            /\ DOMAIN order' = 1..(Len(order) + 1)
            /\ \A j \in 1..Len(order) : order'[j] = order[j] /\ order[j] \in DOMAIN decls
            /\ order'[Len(order) + 1] = p
        BY <1>2, <4>1
      <4>3. a \in 1..Len(order)
        BY <1>12, <2>0, <4>2
      <4> QED
        BY <3>2, <4>2, <4>3
    <3> QED
      BY <3>1, <3>2
  <2>2. decls'[order[a]][1] = decls[order[a]][1] /\ 1 \in DOMAIN decls[order[a]]
    BY <1>5, <1>6, <1>10, <2>1
  <2>3. Earlier(decls[order[a]][1], m)
    BY <1>5, <2>1, <2>2
  <2>4. CASE decls'[order'[b]][i] = m
    BY <2>1, <2>2, <2>3, <2>4
  <2>5. CASE order'[b] \in DOMAIN decls /\ i \in DOMAIN decls[order'[b]] /\ decls'[order'[b]][i] = decls[order'[b]][i]
    <3>1. b \in DOMAIN order /\ order'[b] = order[b]
      BY <2>1, <2>5
    <3>2. Earlier(decls[order[a]][1], decls[order[b]][i])
      BY <1>12, <2>1, <2>5, <3>1 DEF OrderInv
    <3> QED
      BY <2>1, <2>2, <2>5, <3>1, <3>2
  <2> QED
    BY <1>10, <2>0, <2>4, <2>5
<1>13. \A q : PathFor(q)' = PathFor(q)
  BY SameConfig
<1>14. \A x, y : Earlier(x, y)' <=> Earlier(x, y)
  BY <1>1 DEF Earlier
<1>15. S = Range(sorted')
  BY <1>1 DEF S
<1>16. \A q \in DOMAIN decls' : Increasing(decls[q])' /\ \A i \in DOMAIN decls'[q] : (PathFor(decls[q][i]) = q)'
  <2>1. \A q \in DOMAIN decls' : Increasing(decls[q])'
    BY <1>10, <1>1 DEF Increasing, Earlier
  <2>2. \A q \in DOMAIN decls' : \A i \in DOMAIN decls'[q] : (PathFor(decls[q][i]) = q)'
    BY <1>10, <1>13
  <2> QED
    BY <2>1, <2>2
<1>17. queue' \in Seq(S) /\ Increasing(queue)'
       /\ \A q \in DOMAIN decls' : \A i \in DOMAIN decls'[q], k \in DOMAIN queue' : Earlier(decls[q][i], queue[k])'
  <2>1. queue' \in Seq(S) /\ Increasing(queue)'
    BY <1>1, <1>4 DEF Increasing, Earlier
  <2>2. \A q \in DOMAIN decls' : \A i \in DOMAIN decls'[q], k \in DOMAIN queue' : Earlier(decls[q][i], queue[k])'
    BY <1>1, <1>10 DEF Earlier
  <2> QED
    BY <2>1, <2>2
<1>18. \A a, b \in DOMAIN order' : a < b =>
          \A i \in DOMAIN decls'[order'[b]] : Earlier(decls[order[a]][1], decls[order[b]][i])'
  BY <1>12, <1>14
<1> QED
  BY <1>1, <1>10, <1>11, <1>15, <1>16, <1>17, <1>18 DEF OrderInv, Declaring

\* A step that declares nothing.
LEMMA SameOrder ==
    ASSUME OrderInv, [Next]_vars, UNCHANGED <<sorted, decls, order>>, phase \in Declaring, phase' \in Declaring,
           phase' = "declare" => phase = "declare" /\ queue' = queue
    PROVE  OrderInv'
<1>1. \A m : PathFor(m)' = PathFor(m)
  BY SameConfig
<1>2. \A x, y : Earlier(x, y)' <=> Earlier(x, y)
  BY DEF Earlier
<1>3. \A p \in DOMAIN decls : Increasing(decls[p])' /\ \A i \in DOMAIN decls[p] : (PathFor(decls[p][i]) = p)'
  <2>1. \A p \in DOMAIN decls : Increasing(decls[p])'
    BY DEF OrderInv, Increasing, Earlier
  <2>2. \A p \in DOMAIN decls : \A i \in DOMAIN decls[p] : PathFor(decls[p][i]) = p
    BY DEF OrderInv
  <2> QED
    BY <1>1, <2>1, <2>2
<1>4. \A a, b \in DOMAIN order : a < b =>
         \A i \in DOMAIN decls[order[b]] : Earlier(decls[order[a]][1], decls[order[b]][i])'
  BY <1>2 DEF OrderInv
<1>5. phase' = "declare" => Increasing(queue)'
  BY DEF OrderInv, Increasing, Earlier
<1>6. phase' = "declare" => \A p \in DOMAIN decls : \A i \in DOMAIN decls[p], k \in DOMAIN queue :
                               Earlier(decls[p][i], queue[k])'
  BY <1>2 DEF OrderInv
<1> QED
  BY <1>3, <1>4, <1>5, <1>6 DEF OrderInv

\* The first declaration is that of the first of the sorted vertices.
LEMMA FirstOrder ==
    ASSUME SortInv, OrderInv, phase \notin Declaring, phase' = "declare", queue' = sorted,
           UNCHANGED <<sorted, decls, order>>
    PROVE  OrderInv'
<1>1. decls' = Empty /\ DOMAIN Empty = {} /\ order' = <<>> /\ DOMAIN <<>> = {}
  BY DEF OrderInv, Empty
<1>2. queue' \in Seq(Range(sorted)) /\ Increasing(queue)'
  <2>1. Increasing(sorted) /\ sorted \in Seq(Range(sorted))
    BY EarlierIsAnOrder
  <2> QED
    BY <2>1 DEF Increasing, Earlier
<1>3. order' \in Seq(DOMAIN decls') /\ Range(order') = DOMAIN decls'
  BY <1>1 DEF Range
<1> QED
  BY <1>1, <1>2, <1>3 DEF OrderInv, Declaring

\* Every step keeps OrderInv.
LEMMA OrderNext ==
    ASSUME config \in Configs, SortInv, OrderInv, [Next]_vars
    PROVE  OrderInv'
<1>1. ASSUME phase \notin Declaring, phase' \notin Declaring, decls' = decls, order' = order
      PROVE  OrderInv'
  <2>1. decls' = Empty /\ DOMAIN Empty = {} /\ order' = <<>> /\ DOMAIN <<>> = {}
    BY <1>1 DEF OrderInv, Empty
  <2>2. order' \in Seq(DOMAIN decls') /\ Range(order') = DOMAIN decls'
    BY <2>1 DEF Range
  <2> QED
    BY <1>1, <2>1, <2>2 DEF OrderInv, Declaring
<1>2. CASE AddEdges \/ LinksDone \/ PruneDone \/ RejectCycle \/ SortDone \/ Validate \/ ReindexTarget
           \/ \E x \in Modules : LinkLooper(x) \/ RecurseForEver(x) \/ PruneVertex(x) \/ SortVertex(x)
  BY <1>1, <1>2 DEF AddEdges, LinksDone, PruneDone, RejectCycle, SortDone, Validate, LinkLooper,
        RecurseForEver, PruneVertex, SortVertex, ReindexTarget, Declaring, built
<1>3. CASE CountDimensions \/ ReindexDone
  <2>1. phase \notin Declaring /\ UNCHANGED <<sorted, decls, order>>
        /\ (phase' = "reindex" \/ (phase' = "declare" /\ queue' = sorted))
    BY <1>3 DEF CountDimensions, ReindexDone, Declaring, built
  <2>2. CASE phase' = "reindex"
    BY <1>1, <2>1, <2>2 DEF Declaring
  <2>3. CASE phase' = "declare" /\ queue' = sorted
    BY <2>1, <2>3, FirstOrder
  <2> QED
    BY <2>1, <2>2, <2>3
<1>4. CASE Declare
  BY <1>4, DeclareOrder
<1>5. CASE DeclareDone \/ Instantiate \/ InstantiateFails \/ InstantiateDone
  BY <1>5, SameOrder DEF DeclareDone, Instantiate, InstantiateFails, InstantiateDone, Declaring, built
<1>6. CASE UNCHANGED vars
  <2>1. CASE phase \in Declaring
    BY <1>6, <2>1, SameOrder DEF vars
  <2>2. CASE phase \notin Declaring
    BY <1>1, <1>6, <2>2 DEF vars
  <2> QED
    BY <2>1, <2>2
<1> QED
  BY <1>2, <1>3, <1>4, <1>5, <1>6 DEF Next, Step

\* No path is twice in sorted_execution_paths.
LEMMA OrderIsInjective ==
    ASSUME SortInv, OrderInv
    PROVE  \A a, b \in DOMAIN order : order[a] = order[b] => a = b
<1>1. DOMAIN order \subseteq Nat /\ \A a \in DOMAIN order : order[a] \in DOMAIN decls
  BY DEF OrderInv
<1>2. \A p \in DOMAIN decls : 1 \in DOMAIN decls[p]
  BY DEF OrderInv
<1>3. ASSUME NEW a \in DOMAIN order, NEW b \in DOMAIN order, order[a] = order[b], a < b PROVE FALSE
  <2>1. Earlier(decls[order[a]][1], decls[order[b]][1])
    BY <1>1, <1>2, <1>3 DEF OrderInv
  <2> QED
    BY <1>3, <2>1, EarlierIsAnOrder
<1> QED
  BY <1>1, <1>3

-----------------------------------------------------------------------------
(* The order of the instances                                              *)

\* The last path first, and each path in its order.
LEMMA StartInstantiating ==
    ASSUME config \in Configs, SortInv, DeclInv, OrderInv, InstancesInv, DeclareDone, [Next]_vars
    PROVE  QueueInv' /\ InstancesInv'
<1> DEFINE S  == Range(sorted)
           n  == Len(order)
           ss == [i \in DOMAIN order |-> decls[Reverse(order)[i]]]
           q  == FlattenSeq(ss)
<1>1. /\ phase = "declare" /\ phase' = "instantiate" /\ queue = <<>> /\ queue' = q
      /\ sorted' = sorted /\ decls' = decls /\ order' = order /\ instances' = instances /\ given' = given
  BY DEF DeclareDone, built
<1>2. /\ order \in Seq(DOMAIN decls) /\ Range(order) = DOMAIN decls
      /\ n \in Nat /\ DOMAIN order = 1..n
      /\ \A p \in DOMAIN decls : /\ decls[p] \in Seq(S) /\ Increasing(decls[p])
                                 /\ \A i \in DOMAIN decls[p] : PathFor(decls[p][i]) = p
  BY DEF OrderInv
<1> DEFINE back(i) == n - i + 1
<1>3. \A i \in 1..n : back(i) \in 1..n /\ back(back(i)) = i
  BY <1>2
<1>4. \A i \in 1..n : ss[i] = decls[order[back(i)]] /\ order[back(i)] \in DOMAIN decls
  BY <1>2, <1>3 DEF Reverse
<1>5. ss \in Seq(Seq(S)) /\ Len(ss) = n
  <2>1. ss \in [1..n -> Seq(S)]
    BY <1>2, <1>4
  <2>2. n \in Nat
    BY <1>2
  <2> HIDE DEF ss, S, n, q
  <2> QED
    BY <2>1, <2>2, FunctionIsSequence
<1> HIDE DEF ss
<1>6. q \in Seq(S) /\ IsFlat(q, ss, n)
  BY <1>5, Flattened
<1> HIDE DEF q, S, n
<1>7. ASSUME NEW i \in DOMAIN q, NEW j \in DOMAIN q, i < j
      PROVE  IF PathFor(q[i]) = PathFor(q[j]) THEN Earlier(q[i], q[j])
             ELSE FirstDeclared(PathFor(q[j]), PathFor(q[i]))
  <2>1. PICK a, b, u, w : /\ InPlace(q[i], ss, n, a, u) /\ InPlace(q[j], ss, n, b, w)
                          /\ a < b \/ (a = b /\ u < w)
    BY <1>6, <1>7 DEF IsFlat
  <2>2. /\ a \in 1..n /\ u \in DOMAIN ss[a] /\ q[i] = ss[a][u]
        /\ b \in 1..n /\ w \in DOMAIN ss[b] /\ q[j] = ss[b][w]
        /\ a < b \/ (a = b /\ u < w)
    BY <2>1 DEF InPlace
  <2>3. PathFor(q[i]) = order[back(a)] /\ PathFor(q[j]) = order[back(b)]
    BY <1>2, <1>4, <2>2
  <2>4. CASE a = b
    <3>1. /\ a \in 1..n /\ u \in DOMAIN ss[a] /\ w \in DOMAIN ss[a] /\ u < w
          /\ q[i] = ss[a][u] /\ q[j] = ss[a][w]
      BY <1>2, <2>2, <2>4
    <3>2. Increasing(ss[a])
      BY <1>2, <1>4, <3>1
    <3>3. Earlier(q[i], q[j])
      BY <3>1, <3>2 DEF Increasing
    <3> QED
      BY <2>3, <2>4, <3>3
  <2>5. CASE a < b
    <3>1. back(b) < back(a) /\ back(a) \in DOMAIN order /\ back(b) \in DOMAIN order
      BY <1>2, <1>3, <2>2, <2>5
    <3>2. order[back(a)] # order[back(b)]
      <4>1. back(a) # back(b)
        BY <1>2, <3>1
      <4> HIDE DEF back
      <4> QED
        BY <3>1, <4>1, OrderIsInjective
    <3>3. FirstDeclared(order[back(b)], order[back(a)])
      BY <3>1 DEF FirstDeclared
    <3> QED
      BY <2>3, <3>2, <3>3
  <2> QED
    BY <2>2, <2>4, <2>5
<1>8. QueueInv'
  <2>1. q \in Seq(Range(sorted'))
    BY <1>1, <1>6 DEF S
  <2>2. \A p, r : FirstDeclared(p, r)' <=> FirstDeclared(p, r)
    BY <1>1 DEF FirstDeclared
  <2>3. \A x, y : Earlier(x, y)' <=> Earlier(x, y)
    BY <1>1 DEF Earlier
  <2>4. \A m : PathFor(m)' = PathFor(m)
    BY SameConfig
  <2> QED
    BY <1>1, <1>7, <2>1, <2>2, <2>3, <2>4 DEF QueueInv
<1>9. ASSUME NEW m \in S PROVE \E k \in DOMAIN q : q[k] = m
  <2>1. PICK k \in DOMAIN sorted : sorted[k] = m
    BY DEF S, Range
  <2>2. Declared(m)
    BY <1>1, <2>1 DEF DeclInv
  <2>3. PICK c \in DOMAIN order : order[c] = PathFor(m)
    BY <1>2, <2>2 DEF Declared, Range
  <2>4. PICK u \in DOMAIN decls[PathFor(m)] : decls[PathFor(m)][u] = m
    BY <2>2 DEF Declared
  <2>5. back(c) \in 1..n /\ ss[back(c)] = decls[PathFor(m)]
    BY <1>2, <1>3, <1>4, <2>3
  <2> QED
    BY <1>6, <2>4, <2>5 DEF IsFlat
<1>10. InstancesInv'
  <2>1. instances' = Empty /\ given' = Empty /\ DOMAIN Empty = {}
    BY <1>1 DEF InstancesInv, Instantiating, Empty
  <2>2. \A m \in Range(sorted') : \E k \in DOMAIN queue' : queue'[k] = m
    BY <1>1, <1>9 DEF S
  <2> QED
    BY <1>1, <2>1, <2>2 DEF InstancesInv, Instantiating
<1> QED
  BY <1>8, <1>10

\* Constructing the first module of the queue.  A Looper finds all of its path:
\* what is left of it in the queue would be of a path declared earlier, and
\* so begin before the Looper that points to it.
LEMMA LooperFindsItsPath ==
    ASSUME config \in Configs, SortInv, DeclInv, LinkInv, OrderInv, QueueInv, InstancesInv,
           phase = "instantiate", queue # <<>>, Head(queue) \in Loopers,
           NEW m \in Range(sorted), PathFor(m) = config.pathOf[Head(queue)]
    PROVE  Instantiated(m)
<1> DEFINE l == Head(queue)
           p == config.pathOf[l]
<1>1. queue \in Seq(Range(sorted)) /\ l = queue[1] /\ 1 \in DOMAIN queue /\ l \in Range(sorted)
  <2>1. queue \in Seq(Range(sorted))
    BY DEF QueueInv
  <2> QED
    BY <2>1, Tailed
<1>2. m # l /\ PathFor(l) # p
  BY PathOfLooper
<1>3. Declared(l) /\ Declared(m)
  BY <1>1 DEF DeclInv, Range
<1> SUFFICES ASSUME ~Instantiated(m) PROVE FALSE
  OBVIOUS
<1>4. PICK k \in DOMAIN queue : queue[k] = m
  BY DEF InstancesInv
<1> HIDE DEF l
<1>5. FirstDeclared(p, PathFor(l))
  <2>1. k # 1 /\ k \in Nat
    BY <1>1, <1>2, <1>4
  <2>2. 1 < k
    BY <1>1, <2>1
  <2> QED
    BY <1>1, <1>2, <1>4, <2>2 DEF QueueInv, l
<1> HIDE DEF p
<1>6. PICK a, b \in DOMAIN order : a < b /\ order[a] = p /\ order[b] = PathFor(l)
  BY <1>5 DEF FirstDeclared
<1>7. PICK i \in DOMAIN decls[PathFor(l)] : decls[PathFor(l)][i] = l
  BY <1>3 DEF Declared
<1> DEFINE z == decls[p][1]
<1>8. p \in DOMAIN decls /\ Earlier(z, l)
  BY <1>6, <1>7 DEF OrderInv
<1>9. z \in Range(sorted) /\ PathFor(z) = p
  <2>1. decls[p] \in Seq(Range(sorted)) /\ decls[p] # <<>> /\ \A j \in DOMAIN decls[p] : PathFor(decls[p][j]) = p
    BY <1>8 DEF OrderInv
  <2> QED
    BY <2>1
<1>10. z \in Elements(l)
  BY <1>9, PathOfLooper DEF l, p
<1>11. <<l, z>> \in edges
  <2>1. z \in vertices
    BY <1>9 DEF SortInv, Range
  <2> QED
    BY <1>10, <2>1 DEF LinkInv, Linked, l
<1> QED
  BY <1>1, <1>8, <1>9, <1>11, EarlierIsAnOrder

\* A module that initialize() constructs keeps what holds of the queue and the instances.
LEMMA InstantiateKeeps ==
    ASSUME config \in Configs, SortInv, DeclInv, LinkInv, OrderInv, QueueInv, InstancesInv, Instantiate, [Next]_vars
    PROVE  QueueInv' /\ InstancesInv'
<1> DEFINE m == Head(queue)
           p == PathFor(m)
           S == Range(sorted)
           r == config.pathOf[m]
<1>1. /\ phase = "instantiate" /\ phase' = "instantiate" /\ queue # <<>> /\ queue' = Tail(queue)
      /\ sorted' = sorted /\ decls' = decls /\ order' = order
      /\ m \in Loopers => r \in DOMAIN instances
      /\ given' = IF m \in Loopers THEN Emplaced(given, m, instances[r]) ELSE given
      /\ instances' = Pushed(instances, p, m)
  BY DEF Instantiate
<1>2. queue \in Seq(S) /\ \A i, j \in DOMAIN queue : i < j =>
         IF PathFor(queue[i]) = PathFor(queue[j]) THEN Earlier(queue[i], queue[j])
         ELSE FirstDeclared(PathFor(queue[j]), PathFor(queue[i]))
  BY <1>1 DEF QueueInv
<1>3. m \in S /\ m = queue[1] /\ 1 \in DOMAIN queue
  BY <1>1, <1>2, Tailed
<1>4. /\ Tail(queue) \in Seq(S)
      /\ \A i \in DOMAIN Tail(queue) : i + 1 \in DOMAIN queue /\ Tail(queue)[i] = queue[i + 1] /\ i \in Nat /\ i # 0
      /\ \A i \in DOMAIN queue : i # 1 => i - 1 \in DOMAIN Tail(queue) /\ Tail(queue)[i - 1] = queue[i]
  BY <1>1, <1>2, Tailed
<1>a. m \in Loopers => \A y \in S : PathFor(y) = r => Instantiated(y)
  BY <1>1, LooperFindsItsPath
<1>b. p \in DOMAIN decls
  BY <1>1, <1>3 DEF DeclInv, Declared, Range
<1> HIDE DEF m, p, S, r
<1>5. \A q \in DOMAIN instances :
         /\ instances[q] \in Seq(S) /\ Increasing(instances[q])
         /\ \A i \in DOMAIN instances[q] :
               /\ PathFor(instances[q][i]) = q
               /\ \A k \in DOMAIN queue : PathFor(queue[k]) = q => Earlier(instances[q][i], queue[k])
               /\ instances[q][i] \in Loopers => instances[q][i] \in DOMAIN given
  BY <1>1 DEF InstancesInv, S
<1> DEFINE at == Held(instances, p)
<1>6. /\ DOMAIN instances' = DOMAIN instances \cup {p}
      /\ \A q \in DOMAIN instances \ {p} : instances'[q] = instances[q]
      /\ instances'[p] = Append(at, m) /\ at \in Seq(S)
      /\ p \in DOMAIN instances => at = instances[p]
      /\ p \notin DOMAIN instances => at = <<>>
  <2>1. p \in DOMAIN instances => instances[p] \in Seq(S)
    BY <1>5
  <2>2. /\ DOMAIN Pushed(instances, p, m) = DOMAIN instances \cup {p}
        /\ \A q \in DOMAIN instances \ {p} : Pushed(instances, p, m)[q] = instances[q]
        /\ Pushed(instances, p, m)[p] = Append(at, m) /\ at \in Seq(S)
    BY <2>1 DEF Pushed, Held
  <2> QED
    BY <1>1, <2>2 DEF Held
<1> HIDE DEF at
<1>7. /\ Increasing(at)
      /\ \A i \in DOMAIN at :
            /\ PathFor(at[i]) = p /\ Earlier(at[i], m)
            /\ \A k \in DOMAIN queue : PathFor(queue[k]) = p => Earlier(at[i], queue[k])
            /\ at[i] \in Loopers => at[i] \in DOMAIN given
  <2>1. CASE p \in DOMAIN instances
    BY <1>3, <1>5, <1>6, <2>1 DEF p
  <2>2. CASE p \notin DOMAIN instances
    <3>1. at = <<>> /\ DOMAIN at = {}
      BY <1>6, <2>2
    <3> QED
      BY <3>1 DEF Increasing
  <2> QED
    BY <2>1, <2>2
<1>8. /\ Append(at, m) \in Seq(S) /\ Increasing(Append(at, m))
      /\ DOMAIN at = 1..Len(at) /\ Len(at) \in Nat
      /\ DOMAIN Append(at, m) = 1..(Len(at) + 1)
      /\ \A i \in 1..Len(at) : Append(at, m)[i] = at[i]
      /\ Append(at, m)[Len(at) + 1] = m
  <2>1. at \in Seq(S)
    BY <1>6
  <2>2. Increasing(Append(at, m))
    BY <1>3, <1>7, <2>1, IncreasingAppend
  <2> QED
    BY <1>3, <2>1, <2>2
<1>9. \A i \in DOMAIN Append(at, m) : (i \in DOMAIN at /\ Append(at, m)[i] = at[i]) \/ Append(at, m)[i] = m
  BY <1>8
<1>10. m \in Loopers => m \in DOMAIN given'
  BY <1>1 DEF Emplaced
<1>11. DOMAIN given \subseteq DOMAIN given' /\ \A l \in DOMAIN given : given'[l] = given[l]
  BY <1>1 DEF Emplaced
<1>12. DOMAIN given' \subseteq DOMAIN given \cup {m} /\ (m \notin DOMAIN given /\ m \in DOMAIN given' =>
          m \in Loopers /\ given'[m] = instances[r])
  BY <1>1 DEF Emplaced
<1>13. \A k \in DOMAIN Tail(queue) : PathFor(Tail(queue)[k]) = p => Earlier(m, Tail(queue)[k])
  <2> SUFFICES ASSUME NEW k \in DOMAIN Tail(queue), PathFor(Tail(queue)[k]) = p
               PROVE  Earlier(m, Tail(queue)[k])
    OBVIOUS
  <2>1. k + 1 \in DOMAIN queue /\ Tail(queue)[k] = queue[k + 1] /\ 1 < k + 1
    BY <1>4
  <2> QED
    BY <1>2, <1>3, <2>1 DEF p
<1>14. ASSUME NEW q \in DOMAIN instances'
       PROVE  /\ instances'[q] \in Seq(S) /\ Increasing(instances'[q])
              /\ \A i \in DOMAIN instances'[q] :
                    /\ PathFor(instances'[q][i]) = q
                    /\ \A k \in DOMAIN Tail(queue) :
                          PathFor(Tail(queue)[k]) = q => Earlier(instances'[q][i], Tail(queue)[k])
                    /\ instances'[q][i] \in Loopers => instances'[q][i] \in DOMAIN given'
  <2>1. CASE q # p
    <3>1. q \in DOMAIN instances /\ instances'[q] = instances[q]
      BY <1>6, <2>1
    <3> QED
      BY <1>4, <1>5, <1>11, <3>1
  <2>2. CASE q = p
    <3>1. instances'[q] = Append(at, m)
      BY <1>6, <2>2
    <3>2. ASSUME NEW i \in DOMAIN Append(at, m)
          PROVE  /\ PathFor(Append(at, m)[i]) = q
                 /\ \A k \in DOMAIN Tail(queue) :
                          PathFor(Tail(queue)[k]) = q => Earlier(Append(at, m)[i], Tail(queue)[k])
                 /\ Append(at, m)[i] \in Loopers => Append(at, m)[i] \in DOMAIN given'
      <4>1. CASE i \in DOMAIN at /\ Append(at, m)[i] = at[i]
        BY <1>4, <1>7, <1>11, <2>2, <4>1
      <4>2. CASE Append(at, m)[i] = m
        BY <1>10, <1>13, <2>2, <4>2 DEF p
      <4> QED
        BY <1>9, <4>1, <4>2
    <3> QED
      BY <1>8, <3>1, <3>2
  <2> QED
    BY <2>1, <2>2
<1>15. ASSUME NEW q \in DOMAIN instances
       PROVE  q \in DOMAIN instances' /\ \A i \in DOMAIN instances[q] : i \in DOMAIN instances'[q] /\ instances'[q][i] = instances[q][i]
  <2>1. CASE q # p
    BY <1>6, <2>1
  <2>2. CASE q = p
    BY <1>6, <1>8, <2>2
  <2> QED
    BY <2>1, <2>2
\* What was instantiated, or is the module in hand, is instantiated.
<1>16. ASSUME NEW y, Instantiated(y) \/ y = m
       PROVE  PathFor(y) \in DOMAIN instances' /\ \E i \in DOMAIN instances'[PathFor(y)] : instances'[PathFor(y)][i] = y
  <2>1. CASE y = m
    <3>1. PathFor(y) = p
      BY <2>1 DEF p
    <3> QED
      BY <1>6, <1>8, <2>1, <3>1
  <2>2. CASE Instantiated(y)
    BY <1>15, <2>2 DEF Instantiated
  <2> QED
    BY <1>16, <2>1, <2>2
<1>17. ASSUME NEW y \in S
       PROVE  \/ PathFor(y) \in DOMAIN instances' /\ \E i \in DOMAIN instances'[PathFor(y)] : instances'[PathFor(y)][i] = y
              \/ \E k \in DOMAIN Tail(queue) : Tail(queue)[k] = y
  <2>1. CASE Instantiated(y)
    BY <1>16, <2>1
  <2>2. ASSUME NEW k \in DOMAIN queue, queue[k] = y
        PROVE  y = m \/ \E j \in DOMAIN Tail(queue) : Tail(queue)[j] = y
    BY <1>3, <1>4, <2>2
  <2> QED
    BY <1>1, <1>16, <2>1, <2>2 DEF InstancesInv, S
<1>18. ASSUME NEW l \in DOMAIN given', NEW y \in S, PathFor(y) = config.pathOf[l]
       PROVE  l \in Loopers /\ \E i \in DOMAIN given'[l] : given'[l][i] = y
  <2>1. CASE l \in DOMAIN given
    BY <1>11, <1>18, <2>1 DEF InstancesInv, HasItsPath, S
  <2>2. CASE l \notin DOMAIN given
    <3>1. l = m /\ m \in Loopers /\ given'[l] = instances[r]
      BY <1>12, <2>2
    <3>2. PathFor(y) = r
      BY <1>18, <3>1 DEF r
    <3>3. Instantiated(y)
      BY <1>a, <3>1, <3>2
    <3> QED
      BY <3>1, <3>2, <3>3 DEF Instantiated
  <2> QED
    BY <2>1, <2>2
<1>19. DOMAIN given' \subseteq Loopers /\ DOMAIN instances' \subseteq DOMAIN decls
  BY <1>6, <1>12, <1>b DEF InstancesInv
<1>20. /\ config' = config /\ Loopers' = Loopers
       /\ \A y : PathFor(y)' = PathFor(y)
       /\ \A x, y : Earlier(x, y)' <=> Earlier(x, y)
       /\ \A x, y : FirstDeclared(x, y)' <=> FirstDeclared(x, y)
       /\ S = Range(sorted')
  <2>1. \A x, y : Earlier(x, y)' <=> Earlier(x, y)
    BY <1>1 DEF Earlier
  <2>2. \A x, y : FirstDeclared(x, y)' <=> FirstDeclared(x, y)
    BY <1>1 DEF FirstDeclared
  <2> QED
    BY <1>1, <2>1, <2>2, SameConfig DEF S
<1>21. QueueInv'
  <2>1. \A i, j \in DOMAIN Tail(queue) : i < j =>
           IF PathFor(Tail(queue)[i]) = PathFor(Tail(queue)[j]) THEN Earlier(Tail(queue)[i], Tail(queue)[j])
           ELSE FirstDeclared(PathFor(Tail(queue)[j]), PathFor(Tail(queue)[i]))
    <3> SUFFICES ASSUME NEW i \in DOMAIN Tail(queue), NEW j \in DOMAIN Tail(queue), i < j
                 PROVE  IF PathFor(Tail(queue)[i]) = PathFor(Tail(queue)[j]) THEN Earlier(Tail(queue)[i], Tail(queue)[j])
                        ELSE FirstDeclared(PathFor(Tail(queue)[j]), PathFor(Tail(queue)[i]))
      OBVIOUS
    <3>1. /\ i + 1 \in DOMAIN queue /\ j + 1 \in DOMAIN queue /\ i + 1 < j + 1
          /\ Tail(queue)[i] = queue[i + 1] /\ Tail(queue)[j] = queue[j + 1]
      BY <1>4
    <3> QED
      BY <1>2, <3>1
  <2> QED
    BY <1>1, <1>4, <1>20, <2>1 DEF QueueInv
<1>22. \A q \in DOMAIN instances' : Increasing(instances[q])'
  BY <1>14, <1>1 DEF Increasing, Earlier
<1>23. \A l \in DOMAIN given' : HasItsPath(l)'
  BY <1>18, <1>20 DEF HasItsPath
<1>24. \A y \in S : Instantiated(y)' \/ \E k \in DOMAIN queue' : queue'[k] = y
  BY <1>1, <1>17, <1>20 DEF Instantiated
<1>25. InstancesInv'
  BY <1>1, <1>14, <1>19, <1>20, <1>22, <1>23, <1>24, SMTT(30) DEF InstancesInv, Instantiating
<1> QED
  BY <1>21, <1>25

\* A step that constructs nothing.
LEMMA SameInstances ==
    ASSUME QueueInv, InstancesInv, [Next]_vars, phase \in Instantiating, phase' \in Instantiating,
           UNCHANGED <<sorted, queue, decls, order, instances, given>>,
           phase' = "built" => phase = "built" \/ queue = <<>>,
           phase' # "built" => phase # "built"
    PROVE  QueueInv' /\ InstancesInv'
<1>1. /\ \A m : PathFor(m)' = PathFor(m)
      /\ config' = config /\ Loopers' = Loopers
  BY SameConfig
<1>2. /\ \A x, y : Earlier(x, y)' <=> Earlier(x, y)
      /\ \A p, q : FirstDeclared(p, q)' <=> FirstDeclared(p, q)
  BY DEF Earlier, FirstDeclared
<1>3. QueueInv'
  BY <1>1, <1>2 DEF QueueInv, Instantiating
<1>4. /\ \A m : Instantiated(m)' <=> Instantiated(m)
      /\ \A l : HasItsPath(l)' <=> HasItsPath(l)
  BY <1>1 DEF Instantiated, HasItsPath
<1>5. \A p \in DOMAIN instances : Increasing(instances[p])'
  BY DEF InstancesInv, Increasing, Earlier
<1>6. \A p \in DOMAIN instances :
         /\ instances[p] \in Seq(Range(sorted))
         /\ \A i \in DOMAIN instances[p] : PathFor(instances[p][i]) = p
         /\ phase' # "built" =>
               \A i \in DOMAIN instances[p], k \in DOMAIN queue :
                    PathFor(queue[k]) = p => Earlier(instances[p][i], queue[k])
  BY DEF InstancesInv, Instantiating
<1>7. phase' # "built" => \A m \in Range(sorted) : Instantiated(m) \/ \E k \in DOMAIN queue : queue[k] = m
  BY DEF InstancesInv, Instantiating
<1>8. phase' = "built" => \A m \in Range(sorted) : Instantiated(m)
  <2>1. CASE phase = "built"
    BY <2>1 DEF InstancesInv
  <2>2. CASE queue = <<>> /\ phase # "built"
    BY <2>2 DEF InstancesInv, Instantiating
  <2> QED
    BY <2>1, <2>2
<1>9. \A p \in DOMAIN instances :
         /\ (instances[p] \in Seq(Range(sorted)))' /\ Increasing(instances[p])'
         /\ (\A i \in DOMAIN instances[p] : PathFor(instances[p][i]) = p)'
         /\ phase' \in {"instantiate", "failed"} =>
               (\A i \in DOMAIN instances[p], k \in DOMAIN queue :
                    PathFor(queue[k]) = p => Earlier(instances[p][i], queue[k]))'
  BY <1>1, <1>2, <1>5, <1>6
<1>10. InstancesInv'
  <2>1. /\ DOMAIN instances \subseteq DOMAIN decls /\ DOMAIN given \subseteq Loopers
        /\ \A p \in DOMAIN instances : \A i \in DOMAIN instances[p] :
              instances[p][i] \in Loopers => instances[p][i] \in DOMAIN given
        /\ \A l \in DOMAIN given : HasItsPath(l)
    BY DEF InstancesInv
  <2> QED
    BY <1>1, <1>4, <1>7, <1>8, <1>9, <2>1 DEF InstancesInv, Instantiating
<1> QED
  BY <1>3, <1>10

\* Every step keeps it.
LEMMA InstancesNext ==
    ASSUME config \in Configs, SortInv, DeclInv, LinkInv, OrderInv, QueueInv, InstancesInv, [Next]_vars
    PROVE  QueueInv' /\ InstancesInv'
<1>1. ASSUME phase \notin Instantiating, phase' \notin Instantiating, instances' = instances, given' = given
      PROVE  QueueInv' /\ InstancesInv'
  <2>1. instances' = Empty /\ given' = Empty /\ DOMAIN Empty = {}
    BY <1>1 DEF InstancesInv, Empty
  <2> QED
    BY <1>1, <2>1 DEF QueueInv, InstancesInv, Instantiating
<1>2. CASE AddEdges \/ LinksDone \/ PruneDone \/ RejectCycle \/ SortDone \/ Validate \/ CountDimensions
           \/ ReindexTarget \/ ReindexDone \/ Declare
           \/ \E x \in Modules : LinkLooper(x) \/ RecurseForEver(x) \/ PruneVertex(x) \/ SortVertex(x)
  BY <1>1, <1>2 DEF AddEdges, LinksDone, PruneDone, RejectCycle, SortDone, Validate, LinkLooper, RecurseForEver,
        PruneVertex, SortVertex, CountDimensions, ReindexTarget, ReindexDone, Declare, Instantiating, built
<1>3. CASE DeclareDone
  BY <1>3, StartInstantiating
<1>4. CASE Instantiate
  BY <1>4, InstantiateKeeps
<1>5. CASE InstantiateFails \/ InstantiateDone
  BY <1>5, SameInstances DEF InstantiateFails, InstantiateDone, Instantiating, built
<1>6. CASE UNCHANGED vars
  <2>1. CASE phase \in Instantiating
    BY <1>6, <2>1, SameInstances DEF vars
  <2>2. CASE phase \notin Instantiating
    BY <1>1, <1>6, <2>2 DEF vars
  <2> QED
    BY <2>1, <2>2
<1> QED
  BY <1>2, <1>3, <1>4, <1>5, <1>6 DEF Next, Step

GInv == config \in Configs /\ PInv /\ SortInv /\ DeclInv /\ PathsInv

\* GInv holds in every reachable state.
LEMMA AlwaysGInv == Spec => []GInv
<1>1. Init => config \in Configs /\ PathsInv
  <2> SUFFICES ASSUME Init PROVE config \in Configs /\ PathsInv
    OBVIOUS
  <2>1. /\ phase = "edges" /\ edges = {} /\ vertices = Modules /\ sorted = <<>> /\ decls = Empty /\ order = <<>>
        /\ instances = Empty /\ given = Empty /\ config \in Configs
    BY DEF Init, Modules
  <2>2. DOMAIN Empty = {} /\ DOMAIN <<>> = {} /\ Range(order) = {}
    BY <2>1 DEF Empty, Range
  <2>3. LinkInv
    BY <2>1 DEF LinkInv
  <2>4. OrderInv
    BY <2>1, <2>2 DEF OrderInv, Declaring
  <2>5. QueueInv /\ InstancesInv
    BY <2>1, <2>2 DEF QueueInv, InstancesInv, Instantiating
  <2> QED
    BY <2>1, <2>3, <2>4, <2>5 DEF PathsInv
<1>2. GInv /\ [Next]_vars => (config \in Configs)' /\ PathsInv'
  <2> SUFFICES ASSUME GInv, [Next]_vars PROVE (config \in Configs)' /\ PathsInv'
    OBVIOUS
  <2>1. config \in Configs /\ PInv /\ SortInv /\ DeclInv /\ LinkInv /\ OrderInv /\ QueueInv /\ InstancesInv
    BY DEF GInv, PathsInv
  <2>2. (config \in Configs)'
    BY <2>1, ConfigKept
  <2>3. LinkInv'
    BY <2>1, LinkNext
  <2>4. OrderInv'
    BY <2>1, OrderNext
  <2>5. QueueInv' /\ InstancesInv'
    BY <2>1, InstancesNext
  <2> QED
    BY <2>2, <2>3, <2>4, <2>5 DEF PathsInv
<1>3. Init => PInv /\ SortInv /\ DeclInv
  BY InitPInv DEF Init, SortInv, DeclInv, InOrder, Unsorted, Early, Empty
<1>4. PInv /\ SortInv /\ DeclInv /\ [Next]_vars => PInv' /\ SortInv' /\ DeclInv'
  BY NextPInv, SortNext, DeclNext
<1>5. GInv /\ [Next]_vars => GInv'
  BY <1>2, <1>4 DEF GInv
<1>6. Init => GInv
  BY <1>1, <1>3 DEF GInv
<1> QED
  BY <1>5, <1>6, PTL DEF Spec

-----------------------------------------------------------------------------
(* What is executed                                                        *)

\* Each path of the configuration is the parameter of a Looper.
PathsAreGiven == \A i \in DOMAIN config.paths : \E l \in Loopers : config.pathOf[l] = config.paths[i].id

\* The Looper of a module's path is sorted before the module.
LEMMA LooperIsEarlier ==
    ASSUME GInv, phase = "built", NEW x \in Range(sorted), NEW l \in Loopers, x \in Elements(l)
    PROVE  l \in Range(sorted) /\ <<l, x>> \in edges /\ Earlier(l, x)
<1>1. SortInv /\ LinkInv
  BY DEF GInv, PathsInv
<1>2. x \in vertices
  BY <1>1 DEF SortInv, Range
<1>3. l \in vertices /\ <<l, x>> \in edges
  BY <1>1, <1>2 DEF LinkInv, Linked
<1>4. Kind(l) # "internal"
  BY DEF Loopers
<1>5. l \in Range(sorted)
  BY <1>1, <1>3, <1>4 DEF SortInv, Range, Unsorted
<1> QED
  BY <1>1, <1>3, <1>5, EarlierIsAnOrder

\* A Looper that was constructed holds all the instances of its path.
LEMMA LooperHasItsPath ==
    ASSUME GInv, phase = "built", NEW x \in Range(sorted), NEW l \in Loopers \cap Range(sorted),
           PathFor(x) = config.pathOf[l]
    PROVE  l \in DOMAIN given /\ x \in Range(given[l])
<1>1. InstancesInv
  BY DEF GInv, PathsInv
<1>2. l \in DOMAIN given
  <2>1. Instantiated(l)
    BY <1>1 DEF InstancesInv
  <2> QED
    BY <1>1, <2>1 DEF InstancesInv, Instantiated
<1>3. HasItsPath(l)
  BY <1>1, <1>2 DEF InstancesInv
<1> QED
  BY <1>2, <1>3 DEF HasItsPath, Range

\* Every module that was kept is executed when no path of the configuration is
\* left without a Looper: initialize() constructs the Loopers after all the
\* modules of their paths, and what contains the first module that nothing
\* executes is itself sorted before it.
THEOREM AllThatIsKeptIsExecuted == Spec => [](PathsAreGiven => KeptModulesAreExecuted)
<1>1. GInv => (PathsAreGiven => KeptModulesAreExecuted)
  <2> SUFFICES ASSUME GInv, PathsAreGiven, phase = "built", NEW m \in Range(sorted)
               PROVE  m \in Executed
    BY DEF KeptModulesAreExecuted
  <2>1. sorted \in Seq(vertices) /\ DOMAIN sorted \subseteq Nat /\ vertices \subseteq Modules
    BY DEF GInv, SortInv, PInv
  <2>2. m \in Modules
    BY <2>1 DEF Range
  <2> SUFFICES ASSUME NEW S \in SUBSET Modules, RunsIn(Default) \subseteq S,
                      \A l \in S \cap DOMAIN given : Range(given[l]) \subseteq S,
                      m \notin S
               PROVE  FALSE
    BY <2>2 DEF Executed
  <2> DEFINE Missing == {k \in DOMAIN sorted : sorted[k] \notin S}
  <2>3. Missing \in SUBSET Nat /\ Missing # {}
    BY <2>1 DEF Range
  <2> HIDE DEF Missing
  <2>4. PICK k \in Missing : \A j \in Missing : k <= j
    BY <2>3, LeastNatural
  <2> DEFINE x == sorted[k]
  <2>5. k \in DOMAIN sorted /\ x \notin S /\ x \in Range(sorted)
    BY <2>4 DEF Missing, Range
  <2>6. \A y : Earlier(y, x) => y \in S
    <3> SUFFICES ASSUME NEW y, Earlier(y, x), y \notin S PROVE FALSE
      OBVIOUS
    <3>1. PICK i, j \in DOMAIN sorted : i < j /\ sorted[i] = y /\ sorted[j] = x
      BY DEF Earlier
    <3>2. j = k
      BY <2>5, <3>1 DEF GInv, SortInv, InOrder
    <3>3. i \in Missing
      BY <3>1 DEF Missing
    <3> QED
      BY <2>1, <2>4, <2>5, <3>1, <3>2, <3>3
  <2> HIDE DEF x
  <2>7. Instantiated(x)
    BY <2>5 DEF GInv, PathsInv, InstancesInv
  <2>8. PathFor(x) # Default
    BY <2>5, <2>7 DEF Instantiated, RunsIn, Range
  <2>9. PICK i \in DOMAIN config.paths : PathFor(x) = config.paths[i].id
    BY <2>8, PathForIs DEF GInv
  <2>10. PICK l \in Loopers : config.pathOf[l] = PathFor(x)
    BY <2>9 DEF PathsAreGiven
  <2>11. x \in Elements(l)
    BY <2>10, PathOfLooper DEF GInv
  <2>12. l \in Range(sorted) /\ Earlier(l, x)
    BY <2>5, <2>11, LooperIsEarlier
  <2>13. l \in S
    BY <2>6, <2>12
  <2>14. l \in DOMAIN given /\ x \in Range(given[l])
    BY <2>5, <2>10, <2>12, LooperHasItsPath
  <2> QED
    BY <2>5, <2>13, <2>14
<1> QED
  BY <1>1, AlwaysGInv, PTL

-----------------------------------------------------------------------------
(* Types                                                                   *)

Phases == Ended \cup {"edges", "links", "prune", "sort", "validate", "count",
                      "reindex", "declare", "instantiate"}

\* The phases that work through the queue.
Queueing == {"reindex", "declare", "instantiate", "failed"}

TypeInv ==
    /\ phase \in Phases
    /\ DOMAIN tags = Modules
    /\ \A m \in Modules : DOMAIN tags[m] = DOMAIN config.tags[m]
    /\ unvisited \subseteq vertices
    /\ phase \notin Queueing => queue = <<>>
    /\ phase = "reindex" => queue \in Seq(vertices)
    /\ \A i \in DOMAIN sorted : Kind(sorted[i]) # "internal"

\* What a configuration holds of its modules.
LEMMA ConfigIs ==
    ASSUME config \in Configs
    PROVE  /\ config.modules \in Seq(Modules) /\ DOMAIN config.modules = 1..Len(config.modules)
           /\ Len(config.modules) \in Nat
           /\ \A i, j \in DOMAIN config.modules : config.modules[i] = config.modules[j] => i = j
           /\ \A m \in Modules : \E i \in DOMAIN config.modules : config.modules[i] = m
           /\ "cuba" \in Modules /\ Kind("cuba") = "internal"
           /\ DOMAIN config.tags = Modules /\ config.ndim \in Nat
           /\ \A m \in Modules :
                 /\ config.tags[m] \in Seq(Range(config.tags[m]))
                 /\ DOMAIN config.tags[m] = 1..Len(config.tags[m]) /\ Len(config.tags[m]) \in Nat
                 /\ \A i \in DOMAIN config.tags[m] :
                       LET t == config.tags[m][i] IN
                       /\ t = [mod |-> t.mod, par |-> t.par, idx |-> t.idx]
                       /\ t.idx \in Nat /\ t.idx < Max({config.ndim, 1})
<1>1. ConfigType(config)
  BY ConfigAssumption
<1>2. /\ config.modules \in Seq(Modules) /\ IsInjective(config.modules)
      /\ "cuba" \in Modules /\ config.kind["cuba"] = "internal" /\ DOMAIN config.tags = Modules /\ config.ndim \in Nat
      /\ \A m \in Modules :
            /\ config.tags[m] \in Seq(Range(config.tags[m]))
            /\ \A t \in Range(config.tags[m]) :
                  /\ t = [mod |-> t.mod, par |-> t.par, idx |-> t.idx]
                  /\ t.idx \in Nat /\ t.idx < Max({config.ndim, 1})
  BY <1>1 DEF ConfigType, Modules
<1>3. \A i, j \in DOMAIN config.modules : config.modules[i] = config.modules[j] => i = j
  BY <1>2 DEF IsInjective
<1>4. \A m \in Modules : \E i \in DOMAIN config.modules : config.modules[i] = m
  BY DEF Modules, Range
<1>5. \A m \in Modules : \A i \in DOMAIN config.tags[m] : config.tags[m][i] \in Range(config.tags[m])
  BY DEF Range
<1>6. \A m \in Modules : \A i \in DOMAIN config.tags[m] :
         LET t == config.tags[m][i] IN
         /\ t = [mod |-> t.mod, par |-> t.par, idx |-> t.idx]
         /\ t.idx \in Nat /\ t.idx < Max({config.ndim, 1})
  <2> QED
    BY <1>2, <1>5
<1>7. /\ DOMAIN config.modules = 1..Len(config.modules) /\ Len(config.modules) \in Nat
      /\ \A m \in Modules : DOMAIN config.tags[m] = 1..Len(config.tags[m]) /\ Len(config.tags[m]) \in Nat
  BY <1>2
<1>8. Kind("cuba") = "internal"
  BY <1>2 DEF Kind
<1> QED
  BY <1>2, <1>3, <1>4, <1>6, <1>7, <1>8

\* The places of the InputTags of m that point to an output of cuba.
Places(m, par) == {i \in DOMAIN tags[m] : tags[m][i].mod = "cuba" /\ tags[m][i].par = par}

\* A module of the graph is as often a target as it has InputTags to cuba.
LEMMA TargetsAre ==
    ASSUME config \in Configs, PInv, TypeInv, NEW par
    PROVE  LET q == TargetsOf(par) IN
           /\ q \in Seq(vertices)
           /\ \A m \in vertices : Places(m, par) # {} => \E i \in DOMAIN q : q[i] = m
           /\ \A i \in DOMAIN q : Places(q[i], par) # {}
           /\ \A i, j \in DOMAIN q : (\A a, b \in Places(q[i], par) : a = b) /\ q[i] = q[j] => i = j
<1> DEFINE n == Len(config.modules)
           M(k) == config.modules[k]
           Targets(k) == IF M(k) \in vertices THEN [i \in 1..Cardinality(Places(M(k), par)) |-> M(k)] ELSE <<>>
           ss == [k \in DOMAIN config.modules |-> Targets(k)]
           q  == FlattenSeq(ss)
<1>1. n \in Nat /\ DOMAIN config.modules = 1..n /\ \A k \in 1..n : M(k) \in Modules
  BY ConfigIs
<1>2. ASSUME NEW m \in Modules
      PROVE  IsFiniteSet(Places(m, par)) /\ Cardinality(Places(m, par)) \in Nat
  <2>1. DOMAIN tags[m] = 1..Len(config.tags[m]) /\ Len(config.tags[m]) \in Nat
    BY ConfigIs DEF TypeInv
  <2>2. IsFiniteSet(1..Len(config.tags[m]))
    <3>1. 1 \in Int /\ Len(config.tags[m]) \in Int
      BY <2>1
    <3> QED
      BY <3>1, FS_Interval
  <2>3. Places(m, par) \subseteq 1..Len(config.tags[m])
    BY <2>1 DEF Places
  <2> QED
    BY <2>2, <2>3, FS_Subset, FS_CardinalityType
<1> HIDE DEF n, M
<1>3. \A k \in 1..n :
         /\ Targets(k) \in Seq(vertices)
         /\ \A i \in DOMAIN Targets(k) : Targets(k)[i] = M(k)
         /\ M(k) \in vertices => DOMAIN Targets(k) = 1..Cardinality(Places(M(k), par))
         /\ M(k) \notin vertices => DOMAIN Targets(k) = {}
  <2> SUFFICES ASSUME NEW k \in 1..n
               PROVE  /\ Targets(k) \in Seq(vertices)
                      /\ \A i \in DOMAIN Targets(k) : Targets(k)[i] = M(k)
                      /\ M(k) \in vertices => DOMAIN Targets(k) = 1..Cardinality(Places(M(k), par))
                      /\ M(k) \notin vertices => DOMAIN Targets(k) = {}
    OBVIOUS
  <2>1. CASE M(k) \in vertices
    <3>1. Cardinality(Places(M(k), par)) \in Nat
      BY <1>1, <1>2
    <3> DEFINE c == Cardinality(Places(M(k), par))
    <3> HIDE DEF c
    <3>2. Targets(k) = [i \in 1..c |-> M(k)]
      BY <2>1 DEF c
    <3>3. Targets(k) \in [1..c -> vertices]
      BY <2>1, <3>2
    <3>4. Targets(k) \in Seq(vertices)
      BY <3>1, <3>3, FunctionIsSequence DEF c
    <3> QED
      BY <2>1, <3>2, <3>4 DEF c
  <2>2. CASE M(k) \notin vertices
    BY <2>2
  <2> QED
    BY <2>1, <2>2
<1> HIDE DEF Targets
<1>4. ss \in Seq(Seq(vertices)) /\ Len(ss) = n
  <2>1. ss \in [1..n -> Seq(vertices)]
    BY <1>1, <1>3
  <2> HIDE DEF ss
  <2> QED
    BY <1>1, <2>1, FunctionIsSequence
<1>5. \A k \in 1..n : ss[k] = Targets(k)
  BY <1>1
<1>6. TargetsOf(par) = q
  BY DEF TargetsOf, Targets, Places, M
<1> HIDE DEF ss
<1>7. q \in Seq(vertices) /\ IsFlat(q, ss, n)
  BY <1>4, Flattened
<1> HIDE DEF q
<1>8. ASSUME NEW i \in DOMAIN q, NEW k, NEW u, InPlace(q[i], ss, n, k, u)
      PROVE  k \in 1..n /\ u \in 1..Cardinality(Places(M(k), par)) /\ q[i] = M(k) /\ M(k) \in vertices
  BY <1>3, <1>5, <1>8 DEF InPlace
<1>9. ASSUME NEW i \in DOMAIN q
      PROVE  Places(q[i], par) # {}
  <2>1. PICK k, u : InPlace(q[i], ss, n, k, u)
    BY <1>7 DEF IsFlat
  <2>2. q[i] = M(k) /\ u \in 1..Cardinality(Places(M(k), par))
    BY <1>8, <2>1
  <2>3. Cardinality({}) = 0 /\ 1..0 = {}
    BY FS_EmptySet
  <2> QED
    BY <2>2, <2>3
<1>10. ASSUME NEW m \in vertices, Places(m, par) # {}
       PROVE  \E i \in DOMAIN q : q[i] = m
  <2>1. m \in Modules
    BY DEF PInv
  <2>2. PICK k \in 1..n : M(k) = m
    BY <1>1, <2>1, ConfigIs DEF M
  <2>3. Cardinality(Places(m, par)) # 0
    BY <1>2, <1>10, <2>1, FS_EmptySet
  <2>4. 1 \in DOMAIN ss[k] /\ ss[k][1] = m
    BY <1>2, <1>3, <1>5, <2>1, <2>2, <2>3
  <2> QED
    BY <1>7, <2>2, <2>4 DEF IsFlat
<1>11. ASSUME NEW i \in DOMAIN q, NEW j \in DOMAIN q, i < j, q[i] = q[j],
              \A a, b \in Places(q[i], par) : a = b
       PROVE  FALSE
  <2>1. PICK a, b, u, w : /\ InPlace(q[i], ss, n, a, u) /\ InPlace(q[j], ss, n, b, w)
                          /\ a < b \/ (a = b /\ u < w)
    BY <1>7, <1>11 DEF IsFlat
  <2>2. /\ a \in 1..n /\ u \in 1..Cardinality(Places(M(a), par)) /\ q[i] = M(a) /\ M(a) \in vertices
        /\ b \in 1..n /\ w \in 1..Cardinality(Places(M(b), par)) /\ q[j] = M(b)
    BY <1>8, <2>1
  <2>3. a = b
    BY <1>1, <1>11, <2>2, ConfigIs DEF M
  <2>4. PICK x \in Places(M(a), par) : TRUE
    BY <1>9, <2>2
  <2>5. Places(M(a), par) = {x}
    BY <1>11, <2>2, <2>4
  <2>6. Cardinality({x}) = 1
    BY FS_Singleton
  <2> QED
    BY <2>1, <2>2, <2>3, <2>5, <2>6
<1>12. \A i, j \in DOMAIN q : (\A a, b \in Places(q[i], par) : a = b) /\ q[i] = q[j] => i = j
  <2>1. DOMAIN q \subseteq Nat
    BY <1>7
  <2> QED
    BY <1>11, <2>1
<1> QED
  BY <1>6, <1>7, <1>9, <1>10, <1>12

\* The targets of the out-edges of cuba are vertices.
LEMMA CubaTargetsAre ==
    ASSUME config \in Configs, PInv, TypeInv
    PROVE  CubaTargets \in Seq(vertices)
<1>1. TargetsOf("ps_points") \in Seq(vertices) /\ TargetsOf("ps_weight") \in Seq(vertices)
  BY TargetsAre
<1> QED
  BY <1>1 DEF CubaTargets

\* The target of an edge has its InputTags rewritten one by one.
LEMMA ReindexType ==
    ASSUME TypeInv, ReindexTarget
    PROVE  /\ phase = "reindex" /\ phase' = "reindex" /\ queue # <<>> /\ queue' = Tail(queue)
           /\ queue \in Seq(vertices) /\ Head(queue) \in vertices
           /\ DOMAIN tags' = DOMAIN tags
           /\ \A m \in DOMAIN tags : DOMAIN tags'[m] = DOMAIN tags[m]
           /\ \A m \in DOMAIN tags : m # Head(queue) => tags'[m] = tags[m]
           /\ Head(queue) \in DOMAIN tags => \A i \in DOMAIN tags[Head(queue)] :
                 tags'[Head(queue)][i] = Reindexed(mapping', tags[Head(queue)][i])
           /\ mapping' = Numbering(Head(queue))
           /\ UNCHANGED <<config, graph, unvisited, sorted, built>>
<1>1. /\ phase = "reindex" /\ phase' = "reindex" /\ queue # <<>> /\ queue' = Tail(queue)
      /\ mapping' = Numbering(Head(queue))
      /\ tags' = [tags EXCEPT ![Head(queue)] =
                    [i \in DOMAIN tags[Head(queue)] |-> Reindexed(mapping', tags[Head(queue)][i])]]
      /\ UNCHANGED <<config, graph, unvisited, sorted, built>>
  BY DEF ReindexTarget
<1>2. queue \in Seq(vertices) /\ Head(queue) \in vertices
  <2>1. queue \in Seq(vertices)
    BY <1>1 DEF TypeInv
  <2> QED
    BY <1>1, <2>1
<1> QED
  BY <1>1, <1>2

\* Every step keeps TypeInv.
LEMMA TypeNext ==
    ASSUME config \in Configs, PInv, SortInv, LinkInv, TypeInv, [Next]_vars
    PROVE  TypeInv'
<1>1. config' = config /\ Modules' = Modules /\ \A m : Kind(m)' = Kind(m)
  BY SameConfig
\* What most of the steps change.
<1>2. ASSUME tags' = tags, phase' \in Phases, unvisited' \subseteq vertices', phase' \notin Queueing => queue' = <<>>,
             phase' = "reindex" => queue' \in Seq(vertices'), \A i \in DOMAIN sorted' : Kind(sorted'[i]) # "internal"
      PROVE  TypeInv'
  <2>1. \A i \in DOMAIN sorted' : (Kind(sorted[i]) # "internal")'
    BY <1>1, <1>2
  <2> QED
    BY <1>1, <1>2, <2>1 DEF TypeInv
<1>3. \A i \in DOMAIN sorted : Kind(sorted[i]) # "internal"
  BY DEF TypeInv
<1>4. CASE AddEdges \/ LinksDone \/ PruneDone \/ RejectCycle \/ SortDone \/ Validate
           \/ \E x \in Modules : LinkLooper(x) \/ RecurseForEver(x)
  <2>1. phase \notin Queueing /\ queue' = <<>> /\ sorted' = sorted /\ tags' = tags /\ vertices' = vertices
    BY <1>4 DEF AddEdges, LinksDone, PruneDone, RejectCycle, SortDone, Validate, LinkLooper, RecurseForEver,
                graph, TypeInv, Queueing
  <2>2. phase' \in Phases /\ phase' # "reindex"
    BY <1>4 DEF AddEdges, LinksDone, PruneDone, RejectCycle, SortDone, Validate, LinkLooper, RecurseForEver,
                Phases, Ended
  <2>3. phase = "edges" => Loopers \subseteq vertices
    BY DEF LinkInv, Loopers
  <2>4. unvisited' \subseteq vertices
    BY <1>4, <2>3 DEF AddEdges, LinksDone, PruneDone, RejectCycle, SortDone, Validate, LinkLooper, RecurseForEver,
                TypeInv
  <2> QED
    BY <1>2, <1>3, <2>1, <2>2, <2>4
<1>5. ASSUME NEW v, PruneVertex(v)
      PROVE  TypeInv'
  <2>1. /\ phase = "prune" /\ phase' = "prune" /\ queue' = queue /\ sorted' = sorted /\ tags' = tags
        /\ unvisited' = unvisited \ {v} /\ (vertices' = vertices \/ vertices' = vertices \ {v})
    BY <1>5 DEF PruneVertex, graph
  <2> QED
    BY <1>2, <1>3, <2>1 DEF TypeInv, Phases, Queueing
<1>6. ASSUME NEW v, SortVertex(v)
      PROVE  TypeInv'
  <2>1. /\ phase = "sort" /\ phase' = "sort" /\ queue' = queue /\ tags' = tags
        /\ unvisited' = unvisited \ {v} /\ vertices' = vertices /\ v \in unvisited
        /\ sorted' = IF Kind(v) = "internal" THEN sorted ELSE Append(sorted, v)
    BY <1>6 DEF SortVertex, graph
  <2>2. ASSUME NEW i \in DOMAIN sorted', Kind(v) # "internal" PROVE Kind(sorted'[i]) # "internal"
    <3>1. sorted \in Seq(vertices) /\ sorted' = Append(sorted, v)
      BY <2>1, <2>2 DEF SortInv
    <3>2. (i \in DOMAIN sorted /\ sorted'[i] = sorted[i]) \/ sorted'[i] = v
      BY <2>2, <3>1
    <3> QED
      BY <1>3, <2>2, <3>2
  <2> QED
    BY <1>2, <1>3, <2>1, <2>2 DEF TypeInv, Phases, Queueing
<1>7. CASE CountDimensions
  <2>1. /\ sorted' = sorted /\ tags' = tags /\ unvisited' = unvisited /\ vertices' = vertices
        /\ (phase' = "reindex" /\ queue' = CubaTargets) \/ (phase' = "declare" /\ queue' = sorted)
    BY <1>7 DEF CountDimensions, graph
  <2> QED
    BY <1>2, <1>3, <2>1, CubaTargetsAre DEF TypeInv, Phases, Queueing
<1>8. CASE ReindexTarget
  <2>1. queue' \in Seq(vertices')
    BY <1>8, ReindexType DEF graph
  <2>2. \A m \in Modules : DOMAIN tags'[m] = DOMAIN config.tags[m]
    BY <1>8, ReindexType DEF TypeInv
  <2>3. unvisited' \subseteq vertices' /\ \A i \in DOMAIN sorted' : Kind(sorted'[i]) # "internal"
    BY <1>3, <1>8, ReindexType DEF TypeInv, graph
  <2>4. \A i \in DOMAIN sorted' : (Kind(sorted[i]) # "internal")'
    BY <1>1, <2>3
  <2>5. phase' = "reindex" /\ DOMAIN tags' = Modules
    BY <1>8, ReindexType DEF TypeInv
  <2> QED
    BY <1>1, <2>1, <2>2, <2>3, <2>4, <2>5 DEF TypeInv, Phases, Queueing
<1>9. CASE ReindexDone \/ Declare \/ DeclareDone \/ Instantiate \/ InstantiateFails \/ InstantiateDone
  <2>1. sorted' = sorted /\ tags' = tags /\ unvisited' = unvisited /\ vertices' = vertices
    BY <1>9 DEF ReindexDone, Declare, DeclareDone, Instantiate, InstantiateFails, InstantiateDone, graph
  <2>2. phase' \in Phases /\ phase' # "reindex" /\ (phase' \notin Queueing => queue' = <<>>)
    BY <1>9 DEF ReindexDone, Declare, DeclareDone, Instantiate, InstantiateFails, InstantiateDone,
                Phases, Ended, Queueing
  <2> QED
    BY <1>2, <1>3, <2>1, <2>2 DEF TypeInv
<1>10. CASE UNCHANGED vars
  BY <1>2, <1>3, <1>10 DEF TypeInv, vars
<1> QED
  BY <1>4, <1>5, <1>6, <1>7, <1>8, <1>9, <1>10 DEF Next, Step

\* TypeInv holds in every reachable state.
LEMMA AlwaysTypeInv == Spec => [](GInv /\ TypeInv)
<1>1. Init => TypeInv
  <2> SUFFICES ASSUME Init PROVE TypeInv
    OBVIOUS
  <2>1. /\ config \in Configs /\ phase = "edges" /\ tags = config.tags /\ unvisited = {} /\ queue = <<>> /\ sorted = <<>>
    BY DEF Init
  <2> QED
    BY <2>1, ConfigIs DEF TypeInv, Phases, Queueing
<1>2. GInv /\ TypeInv /\ [Next]_vars => TypeInv'
  BY TypeNext DEF GInv, PathsInv
<1> QED
  BY <1>1, <1>2, AlwaysGInv, PTL DEF Spec

\* The type invariant, for every configuration: in particular, the passes work
\* on vertices of the graph only, cuba has edges to such vertices only, and
\* every path that is declared is in sorted_execution_paths.
THEOREM GraphIsTyped == Spec => []TypeOK
<1>1. GInv /\ TypeInv => TypeOK
  <2> SUFFICES ASSUME GInv, TypeInv PROVE TypeOK
    OBVIOUS
  <2>1. PInv /\ SortInv /\ DeclInv /\ LinkInv /\ OrderInv /\ QueueInv /\ InstancesInv /\ config \in Configs
    BY DEF GInv, PathsInv
  <2>2. Range(sorted) \subseteq {v \in vertices : Kind(v) # "internal"}
    BY <2>1 DEF SortInv, TypeInv, Range
  <2>3. Range(queue) \subseteq vertices
    <3>1. CASE phase \notin Queueing
      BY <3>1 DEF TypeInv, Range
    <3>2. CASE phase = "reindex"
      BY <3>2 DEF TypeInv, Range
    <3>3. CASE phase \in {"declare", "instantiate", "failed"}
      <4>1. queue \in Seq(Range(sorted))
        BY <2>1, <3>3 DEF OrderInv, QueueInv
      <4> QED
        BY <2>2, <4>1 DEF Range
    <3> QED
      BY <3>1, <3>2, <3>3 DEF Queueing
  <2>4. /\ \A p \in DOMAIN decls : Range(decls[p]) \subseteq Range(sorted)
        /\ Range(order) = DOMAIN decls
    <3>1. \A p \in DOMAIN decls : decls[p] \in Seq(Range(sorted))
      BY <2>1 DEF OrderInv
    <3>2. ASSUME NEW p \in DOMAIN decls, NEW x \in Range(decls[p]) PROVE x \in Range(sorted)
      <4>1. PICK i \in DOMAIN decls[p] : decls[p][i] = x
        BY <3>2 DEF Range
      <4> QED
        BY <3>1, <4>1
    <3> QED
      BY <2>1, <3>2 DEF OrderInv
  <2>5. edges \subseteq vertices \X vertices /\ vertices \subseteq Modules
    BY <2>1 DEF LinkInv, PInv
  <2>6. DOMAIN instances \subseteq DOMAIN decls /\ DOMAIN given \subseteq Loopers
    BY <2>1 DEF InstancesInv
  <2> QED
    BY <2>1, <2>2, <2>3, <2>4, <2>5, <2>6 DEF TypeOK, TypeInv, Phases
<1> QED
  BY <1>1, AlwaysTypeInv, PTL

-----------------------------------------------------------------------------
(* What validate() lets through                                            *)

Validated == {"count", "reindex", "declare", "instantiate", "built", "failed"}

\* Of the Loopers that point to t, the last one has it in its path.
ValidInv ==
    phase \in Validated =>
        \A t \in vertices, l \in Loopers \cap Range(sorted) : <<l, t>> \in edges =>
            \E k \in Loopers \cap Range(sorted) :
                t \in Elements(k) /\ (k = l \/ Earlier(l, k))

\* The Looper that decides whether t is misplaced.
LEMMA LastPointing ==
    ASSUME SortInv, NEW t, ~Misplaced(t), NEW l \in Loopers \cap Range(sorted), <<l, t>> \in edges
    PROVE  \E k \in Loopers \cap Range(sorted) : t \in Elements(k) /\ (k = l \/ Earlier(l, k))
<1> DEFINE P == {i \in DOMAIN sorted : sorted[i] \in Loopers /\ <<sorted[i], t>> \in edges}
           n == Len(sorted)
<1>1. n \in Nat /\ DOMAIN sorted = 1..n
  BY DEF SortInv
<1>2. PICK i \in P : sorted[i] = l
  BY DEF Range
<1>3. P \subseteq 1..n
  BY <1>1
<1> HIDE DEF n, P
<1> DEFINE T == {n - a : a \in P}
<1>4. T \in SUBSET Nat /\ T # {}
  BY <1>1, <1>2, <1>3
<1> HIDE DEF T
<1>5. PICK b \in T : \A c \in T : b <= c
  BY <1>4, LeastNatural
<1>6. PICK j \in P : \A a \in P : n - j <= n - a
  BY <1>5 DEF T
<1>7. \A a \in P : a <= j
  BY <1>1, <1>3, <1>6
<1>8. Max(P) \in P /\ \A a \in P : a <= Max(P)
  <2>1. \E x \in P : \A y \in P : x >= y
    BY <1>1, <1>3, <1>6, <1>7
  <2>2. Max(P) \in P /\ \A y \in P : Max(P) >= y
    BY <2>1 DEF Max
  <2> QED
    BY <1>1, <1>3, <2>2
<1> DEFINE k == Max(P)
<1> HIDE DEF k
<1>9. t \in Elements(sorted[k])
  BY <1>2 DEF Misplaced, P, k
<1>10. k \in DOMAIN sorted /\ sorted[k] \in Loopers
  BY <1>8 DEF P, k
<1>11. k = i \/ Earlier(sorted[i], sorted[k])
  <2>1. i <= k /\ i \in DOMAIN sorted
    BY <1>2, <1>8 DEF k, P
  <2> QED
    BY <1>1, <1>10, <2>1 DEF Earlier
<1> QED
  BY <1>2, <1>9, <1>10, <1>11 DEF Range

\* Every step keeps ValidInv; validate() is the one that establishes it.
LEMMA ValidNext ==
    ASSUME SortInv, ValidInv, [Next]_vars
    PROVE  ValidInv'
<1>1. /\ Loopers' = Loopers /\ \A l : Elements(l)' = Elements(l)
  BY SameConfig
<1> DEFINE Good == \A t \in vertices, l \in Loopers \cap Range(sorted) : <<l, t>> \in edges =>
                      \E k \in Loopers \cap Range(sorted) :
                          t \in Elements(k) /\ (k = l \/ Earlier(l, k))
<1>2. ASSUME Good, UNCHANGED <<vertices, edges, sorted>>
      PROVE  ValidInv'
  <2>1. \A x, y : Earlier(x, y)' <=> Earlier(x, y)
    BY <1>2 DEF Earlier
  <2>2. Range(sorted') = Range(sorted)
    BY <1>2
  <2> QED
    BY <1>1, <1>2, <2>1, <2>2 DEF ValidInv
<1>3. ASSUME phase \in Validated, UNCHANGED <<vertices, edges, sorted>>
      PROVE  ValidInv'
  BY <1>2, <1>3 DEF ValidInv
<1>4. CASE AddEdges \/ LinksDone \/ PruneDone \/ RejectCycle \/ SortDone
           \/ \E x \in Modules : LinkLooper(x) \/ RecurseForEver(x) \/ PruneVertex(x) \/ SortVertex(x)
  <2>1. phase' \notin Validated
    BY <1>4 DEF AddEdges, LinksDone, PruneDone, RejectCycle, SortDone, LinkLooper,
                RecurseForEver, PruneVertex, SortVertex, Validated
  <2> QED
    BY <2>1 DEF ValidInv
<1>5. CASE Validate
  <2>1. CASE phase' = "count"
    <3>1. \A t \in vertices : ~Misplaced(t)
      BY <1>5, <2>1 DEF Validate
    <3>2. Good
      BY <3>1, LastPointing
    <3> QED
      BY <1>2, <1>5, <3>2 DEF Validate, graph
  <2>2. CASE phase' # "count"
    BY <1>5, <2>2 DEF Validate, ValidInv, Validated
  <2> QED
    BY <2>1, <2>2
<1>6. CASE CountDimensions \/ ReindexTarget \/ ReindexDone \/ Declare \/ DeclareDone
           \/ Instantiate \/ InstantiateFails \/ InstantiateDone
  BY <1>3, <1>6 DEF CountDimensions, ReindexTarget, ReindexDone, Declare, DeclareDone,
        Instantiate, InstantiateFails, InstantiateDone, Validated, graph
<1>7. CASE UNCHANGED vars
  <2>1. CASE phase \in Validated
    BY <1>3, <1>7, <2>1 DEF vars
  <2>2. CASE phase \notin Validated
    BY <1>7, <2>2 DEF ValidInv, vars
  <2> QED
    BY <2>1, <2>2
<1> QED
  BY <1>4, <1>5, <1>6, <1>7 DEF Next, Step

-----------------------------------------------------------------------------
(* What a Looper encloses                                                  *)

\* No module is in two of the execution paths.
PathsAreDisjoint ==
    \A i, j \in DOMAIN config.paths : \A m \in Modules :
        m \in config.paths[i].elements /\ m \in config.paths[j].elements => i = j

\* A module of a Looper's path is declared in that path when no other path has it.
LEMMA PathOfElement ==
    ASSUME config \in Configs, PathsAreDisjoint, NEW l \in Loopers, NEW m \in Modules, m \in Elements(l)
    PROVE  PathFor(m) = config.pathOf[l]
<1> DEFINE j == LooperPath(l)
<1>1. j \in DOMAIN config.paths /\ config.paths[j].id = config.pathOf[l]
  BY LooperPathIs
<1>2. m \in config.paths[j].elements
  BY DEF Elements
<1> HIDE DEF j
<1>3. PICK i \in DOMAIN config.paths : m \in config.paths[i].elements /\ PathFor(m) = config.paths[i].id
  BY <1>1, <1>2, PathForIs
<1>4. i = j
  BY <1>1, <1>2, <1>3 DEF PathsAreDisjoint
<1> QED
  BY <1>1, <1>3, <1>4

\* A Looper encloses the kept modules of its path.
LEMMA ElementIsEnclosed ==
    ASSUME GInv, phase = "built", PathsAreDisjoint,
           NEW x \in Range(sorted), NEW l \in Loopers, x \in Elements(l)
    PROVE  l \in Range(sorted) /\ x \in Range(given[l]) /\ l \in DOMAIN given /\ l \in Enclosing(x)
<1>1. l \in Range(sorted)
  BY LooperIsEarlier
<1>2. x \in Modules /\ l \in Modules
  BY DEF GInv, PInv, SortInv, Range, Loopers
<1>3. PathFor(x) = config.pathOf[l]
  BY <1>2, PathOfElement DEF GInv
<1>4. l \in DOMAIN given /\ x \in Range(given[l])
  BY <1>1, <1>3, LooperHasItsPath
<1> QED
  BY <1>1, <1>2, <1>4 DEF Enclosing

\* What encloses a Looper around m encloses m.
LEMMA EnclosingIsTransitive ==
    ASSUME NEW m, NEW k \in Enclosing(m)
    PROVE  Enclosing(k) \subseteq Enclosing(m)
BY DEF Enclosing

\* What is in the path of Looper l, or in that of a Looper of the path, etc.
Within(l) ==
    {x \in Modules : \A S \in SUBSET Modules :
        (l \in S /\ \A k \in S \cap Loopers : Elements(k) \cap Modules \subseteq S) => x \in S}

\* What is within a Looper in the configuration is executed inside it, and after it.
LEMMA WithinIsEnclosed ==
    ASSUME GInv, phase = "built", PathsAreDisjoint, NEW l \in Loopers, NEW x \in Within(l), x \in Range(sorted)
    PROVE  l \in Enclosing(x) /\ (x = l \/ Earlier(l, x))
<1> DEFINE S == {y \in Modules : y \in Range(sorted) => l \in Enclosing(y) /\ (y = l \/ Earlier(l, y))}
<1>1. l \in S
  BY DEF Loopers, Enclosing
<1>2. ASSUME NEW k \in S \cap Loopers, NEW y \in Elements(k) \cap Modules, y \in Range(sorted)
      PROVE  l \in Enclosing(y) /\ (y = l \/ Earlier(l, y))
  <2>1. k \in Range(sorted) /\ k \in Enclosing(y)
    BY <1>2, ElementIsEnclosed
  <2>2. l \in Enclosing(k) /\ (k = l \/ Earlier(l, k))
    BY <1>2, <2>1
  <2>3. Earlier(k, y)
    BY <1>2, LooperIsEarlier
  <2>4. l \in Enclosing(y)
    BY <2>1, <2>2, EnclosingIsTransitive
  <2> QED
    BY <2>2, <2>3, <2>4, EarlierIsAnOrder DEF GInv
<1>3. S \in SUBSET Modules /\ \A k \in S \cap Loopers : Elements(k) \cap Modules \subseteq S
  BY <1>2
<1> HIDE DEF S
<1>4. x \in S
  BY <1>1, <1>3 DEF Within
<1> QED
  BY <1>4 DEF S

\* A module that reads a Looper and is in the path of a Looper: one of the two
\* Loopers is within the other.
ReadLoopersAreNested ==
    \A m \in Modules : \A l \in Reads(m) \cap Loopers, k \in Loopers :
        m \in Elements(k) => l \in Within(k) \/ k \in Within(l)

\* When the paths are disjoint and ReadLoopersAreNested, what reads the output of
\* a Looper is executed inside it, or the graph is rejected.  validate() only asks
\* the last of the Loopers that point to the module: the others enclose this one.
THEOREM LooperOutputsAreReadInside ==
    Spec => [](PathsAreDisjoint /\ ReadLoopersAreNested => LooperOutputsStayInside)
<1>1. GInv /\ ValidInv => (PathsAreDisjoint /\ ReadLoopersAreNested => LooperOutputsStayInside)
  <2> SUFFICES ASSUME GInv, ValidInv, PathsAreDisjoint, ReadLoopersAreNested, phase = "built",
                      NEW m \in Range(sorted), NEW l \in Reads(m) \cap Loopers
               PROVE  l \in Enclosing(m)
    BY DEF LooperOutputsStayInside
  <2>1. m \in vertices /\ m \in Modules
    BY DEF GInv, SortInv, PInv, Range
  <2>2. l \in vertices /\ <<l, m>> \in edges
    BY <2>1 DEF GInv, PInv, ReadsHaveEdges
  <2>3. l \in Range(sorted)
    BY <2>2 DEF GInv, SortInv, Loopers, Unsorted, Range
  <2>4. PICK k \in Loopers \cap Range(sorted) : m \in Elements(k) /\ (k = l \/ Earlier(l, k))
    BY <2>1, <2>2, <2>3 DEF ValidInv, Validated
  <2>5. k \in Enclosing(m)
    BY <2>4, ElementIsEnclosed
  <2>6. l \in Within(k) \/ k \in Within(l)
    BY <2>1, <2>4 DEF ReadLoopersAreNested
  <2>7. CASE k \in Within(l)
    BY <2>4, <2>5, <2>7, WithinIsEnclosed, EnclosingIsTransitive
  <2>8. CASE l \in Within(k)
    <3>1. l = k \/ Earlier(k, l)
      BY <2>3, <2>4, <2>8, WithinIsEnclosed
    <3>2. l = k
      BY <2>4, <3>1, EarlierIsAnOrder DEF GInv
    <3> QED
      BY <2>5, <3>2
  <2> QED
    BY <2>6, <2>7, <2>8
<1>2. Init => ValidInv
  BY DEF Init, ValidInv, Validated
<1>3. GInv /\ ValidInv /\ [Next]_vars => ValidInv'
  BY ValidNext DEF GInv
<1> QED
  BY <1>1, <1>2, <1>3, AlwaysGInv, PTL DEF Spec

-----------------------------------------------------------------------------
(* The integration dimensions                                              *)

\* f numbers its domain 0, 1, 2...
IsNumbering(f) ==
    /\ IsFiniteSet(DOMAIN f)
    /\ \A d \in DOMAIN f : f[d] \in 0..(Cardinality(DOMAIN f) - 1)
    /\ \A k \in 0..(Cardinality(DOMAIN f) - 1) : \E d \in DOMAIN f : f[d] = k
    /\ \A d, e \in DOMAIN f : f[d] = f[e] => d = e

\* emplace() with the next number gives a numbering of one dimension more, or leaves it.
LEMMA NumberedIs ==
    ASSUME NEW f, IsNumbering(f), NEW t
    PROVE  /\ IsNumbering(Numbered(f, t))
           /\ DOMAIN Numbered(f, t) = DOMAIN f \cup (IF IsDim(t) THEN {t.idx} ELSE {})
           /\ \A d \in DOMAIN f : Numbered(f, t)[d] = f[d]
<1> DEFINE n == Cardinality(DOMAIN f)
           x == t.idx
           g == Numbered(f, t)
<1>1. n \in Nat /\ IsFiniteSet(DOMAIN f)
  BY FS_CardinalityType DEF IsNumbering
<1>2. CASE ~IsDim(t)
  BY <1>2 DEF Numbered
<1>3. CASE IsDim(t)
  <2>1. g = [z \in DOMAIN f \cup {x} |-> IF z \in DOMAIN f THEN f[z] ELSE n]
    BY <1>3 DEF Numbered, Emplaced
  <2>2. DOMAIN g = DOMAIN f \cup {x} /\ \A d \in DOMAIN f : g[d] = f[d]
    BY <2>1
  <2>3. x \notin DOMAIN f => g[x] = n
    BY <2>1
  <2> HIDE DEF g, x
  <2>4. IsFiniteSet(DOMAIN g) /\ Cardinality(DOMAIN g) = IF x \in DOMAIN f THEN n ELSE n + 1
    BY <1>1, <2>2, FS_AddElement
  <2> DEFINE c == Cardinality(DOMAIN g)
  <2> HIDE DEF n, c
  <2>5. /\ \A d \in DOMAIN f : f[d] \in 0..(n - 1)
        /\ \A k \in 0..(n - 1) : \E d \in DOMAIN f : f[d] = k
        /\ \A d, e \in DOMAIN f : f[d] = f[e] => d = e
    BY DEF IsNumbering, n
  <2>6. c = IF x \in DOMAIN f THEN n ELSE n + 1
    BY <2>4 DEF c
  <2>7. CASE x \in DOMAIN f
    <3>1. DOMAIN g = DOMAIN f /\ c = n
      BY <2>2, <2>6, <2>7
    <3>2. IsNumbering(g)
      BY <2>2, <2>4, <2>5, <3>1 DEF IsNumbering, c
    <3> QED
      BY <1>3, <2>2, <3>2 DEF g, x
  <2>8. CASE x \notin DOMAIN f
    <3>1. c = n + 1 /\ g[x] = n
      BY <2>3, <2>6, <2>8
    <3>2. \A d \in DOMAIN g : g[d] \in 0..(c - 1)
      <4>1. \A d \in DOMAIN f : g[d] \in 0..(n + 1 - 1)
        BY <1>1, <2>2, <2>5
      <4> QED
        BY <1>1, <2>2, <3>1, <4>1
    <3>3. \A k \in 0..(c - 1) : \E d \in DOMAIN g : g[d] = k
      <4> SUFFICES ASSUME NEW k \in 0..(c - 1) PROVE \E d \in DOMAIN g : g[d] = k
        OBVIOUS
      <4>1. k = n \/ k \in 0..(n - 1)
        BY <1>1, <3>1
      <4> QED
        BY <2>2, <2>5, <3>1, <4>1
    <3>4. \A d, e \in DOMAIN g : g[d] = g[e] => d = e
      <4>1. \A d \in DOMAIN f : g[d] # n
        BY <1>1, <2>2, <2>5
      <4> QED
        BY <2>2, <2>5, <3>1, <4>1
    <3>5. IsNumbering(g)
      BY <2>4, <3>2, <3>3, <3>4 DEF IsNumbering, c
    <3> QED
      BY <1>3, <2>2, <3>5 DEF g, x
  <2> QED
    BY <2>7, <2>8
<1> QED
  BY <1>2, <1>3

\* The equation of the function Numbering is defined with has a solution.
Numbers(f, s, k) == f = [i \in 0..k |-> IF i = 0 THEN mapping ELSE Numbered(f[i - 1], s[i])]

\* ... by induction on the number of InputTags.
LEMMA NumbersExists ==
    ASSUME NEW n \in Nat, NEW s
    PROVE  \E f : Numbers(f, s, n)
<1> DEFINE Good == {k \in 1..(n + 1) : \E f : Numbers(f, s, k - 1)}
<1>1. 1 \in Good
  <2> DEFINE f == [i \in 0..0 |-> mapping]
  <2>1. f = [i \in 0..0 |-> IF i = 0 THEN mapping ELSE Numbered(f[i - 1], s[i])]
    OBVIOUS
  <2> HIDE DEF f
  <2>2. Numbers(f, s, 1 - 1)
    BY <2>1 DEF Numbers
  <2> QED
    BY <2>2
<1>2. ASSUME NEW k \in 1..((n + 1) - 1), k \in Good PROVE k + 1 \in Good
  <2>1. PICK f : Numbers(f, s, k - 1)
    BY <1>2
  <2>2. k \in Nat /\ k # 0 /\ k \notin 0..(k - 1)
    OBVIOUS
  <2> DEFINE v == Numbered(f[k - 1], s[k])
             g == [i \in 0..k |-> IF i \in 0..(k - 1) THEN f[i] ELSE v]
             h == [i \in 0..k |-> IF i = 0 THEN mapping ELSE Numbered(g[i - 1], s[i])]
  <2>3. \A i \in 0..(k - 1) : f[i] = IF i = 0 THEN mapping ELSE Numbered(f[i - 1], s[i])
    BY <2>1 DEF Numbers
  <2> HIDE DEF v
  <2>4. ASSUME NEW i \in 0..k PROVE g[i] = IF i = 0 THEN mapping ELSE Numbered(g[i - 1], s[i])
    <3>1. CASE i = 0
      <4>1. i \in 0..(k - 1)
        BY <2>2, <3>1
      <4> QED
        BY <2>3, <3>1, <4>1
    <3>2. CASE i # 0 /\ i \in 0..(k - 1)
      <4>1. i - 1 \in 0..(k - 1) /\ i - 1 \in 0..k
        BY <2>2, <3>2
      <4>2. g[i] = f[i] /\ g[i - 1] = f[i - 1]
        BY <3>2, <4>1
      <4>3. f[i] = Numbered(f[i - 1], s[i])
        BY <2>3, <3>2
      <4> QED
        BY <3>2, <4>2, <4>3
    <3>3. CASE i = k
      <4>1. k - 1 \in 0..(k - 1) /\ k - 1 \in 0..k
        BY <2>2
      <4>2. g[k] = v /\ g[k - 1] = f[k - 1]
        BY <2>2, <4>1
      <4>3. g[k] = Numbered(g[k - 1], s[k])
        BY <4>2 DEF v
      <4> QED
        BY <2>2, <3>3, <4>3
    <3> QED
      BY <2>2, <3>1, <3>2, <3>3
  <2>5. g = h
    BY <2>4
  <2>6. Numbers(g, s, k)
    BY <2>5 DEF Numbers
  <2> HIDE DEF g, h
  <2>7. (k + 1) - 1 = k /\ k + 1 \in 1..(n + 1)
    OBVIOUS
  <2> QED
    BY <2>6, <2>7
<1> HIDE DEF Good
<1>3. 1..(n + 1) \subseteq Good
  <2>1. n + 1 \in Nat
    OBVIOUS
  <2> QED
    BY <1>1, <1>2, <2>1, UpTo
<1>4. n + 1 \in Good /\ (n + 1) - 1 = n
  BY <1>3
<1> QED
  BY <1>4 DEF Good

\* The dimensions module m has by now.
DimsOf(m) == {tags[m][i].idx : i \in {j \in DOMAIN tags[m] : IsDim(tags[m][j])}}

\* The InputTags of a module add its dimensions to the numbering.
LEMMA NumberingIs ==
    ASSUME config \in Configs, TypeInv, NEW m \in Modules, IsNumbering(mapping)
    PROVE  /\ IsNumbering(Numbering(m))
           /\ DOMAIN Numbering(m) = DOMAIN mapping \cup DimsOf(m)
           /\ \A d \in DOMAIN mapping : Numbering(m)[d] = mapping[d]
<1> DEFINE s == tags[m]
           n == Len(tags[m])
           f == CHOOSE g : g = [i \in 0..Len(tags[m]) |->
                                  IF i = 0 THEN mapping ELSE Numbered(g[i - 1], tags[m][i])]
<1>1. DOMAIN s = 1..Len(config.tags[m]) /\ Len(config.tags[m]) \in Nat
  BY ConfigIs DEF TypeInv
<1>2. n \in Nat /\ DOMAIN s = 1..n
  BY <1>1
<1>3. Numbering(m) = f[n]
  BY DEF Numbering
<1>4. Numbers(f, s, n)
  BY <1>2, NumbersExists DEF Numbers
<1> HIDE DEF f, n
<1>5. \A i \in 0..n : f[i] = IF i = 0 THEN mapping ELSE Numbered(f[i - 1], s[i])
  BY <1>4 DEF Numbers
<1> DEFINE upTo(k) == {s[i].idx : i \in {j \in 1..k : IsDim(s[j])}}
           ok(k) == /\ IsNumbering(f[k])
                    /\ DOMAIN f[k] = DOMAIN mapping \cup upTo(k)
                    /\ \A d \in DOMAIN mapping : f[k][d] = mapping[d]
           Good == {k \in 1..(n + 1) : ok(k - 1)}
<1>6. 1 \in Good
  <2>1. f[0] = mapping
    BY <1>2, <1>5
  <2>2. upTo(0) = {}
    OBVIOUS
  <2> HIDE DEF upTo
  <2>3. ok(0)
    BY <2>1, <2>2
  <2> HIDE DEF ok
  <2>4. 1 - 1 = 0 /\ 1 \in 1..(n + 1)
    BY <1>2
  <2> QED
    BY <2>3, <2>4
<1>7. ASSUME NEW k \in 1..((n + 1) - 1), k \in Good PROVE k + 1 \in Good
  <2>1. k \in 0..n /\ k # 0 /\ k - 1 \in 0..n /\ k \in 1..n /\ k \in Nat
    BY <1>2
  <2>2. f[k] = Numbered(f[k - 1], s[k])
    BY <1>5, <2>1
  <2>3. ok(k - 1)
    BY <1>7
  <2>4. upTo(k) = upTo(k - 1) \cup (IF IsDim(s[k]) THEN {s[k].idx} ELSE {})
    <3>1. 1..k = 1..(k - 1) \cup {k}
      BY <2>1
    <3> QED
      BY <3>1
  <2> HIDE DEF upTo, s
  <2>5. /\ IsNumbering(f[k])
        /\ DOMAIN f[k] = DOMAIN f[k - 1] \cup (IF IsDim(s[k]) THEN {s[k].idx} ELSE {})
        /\ \A d \in DOMAIN f[k - 1] : f[k][d] = f[k - 1][d]
    <3> DEFINE a == f[k - 1]
               t == s[k]
    <3>1. IsNumbering(a)
      BY <2>3
    <3>2. f[k] = Numbered(a, t)
      BY <2>2
    <3> HIDE DEF a, t
    <3>3. /\ IsNumbering(Numbered(a, t))
          /\ DOMAIN Numbered(a, t) = DOMAIN a \cup (IF IsDim(t) THEN {t.idx} ELSE {})
          /\ \A d \in DOMAIN a : Numbered(a, t)[d] = a[d]
      BY <3>1, NumberedIs
    <3> QED
      BY <3>2, <3>3 DEF a, t
  <2>6. ok(k)
    BY <2>3, <2>4, <2>5
  <2> HIDE DEF ok
  <2>7. (k + 1) - 1 = k /\ k + 1 \in 1..(n + 1)
    BY <1>2
  <2> QED
    BY <2>6, <2>7
<1> HIDE DEF Good
<1>8. 1..(n + 1) \subseteq Good
  <2>1. n + 1 \in Nat
    BY <1>2
  <2> QED
    BY <1>6, <1>7, <2>1, UpTo
<1>9. n + 1 \in Good /\ (n + 1) - 1 = n
  BY <1>2, <1>8
<1>10. ok(n)
  <2> HIDE DEF ok
  <2> QED
    BY <1>9 DEF Good
<1>11. upTo(n) = DimsOf(m)
  BY <1>2 DEF DimsOf
<1> HIDE DEF upTo
<1> QED
  BY <1>3, <1>10, <1>11

\* The members of Dims.
LEMMA InDims ==
    ASSUME NEW S, NEW T, NEW x
    PROVE  x \in Dims(S, T) <=> \E m \in S : \E i \in DOMAIN T[m] : IsDim(T[m][i]) /\ T[m][i].idx = x
<1>1. ASSUME NEW m \in S, NEW i \in DOMAIN T[m], IsDim(T[m][i]), T[m][i].idx = x
      PROVE  x \in Dims(S, T)
  <2>1. T[m][i] \in {u \in Range(T[m]) : IsDim(u)}
    BY <1>1 DEF Range
  <2>2. x \in {t.idx : t \in {u \in Range(T[m]) : IsDim(u)}}
    BY <1>1, <2>1
  <2> QED
    BY <2>2 DEF Dims
<1>2. ASSUME x \in Dims(S, T)
      PROVE  \E m \in S : \E i \in DOMAIN T[m] : IsDim(T[m][i]) /\ T[m][i].idx = x
  <2>1. PICK m \in S : x \in {t.idx : t \in {u \in Range(T[m]) : IsDim(u)}}
    BY <1>2 DEF Dims
  <2>2. PICK t \in Range(T[m]) : IsDim(t) /\ x = t.idx
    BY <2>1
  <2> QED
    BY <2>2 DEF Range
<1> QED
  BY <1>1, <1>2

ReadsDim(m) == \E i \in DOMAIN config.tags[m] : IsDim(config.tags[m][i])

\* A module that reads a dimension has no other InputTag to cuba.
OneEdgeFromCuba ==
    \A m \in Modules : \A i, j \in DOMAIN config.tags[m] :
        /\ IsDim(config.tags[m][i])
        /\ config.tags[m][j].mod = "cuba" /\ config.tags[m][j].par \in {"ps_points", "ps_weight"}
        => i = j

\* The dimensions of m are those its own are mapped to.
Rewritten(m) ==
    \A i \in DOMAIN config.tags[m] : IsDim(config.tags[m][i]) =>
        /\ config.tags[m][i].idx \in DOMAIN mapping
        /\ tags[m][i].idx = mapping[config.tags[m][i].idx]

\* While the targets are visited: those to visit have their dimensions still,
\* and are visited once; the others have their new ones.
Reindexing ==
    /\ IsNumbering(mapping)
    /\ DOMAIN mapping \subseteq Dims(vertices, config.tags)
    /\ \A m \in vertices : \A i \in DOMAIN config.tags[m] : IsDim(tags[m][i]) <=> IsDim(config.tags[m][i])
    /\ \A m \in vertices : ReadsDim(m) =>
          IF \E k \in DOMAIN queue : queue[k] = m THEN tags[m] = config.tags[m] ELSE Rewritten(m)
    /\ \A i, j \in DOMAIN queue : queue[i] = queue[j] /\ ReadsDim(queue[i]) => i = j

Contiguous ==
    /\ Dims(vertices, tags) = 0..(Cardinality(Dims(vertices, config.tags)) - 1)
    /\ \A m, n \in vertices : \A i \in DOMAIN tags[m], j \in DOMAIN tags[n] :
          IsDim(config.tags[m][i]) /\ IsDim(config.tags[n][j]) =>
              (tags[m][i].idx = tags[n][j].idx
                  <=> config.tags[m][i].idx = config.tags[n][j].idx)

DimInv ==
    /\ phase \in Early \cup {"count"} => tags = config.tags /\ mapping = Empty
    /\ phase = "reindex" => Reindexing
    /\ phase \in Declaring => Contiguous

\* Every module that reads a dimension is a target, once.
LEMMA StartReindexing ==
    ASSUME config \in Configs, PInv, TypeInv, OneEdgeFromCuba, tags = config.tags, mapping = Empty
    PROVE  /\ \A m \in vertices : ReadsDim(m) => \E k \in DOMAIN CubaTargets : CubaTargets[k] = m
           /\ \A i, j \in DOMAIN CubaTargets : CubaTargets[i] = CubaTargets[j] /\ ReadsDim(CubaTargets[i]) => i = j
           /\ IsNumbering(mapping) /\ DOMAIN mapping = {}
<1> DEFINE A == TargetsOf("ps_points")
           B == TargetsOf("ps_weight")
<1>1. /\ A \in Seq(vertices)
      /\ \A m \in vertices : Places(m, "ps_points") # {} => \E i \in DOMAIN A : A[i] = m
      /\ \A i, j \in DOMAIN A : (\A a, b \in Places(A[i], "ps_points") : a = b) /\ A[i] = A[j] => i = j
  BY TargetsAre
<1>2. B \in Seq(vertices) /\ \A i \in DOMAIN B : Places(B[i], "ps_weight") # {}
  BY TargetsAre
<1>3. vertices \subseteq Modules
  BY DEF PInv
<1>4. ASSUME NEW m \in vertices, ReadsDim(m)
      PROVE  /\ Places(m, "ps_points") # {} /\ \A a, b \in Places(m, "ps_points") : a = b
             /\ Places(m, "ps_weight") = {}
  <2>1. PICK i \in DOMAIN config.tags[m] : IsDim(config.tags[m][i])
    BY <1>4 DEF ReadsDim
  <2>2. \A par \in {"ps_points", "ps_weight"} : \A a \in Places(m, par) : a = i
    BY <1>3, <2>1 DEF OneEdgeFromCuba, Places
  <2>3. i \in Places(m, "ps_points") /\ i \notin Places(m, "ps_weight")
    BY <2>1 DEF Places, IsDim
  <2> QED
    BY <2>2, <2>3
<1> HIDE DEF A, B
<1>5. CubaTargets = A \o B
  BY DEF CubaTargets, A, B
<1> DEFINE q == A \o B
           n == Len(A)
<1>6. /\ n \in Nat /\ DOMAIN A = 1..n /\ DOMAIN q = 1..(n + Len(B)) /\ Len(B) \in Nat /\ DOMAIN B = 1..Len(B)
      /\ \A i \in 1..n : q[i] = A[i]
      /\ \A i \in DOMAIN q : i \notin 1..n => i - n \in DOMAIN B /\ q[i] = B[i - n]
      /\ q \in Seq(vertices)
  BY <1>1, <1>2
<1> HIDE DEF q, n
<1>7. ASSUME NEW m \in vertices, ReadsDim(m)
      PROVE  \E k \in DOMAIN q : q[k] = m
  <2>1. PICK i \in DOMAIN A : A[i] = m
    BY <1>1, <1>4, <1>7
  <2> QED
    BY <1>6, <2>1
<1>8. ASSUME NEW i \in DOMAIN q, NEW j \in DOMAIN q, q[i] = q[j], ReadsDim(q[i])
      PROVE  i = j
  <2>1. q[i] \in vertices
    BY <1>6
  <2>2. \A a \in DOMAIN B : B[a] # q[i]
    BY <1>2, <1>4, <1>8, <2>1
  <2>3. i \in 1..n /\ j \in 1..n
    BY <1>6, <1>8, <2>2
  <2>4. A[i] = A[j] /\ A[i] = q[i] /\ i \in DOMAIN A /\ j \in DOMAIN A
    BY <1>6, <1>8, <2>3
  <2>5. \A a, b \in Places(A[i], "ps_points") : a = b
    BY <1>4, <1>8, <2>1, <2>4
  <2> QED
    BY <1>1, <2>4, <2>5
<1>9. IsNumbering(mapping) /\ DOMAIN mapping = {}
  <2>1. DOMAIN mapping = {}
    BY DEF Empty
  <2>2. Cardinality({}) = 0 /\ IsFiniteSet({}) /\ 0..(0 - 1) = {}
    BY FS_EmptySet
  <2> QED
    BY <2>1, <2>2 DEF IsNumbering
<1> QED
  BY <1>5, <1>7, <1>8, <1>9 DEF q

\* A target that reads a dimension is rewritten from what it declares; one that
\* reads none stays as it is.
LEMMA ReindexKeeps ==
    ASSUME config \in Configs, PInv, TypeInv, OneEdgeFromCuba, Reindexing, ReindexTarget, [Next]_vars
    PROVE  Reindexing'
<1> DEFINE x == Head(queue)
<1>1. /\ queue # <<>> /\ queue' = Tail(queue) /\ queue \in Seq(vertices) /\ x \in vertices
      /\ \A m \in Modules : m # x => tags'[m] = tags[m]
      /\ mapping' = Numbering(x)
      /\ config' = config /\ vertices' = vertices
  BY ReindexType DEF TypeInv, graph
<1>2. vertices \subseteq Modules /\ x \in Modules
  BY <1>1 DEF PInv
<1>3. \A i \in DOMAIN config.tags[x] : tags'[x][i] = Reindexed(mapping', tags[x][i])
  BY <1>2, ReindexType DEF TypeInv
<1>4. /\ IsNumbering(mapping')
      /\ DOMAIN mapping' = DOMAIN mapping \cup DimsOf(x)
      /\ \A d \in DOMAIN mapping : mapping'[d] = mapping[d]
  BY <1>1, <1>2, NumberingIs DEF Reindexing
<1>5. DOMAIN tags[x] = DOMAIN config.tags[x]
  BY <1>2 DEF TypeInv
<1>6. /\ Tail(queue) \in Seq(vertices)
      /\ \A i \in DOMAIN Tail(queue) : i + 1 \in DOMAIN queue /\ Tail(queue)[i] = queue[i + 1] /\ i \in Nat /\ i # 0
      /\ \A i \in DOMAIN queue : i # 1 => i - 1 \in DOMAIN Tail(queue) /\ Tail(queue)[i - 1] = queue[i]
      /\ x = queue[1] /\ 1 \in DOMAIN queue
  BY <1>1, Tailed
<1>7. /\ \A m \in vertices : \A i \in DOMAIN config.tags[m] : IsDim(tags[m][i]) <=> IsDim(config.tags[m][i])
      /\ \A m \in vertices : ReadsDim(m) =>
            IF \E k \in DOMAIN queue : queue[k] = m THEN tags[m] = config.tags[m] ELSE Rewritten(m)
      /\ \A i, j \in DOMAIN queue : queue[i] = queue[j] /\ ReadsDim(queue[i]) => i = j
      /\ DOMAIN mapping \subseteq Dims(vertices, config.tags)
  BY DEF Reindexing
<1> HIDE DEF x
<1>8. ReadsDim(x) => tags[x] = config.tags[x]
  BY <1>1, <1>6, <1>7
<1>9. ~ReadsDim(x) => DimsOf(x) = {} /\ \A i \in DOMAIN config.tags[x] : tags'[x][i] = tags[x][i]
  <2> SUFFICES ASSUME ~ReadsDim(x)
               PROVE  DimsOf(x) = {} /\ \A i \in DOMAIN config.tags[x] : tags'[x][i] = tags[x][i]
    OBVIOUS
  <2>1. \A i \in DOMAIN config.tags[x] : ~IsDim(tags[x][i])
    BY <1>1, <1>7 DEF ReadsDim
  <2>2. DimsOf(x) = {}
    BY <1>5, <2>1 DEF DimsOf
  <2>3. \A i \in DOMAIN config.tags[x] : tags'[x][i] = tags[x][i]
    BY <1>3, <2>1 DEF Reindexed
  <2> QED
    BY <2>2, <2>3
\* The InputTags of x are new.
<1>10. ASSUME ReadsDim(x), NEW i \in DOMAIN config.tags[x]
       PROVE  LET t == config.tags[x][i] IN
              /\ IsDim(tags'[x][i]) <=> IsDim(t)
              /\ IsDim(t) => tags'[x][i].idx = mapping'[t.idx] /\ t.idx \in DOMAIN mapping'
  <2> DEFINE t == config.tags[x][i]
  <2>1. tags[x][i] = t
    BY <1>8, <1>10
  <2>2. tags'[x][i] = Reindexed(mapping', t)
    BY <1>3, <1>10, <2>1
  <2>3. t = [mod |-> t.mod, par |-> t.par, idx |-> t.idx]
    BY <1>2, <1>10, ConfigIs
  <2>4. IsDim(t) => t.idx \in DimsOf(x)
    BY <1>5, <1>10, <2>1 DEF DimsOf
  <2> HIDE DEF t
  <2>5. IsDim(t) => IsDim(tags'[x][i]) /\ tags'[x][i].idx = mapping'[t.idx]
    <3> SUFFICES ASSUME IsDim(t) PROVE IsDim(tags'[x][i]) /\ tags'[x][i].idx = mapping'[t.idx]
      OBVIOUS
    <3> DEFINE v == mapping'[t.idx]
    <3>1. tags'[x][i] = [t EXCEPT !.idx = v]
      BY <2>2 DEF Reindexed
    <3> HIDE DEF v
    <3>2. /\ [t EXCEPT !.idx = v].mod = t.mod /\ [t EXCEPT !.idx = v].par = t.par
          /\ [t EXCEPT !.idx = v].idx = v
      BY <2>3
    <3> QED
      BY <3>1, <3>2 DEF IsDim, v
  <2>6. ~IsDim(t) => tags'[x][i] = t
    BY <2>2 DEF Reindexed
  <2> QED
    BY <1>4, <2>4, <2>5, <2>6 DEF t
<1>11. \A m \in vertices : \A i \in DOMAIN config.tags[m] : IsDim(tags'[m][i]) <=> IsDim(config.tags[m][i])
  <2>1. \A i \in DOMAIN config.tags[x] : IsDim(tags'[x][i]) <=> IsDim(config.tags[x][i])
    BY <1>1, <1>7, <1>9, <1>10
  <2> QED
    BY <1>1, <1>2, <1>7, <2>1
<1>12. DOMAIN mapping' \subseteq Dims(vertices, config.tags)
  <2>1. DimsOf(x) \subseteq Dims(vertices, config.tags)
    <3>1. CASE ReadsDim(x)
      <4>1. \A d \in DimsOf(x) : \E i \in DOMAIN config.tags[x] : IsDim(config.tags[x][i]) /\ config.tags[x][i].idx = d
        BY <1>8, <3>1 DEF DimsOf
      <4> QED
        BY <1>1, <4>1, InDims
    <3>2. CASE ~ReadsDim(x)
      BY <1>9, <3>2
    <3> QED
      BY <3>1, <3>2
  <2> QED
    BY <1>4, <1>7, <2>1
<1>13. ASSUME NEW m \in vertices, ReadsDim(m)
       PROVE  IF \E k \in DOMAIN Tail(queue) : Tail(queue)[k] = m
              THEN tags'[m] = config.tags[m]
              ELSE \A i \in DOMAIN config.tags[m] : IsDim(config.tags[m][i]) =>
                      /\ config.tags[m][i].idx \in DOMAIN mapping'
                      /\ tags'[m][i].idx = mapping'[config.tags[m][i].idx]
  <2>1. CASE m = x
    <3>1. ~\E k \in DOMAIN Tail(queue) : Tail(queue)[k] = x
      <4> SUFFICES ASSUME NEW k \in DOMAIN Tail(queue), Tail(queue)[k] = x PROVE FALSE
        OBVIOUS
      <4>1. k + 1 \in DOMAIN queue /\ queue[k + 1] = queue[1] /\ k + 1 # 1 /\ queue[1] = x
        BY <1>6
      <4> QED
        BY <1>6, <1>7, <1>13, <2>1, <4>1
    <3> QED
      BY <1>10, <1>13, <2>1, <3>1
  <2>2. CASE m # x /\ \E k \in DOMAIN Tail(queue) : Tail(queue)[k] = m
    <3>1. \E k \in DOMAIN queue : queue[k] = m
      BY <1>6, <2>2
    <3> QED
      BY <1>1, <1>2, <1>7, <1>13, <2>2, <3>1
  <2>3. CASE m # x /\ ~\E k \in DOMAIN Tail(queue) : Tail(queue)[k] = m
    <3>1. ~\E k \in DOMAIN queue : queue[k] = m
      BY <1>6, <2>3
    <3>2. Rewritten(m)
      BY <1>7, <1>13, <3>1
    <3>3. tags'[m] = tags[m]
      BY <1>1, <1>2, <2>3
    <3> QED
      BY <1>4, <2>3, <3>2, <3>3 DEF Rewritten
  <2> QED
    BY <2>1, <2>2, <2>3
<1>14. \A i, j \in DOMAIN Tail(queue) : Tail(queue)[i] = Tail(queue)[j] /\ ReadsDim(Tail(queue)[i]) => i = j
  <2> SUFFICES ASSUME NEW i \in DOMAIN Tail(queue), NEW j \in DOMAIN Tail(queue),
                      Tail(queue)[i] = Tail(queue)[j], ReadsDim(Tail(queue)[i])
               PROVE  i = j
    OBVIOUS
  <2>1. /\ i + 1 \in DOMAIN queue /\ j + 1 \in DOMAIN queue /\ i \in Nat /\ j \in Nat
        /\ Tail(queue)[i] = queue[i + 1] /\ Tail(queue)[j] = queue[j + 1]
    BY <1>6
  <2>2. i + 1 = j + 1
    BY <1>7, <2>1
  <2> QED
    BY <2>1, <2>2
<1>15. \A m : ReadsDim(m)' <=> ReadsDim(m)
  BY <1>1 DEF ReadsDim
<1>16. /\ IsNumbering(mapping)'
       /\ (DOMAIN mapping \subseteq Dims(vertices, config.tags))'
  BY <1>1, <1>4, <1>12
<1>17. \A m \in vertices' : ReadsDim(m)' =>
          IF \E k \in DOMAIN queue' : queue'[k] = m THEN tags'[m] = config'.tags[m] ELSE Rewritten(m)'
  BY <1>1, <1>13, <1>15 DEF Rewritten
<1>18. \A i, j \in DOMAIN queue' : queue'[i] = queue'[j] /\ ReadsDim(queue[i])' => i = j
  BY <1>1, <1>14 DEF ReadsDim
<1> QED
  BY <1>1, <1>11, <1>16, <1>17, <1>18 DEF Reindexing

\* When all targets were visited the dimensions are 0..n-1.
LEMMA StopReindexing ==
    ASSUME PInv, TypeInv, Reindexing, queue = <<>>
    PROVE  Contiguous
<1> DEFINE D == Dims(vertices, config.tags)
           n == Cardinality(DOMAIN mapping)
<1>1. \A m \in vertices : DOMAIN tags[m] = DOMAIN config.tags[m]
  BY DEF PInv, TypeInv
<1>2. \A m \in vertices : \A i \in DOMAIN config.tags[m] : IsDim(config.tags[m][i]) =>
         /\ config.tags[m][i].idx \in DOMAIN mapping
         /\ tags[m][i].idx = mapping[config.tags[m][i].idx]
         /\ IsDim(tags[m][i])
  <2> SUFFICES ASSUME NEW m \in vertices, NEW i \in DOMAIN config.tags[m], IsDim(config.tags[m][i])
               PROVE  /\ config.tags[m][i].idx \in DOMAIN mapping
                      /\ tags[m][i].idx = mapping[config.tags[m][i].idx]
                      /\ IsDim(tags[m][i])
    OBVIOUS
  <2>1. ReadsDim(m)
    BY DEF ReadsDim
  <2>2. DOMAIN queue = {}
    OBVIOUS
  <2>3. Rewritten(m)
    BY <2>1, <2>2 DEF Reindexing
  <2> QED
    BY <2>3 DEF Rewritten, Reindexing
<1>3. \A m \in vertices : \A i \in DOMAIN tags[m] : IsDim(tags[m][i]) => IsDim(config.tags[m][i])
  BY <1>1 DEF Reindexing
<1>4. /\ \A d \in DOMAIN mapping : mapping[d] \in 0..(n - 1)
      /\ \A k \in 0..(n - 1) : \E d \in DOMAIN mapping : mapping[d] = k
      /\ \A d, e \in DOMAIN mapping : mapping[d] = mapping[e] => d = e
      /\ DOMAIN mapping \subseteq D
  BY DEF Reindexing, IsNumbering
<1>5. D = DOMAIN mapping
  <2>1. ASSUME NEW d \in D PROVE d \in DOMAIN mapping
    <3>1. \E m \in vertices : \E i \in DOMAIN config.tags[m] : IsDim(config.tags[m][i]) /\ config.tags[m][i].idx = d
      BY <2>1, InDims
    <3> QED
      BY <1>2, <3>1
  <2> QED
    BY <1>4, <2>1
<1> HIDE DEF D, n
<1>6. ASSUME NEW k \in Dims(vertices, tags) PROVE k \in 0..(n - 1)
  <2>1. PICK m \in vertices : \E i \in DOMAIN tags[m] : IsDim(tags[m][i]) /\ tags[m][i].idx = k
    BY <1>6, InDims
  <2>2. PICK i \in DOMAIN tags[m] : IsDim(tags[m][i]) /\ tags[m][i].idx = k
    BY <2>1
  <2>3. i \in DOMAIN config.tags[m] /\ IsDim(config.tags[m][i])
    BY <1>1, <1>3, <2>2
  <2> QED
    BY <1>2, <1>4, <2>2, <2>3
<1>7. ASSUME NEW k \in 0..(n - 1) PROVE k \in Dims(vertices, tags)
  <2>1. PICK d \in DOMAIN mapping : mapping[d] = k
    BY <1>4
  <2>2. \E m \in vertices : \E i \in DOMAIN config.tags[m] : IsDim(config.tags[m][i]) /\ config.tags[m][i].idx = d
    BY <1>5, <2>1, InDims DEF D
  <2>3. \E m \in vertices : \E i \in DOMAIN tags[m] : IsDim(tags[m][i]) /\ tags[m][i].idx = k
    BY <1>1, <1>2, <2>1, <2>2
  <2> QED
    BY <2>3, InDims
<1>8. Dims(vertices, tags) = 0..(n - 1)
  BY <1>6, <1>7
<1>9. \A m, k \in vertices : \A i \in DOMAIN tags[m], j \in DOMAIN tags[k] :
         IsDim(config.tags[m][i]) /\ IsDim(config.tags[k][j]) =>
             (tags[m][i].idx = tags[k][j].idx <=> config.tags[m][i].idx = config.tags[k][j].idx)
  BY <1>1, <1>2, <1>4
<1> QED
  BY <1>5, <1>8, <1>9 DEF Contiguous, D, n

\* As many dimensions as cuba is told, all of them below that number.
LEMMA NoReindexing ==
    ASSUME config \in Configs, PInv, tags = config.tags, ~(Cardinality(Dims(vertices, tags)) < config.ndim)
    PROVE  Contiguous
<1> DEFINE D == Dims(vertices, config.tags)
           N == config.ndim
           top == Max({N, 1})
<1>1. N \in Nat /\ ~(Cardinality(D) < N)
  BY ConfigIs
<1>2. ASSUME NEW d \in D PROVE d \in Nat /\ d < top
  <2>1. PICK m \in vertices : \E i \in DOMAIN config.tags[m] : IsDim(config.tags[m][i]) /\ config.tags[m][i].idx = d
    BY <1>2, InDims
  <2>2. m \in Modules
    BY DEF PInv
  <2>3. PICK i \in DOMAIN config.tags[m] : config.tags[m][i].idx = d
    BY <2>1
  <2> QED
    BY <2>2, <2>3, ConfigIs
<1> HIDE DEF D, N
<1>3. top = IF N = 0 THEN 1 ELSE N
  <2>1. \E x \in {N, 1} : \A y \in {N, 1} : x >= y
    BY <1>1
  <2>2. top \in {N, 1} /\ \A y \in {N, 1} : top >= y
    BY <2>1 DEF Max
  <2> QED
    BY <1>1, <2>2
<1> HIDE DEF top
<1>4. D \in SUBSET (0..(top - 1))
  BY <1>1, <1>2, <1>3
<1>5. top \in Nat /\ IsFiniteSet(0..(top - 1)) /\ Cardinality(0..(top - 1)) = top
  <2>1. top \in Nat /\ top # 0 /\ 0 \in Int /\ top - 1 \in Int
    BY <1>1, <1>3
  <2> QED
    BY <2>1, FS_Interval
<1>6. /\ IsFiniteSet(D) /\ Cardinality(D) \in Nat /\ Cardinality(D) <= top
      /\ Cardinality(D) = top => D = 0..(top - 1)
  <2>1. IsFiniteSet(D) /\ Cardinality(D) <= top /\ (top = Cardinality(D) => 0..(top - 1) = D)
    BY <1>4, <1>5, FS_Subset
  <2> QED
    BY <2>1, FS_CardinalityType
<1>7. D = 0..(Cardinality(D) - 1)
  <2>1. CASE Cardinality(D) = top
    BY <1>6, <2>1
  <2>2. CASE Cardinality(D) # top
    <3>1. Cardinality(D) = 0
      BY <1>1, <1>3, <1>6, <2>2
    <3>2. D = {} /\ 0..(0 - 1) = {}
      BY <1>6, <3>1, FS_EmptySet
    <3> QED
      BY <3>1, <3>2
  <2> QED
    BY <2>1, <2>2
<1> QED
  BY <1>7 DEF Contiguous, D

\* Every step keeps DimInv.
LEMMA DimNext ==
    ASSUME config \in Configs, PInv, TypeInv, OneEdgeFromCuba, DimInv, [Next]_vars
    PROVE  DimInv'
<1>0. config' = config
  BY ConfigKept
<1>1. ASSUME phase \in Early \cup {"count"}, phase' \in Early \cup {"count"} \cup {"cyclic", "crashed", "unresolved", "incomplete"},
             UNCHANGED <<tags, mapping>>
      PROVE  DimInv'
  BY <1>0, <1>1 DEF DimInv, Early, Declaring, Empty
<1>2. ASSUME Contiguous, UNCHANGED <<tags, vertices>>, phase' \in Declaring
      PROVE  DimInv'
  <2>1. Contiguous'
    BY <1>0, <1>2 DEF Contiguous
  <2> QED
    BY <1>2, <2>1 DEF DimInv, Early, Declaring
<1>3. CASE AddEdges \/ LinksDone \/ PruneDone \/ RejectCycle \/ SortDone \/ Validate
           \/ \E x \in Modules : LinkLooper(x) \/ RecurseForEver(x) \/ PruneVertex(x) \/ SortVertex(x)
  BY <1>1, <1>3 DEF AddEdges, LinksDone, PruneDone, RejectCycle, SortDone, Validate, LinkLooper,
        RecurseForEver, PruneVertex, SortVertex, Early
<1>4. CASE CountDimensions
  <2>1. /\ phase = "count" /\ UNCHANGED <<config, tags, vertices, mapping>>
        /\ tags = config.tags /\ mapping = Empty
    BY <1>4 DEF CountDimensions, graph, DimInv
  <2>2. CASE Cardinality(Dims(vertices, tags)) < config.ndim
    <3>1. phase' = "reindex" /\ queue' = CubaTargets
      BY <1>4, <2>2 DEF CountDimensions
    <3>2. /\ \A m \in vertices : ReadsDim(m) => \E k \in DOMAIN queue' : queue'[k] = m
          /\ \A i, j \in DOMAIN queue' : queue'[i] = queue'[j] /\ ReadsDim(queue'[i]) => i = j
          /\ IsNumbering(mapping) /\ DOMAIN mapping = {}
      BY <2>1, <3>1, StartReindexing
    <3>3. \A m : ReadsDim(m)' <=> ReadsDim(m)
      BY <1>0 DEF ReadsDim
    <3>4. IsNumbering(mapping)' /\ DOMAIN mapping' = {}
      BY <2>1, <3>2 DEF IsNumbering
    <3>5. \A i, j \in DOMAIN queue' : queue'[i] = queue'[j] /\ ReadsDim(queue[i])' => i = j
      BY <1>0, <3>2 DEF ReadsDim
    <3>6. Reindexing'
      BY <2>1, <3>2, <3>3, <3>4, <3>5 DEF Reindexing
    <3> QED
      BY <3>1, <3>6 DEF DimInv, Early, Declaring
  <2>3. CASE ~(Cardinality(Dims(vertices, tags)) < config.ndim)
    <3>1. phase' = "declare"
      BY <1>4, <2>3 DEF CountDimensions
    <3> QED
      BY <1>2, <2>1, <2>3, <3>1, NoReindexing DEF Declaring
  <2> QED
    BY <2>2, <2>3
<1>5. CASE ReindexTarget
  <2>1. phase = "reindex" /\ phase' = "reindex"
    BY <1>5 DEF ReindexTarget
  <2>2. Reindexing'
    BY <1>5, <2>1, ReindexKeeps DEF DimInv
  <2> QED
    BY <2>1, <2>2 DEF DimInv, Early, Declaring
<1>6. CASE ReindexDone
  <2>1. phase = "reindex" /\ queue = <<>> /\ phase' = "declare" /\ UNCHANGED <<tags, vertices>>
    BY <1>6 DEF ReindexDone, graph
  <2> QED
    BY <1>2, <2>1, StopReindexing DEF DimInv, Declaring
<1>7. CASE Declare \/ DeclareDone \/ Instantiate \/ InstantiateFails \/ InstantiateDone
  BY <1>2, <1>7 DEF Declare, DeclareDone, Instantiate, InstantiateFails, InstantiateDone, graph, built, DimInv, Declaring
<1>8. CASE UNCHANGED vars
  <2>1. phase' = phase /\ UNCHANGED <<config, tags, vertices, mapping, queue>>
    BY <1>8 DEF vars
  <2>2. Reindexing' <=> Reindexing
    BY <2>1 DEF Reindexing, ReadsDim, Rewritten, IsNumbering
  <2>3. Contiguous' <=> Contiguous
    BY <2>1 DEF Contiguous
  <2> QED
    BY <2>1, <2>2, <2>3 DEF DimInv
<1> QED
  BY <1>3, <1>4, <1>5, <1>6, <1>7, <1>8 DEF Next, Step

\* When a module that reads a dimension has no other InputTag to cuba, the
\* dimensions of the graph are the first ones, without a gap, and those that
\* were distinct stay so: the targets of cuba's edges are rewritten once each,
\* from what they declare.
THEOREM DimensionsAreRenumbered == Spec => [](OneEdgeFromCuba => DimensionsAreContiguous)
<1> DEFINE Inv == OneEdgeFromCuba => DimInv
<1>1. DimInv => DimensionsAreContiguous
  BY DEF DimInv, DimensionsAreContiguous, Contiguous, Declaring
<1>2. Init => Inv
  BY DEF Init, DimInv, Early, Declaring
<1>3. GInv /\ TypeInv /\ Inv /\ [Next]_vars => Inv'
  <2> SUFFICES ASSUME GInv, TypeInv, Inv, [Next]_vars, OneEdgeFromCuba' PROVE DimInv'
    OBVIOUS
  <2>1. config' = config
    BY ConfigKept
  <2>2. OneEdgeFromCuba
    BY <2>1 DEF OneEdgeFromCuba, Modules
  <2> QED
    BY <2>2, DimNext DEF GInv
<1> HIDE DEF Inv
<1>4. Spec => [](GInv /\ TypeInv /\ Inv)
  BY <1>2, <1>3, AlwaysTypeInv, PTL DEF Spec
<1>5. Inv => (OneEdgeFromCuba => DimensionsAreContiguous)
  BY <1>1 DEF Inv
<1> QED
  BY <1>4, <1>5, PTL

-----------------------------------------------------------------------------
(* Paths of the graph                                                      *)

\* Connected, of any graph.
Reaches(V, E) ==
    LET Closed == {S \in SUBSET V : \A e \in E : e[1] \in S => e[2] \in S}
    IN  {x \in V \X V : \A S \in Closed : x[1] \in S => x[2] \in S}

\* Reaches, with its sets quantified.
LEMMA ReachesIs ==
    ASSUME NEW V, NEW E, NEW a, NEW b
    PROVE  <<a, b>> \in Reaches(V, E) <=>
              /\ a \in V /\ b \in V
              /\ \A S \in SUBSET V : (\A e \in E : e[1] \in S => e[2] \in S) => (a \in S => b \in S)
BY DEF Reaches

\* Reaches has the edges,
LEMMA ReachesEdge ==
    ASSUME NEW V, NEW E, NEW a \in V, NEW b \in V, <<a, b>> \in E
    PROVE  <<a, b>> \in Reaches(V, E)
BY ReachesIs

\* is transitive,
LEMMA ReachesOn ==
    ASSUME NEW V, NEW E, NEW a, NEW b, NEW c, <<a, b>> \in Reaches(V, E), <<b, c>> \in Reaches(V, E)
    PROVE  <<a, c>> \in Reaches(V, E)
BY ReachesIs

\* and grows with the edges.
LEMMA ReachesMore ==
    ASSUME NEW V, NEW E, NEW F, E \subseteq F, NEW a, NEW b, <<a, b>> \in Reaches(V, E)
    PROVE  <<a, b>> \in Reaches(V, F)
BY ReachesIs

\* No path between two vertices goes through one without out-edges.
LEMMA ReachesWithout ==
    ASSUME NEW V, NEW E, NEW v \in V, \A e \in E : e[1] # v,
           NEW a \in V \ {v}, NEW b \in V \ {v}, <<a, b>> \in Reaches(V, E)
    PROVE  <<a, b>> \in Reaches(V \ {v}, {e \in E : e[1] # v /\ e[2] # v})
<1> DEFINE F == {e \in E : e[1] # v /\ e[2] # v}
<1>1. ASSUME NEW S \in SUBSET (V \ {v}), \A e \in F : e[1] \in S => e[2] \in S, a \in S
      PROVE  b \in S
  <2> DEFINE U == S \cup {v}
  <2>1. U \in SUBSET V /\ a \in U
    BY <1>1
  <2>2. ASSUME NEW e \in E, e[1] \in U PROVE e[2] \in U
    <3>1. e[1] # v /\ e[1] \in S
      BY <2>2
    <3>2. e[2] = v \/ e \in F
      BY <3>1
    <3> QED
      BY <1>1, <3>1, <3>2
  <2> HIDE DEF U
  <2>3. b \in U
    BY <2>1, <2>2, ReachesIs
  <2> QED
    BY <2>3 DEF U
<1> HIDE DEF F
<1>2. a \in V \ {v} /\ b \in V \ {v}
  OBVIOUS
<1>3. <<a, b>> \in Reaches(V \ {v}, F)
  BY <1>1, <1>2, ReachesIs
<1> QED
  BY <1>3 DEF F

\* What no edge makes smaller is not smaller along a path.
LEMMA ReachesUp ==
    ASSUME NEW V, NEW E, NEW rank \in [V -> Nat], \A e \in E : e[2] \in V /\ rank[e[1]] <= rank[e[2]],
           NEW a, NEW b, <<a, b>> \in Reaches(V, E)
    PROVE  rank[a] <= rank[b]
<1> DEFINE S == {v \in V : rank[a] <= rank[v]}
<1>1. a \in V /\ b \in V
  BY ReachesIs
<1>2. S \in SUBSET V /\ a \in S
  BY <1>1
<1>3. ASSUME NEW e \in E, e[1] \in S PROVE e[2] \in S
  <2>1. e[1] \in V /\ e[2] \in V /\ rank[e[1]] \in Nat /\ rank[e[2]] \in Nat /\ rank[a] \in Nat
    BY <1>1, <1>3
  <2> QED
    BY <1>3, <2>1
<1> HIDE DEF S
<1>4. b \in S
  BY <1>2, <1>3, ReachesIs
<1> QED
  BY <1>4 DEF S

-----------------------------------------------------------------------------
(* The links of the Loopers                                                *)

\* The Loopers the tests have: one for each path, with no module in two paths,
\* no Looper in a path, and no module that reads a Looper outside its path.
SimpleLoopers ==
    /\ PathsAreDisjoint
    /\ PathsAreGiven
    /\ \A l, k \in Loopers : config.pathOf[l] = config.pathOf[k] => l = k
    /\ \A l, k \in Loopers : l \notin Elements(k)
    /\ \A m \in Modules : \A l \in Reads(m) \cap Loopers : m \in Elements(l)

\* A Looper and its path have one rank, a module is not below what it reads, and
\* one in a path is above what it reads outside.
IsRank(rank) ==
    /\ \A l \in Loopers : \A m \in Elements(l) \cap Modules : rank[m] = rank[l]
    /\ \A m \in Modules : \A d \in Reads(m) : rank[d] <= rank[m]
    /\ \A l \in Loopers : \A m \in Elements(l) \cap Modules :
          \A d \in Reads(m) \ {l} : d \in Elements(l) \/ rank[d] < rank[m]

\* The Loopers, with what is in their paths, can be called after what they need.
Schedulable == \E rank \in [Modules -> Nat] : IsRank(rank)

\* Looper l comes after all that its path reads outside.
SourcesAreLinked(l) ==
    \A m \in Elements(l) \cap vertices : \A d \in Reads(m) \ {l} :
        d \in Elements(l) \/ <<d, l>> \in Reaches(vertices, edges)

LooperEdges == \A l \in Loopers : \A e \in edges : e[1] = l => e[2] \in Elements(l)
RankedEdges == \A rank \in [Modules -> Nat] : IsRank(rank) => \A e \in edges : rank[e[1]] <= rank[e[2]]

SourcesInv ==
    /\ LooperEdges
    /\ RankedEdges
    /\ phase = "links" => \A l \in Loopers \ unvisited : SourcesAreLinked(l)
    /\ phase \notin {"edges", "links", "crashed"} => \A l \in Loopers : SourcesAreLinked(l)

\* A module is in the path of one Looper at most.
LEMMA OneLooper ==
    ASSUME config \in Configs, SimpleLoopers, NEW m \in Modules, NEW l \in Loopers, NEW k \in Loopers,
           m \in Elements(l), m \in Elements(k)
    PROVE  l = k
<1>1. PathFor(m) = config.pathOf[l] /\ PathFor(m) = config.pathOf[k]
  BY PathOfElement DEF SimpleLoopers
<1> QED
  BY <1>1 DEF SimpleLoopers

\* Linking Looper l: the modules its path reads outside are connected to it
\* afterwards, since a path from l to one of them would make a circle.
LEMMA LinkSources ==
    ASSUME config \in Configs, SimpleLoopers, Schedulable, PInv, LinkInv, SourcesInv,
           NEW l, LinkLooper(l), [Next]_vars
    PROVE  SourcesInv'
<1> DEFINE E == WithPathLinks(l)
<1>1. /\ phase = "links" /\ phase' = "links" /\ l \in unvisited /\ unvisited' = unvisited \ {l}
      /\ vertices' = vertices /\ \E new \in Linkable(l, E) : edges' = E \cup {<<s, l>> : s \in new}
  BY DEF LinkLooper
<1>2. PICK new \in Linkable(l, E) : edges' = E \cup {<<s, l>> : s \in new}
  BY <1>1
<1>3. /\ config' = config /\ Modules' = Modules /\ Loopers' = Loopers
      /\ \A k : Elements(k)' = Elements(k)
      /\ \A m : Reads(m)' = Reads(m)
  BY SameConfig
<1>4. l \in Loopers /\ vertices = Modules /\ Loopers \subseteq Modules /\ edges \subseteq vertices \X vertices
  BY <1>1 DEF LinkInv, Loopers
<1>5. E = edges \cup {<<l, m>> : m \in Elements(l) \cap vertices}
  BY DEF WithPathLinks
<1> HIDE DEF E
<1>6. E \subseteq vertices \X vertices /\ edges \subseteq E /\ E \subseteq edges'
  BY <1>2, <1>4, <1>5
\* E keeps what was known of the edges.
<1>7. \A k \in Loopers : \A e \in E : e[1] = k => e[2] \in Elements(k)
  <2>1. \A k \in Loopers : \A e \in edges : e[1] = k => e[2] \in Elements(k)
    BY DEF SourcesInv, LooperEdges
  <2> QED
    BY <1>5, <2>1
<1>8. ASSUME NEW rank \in [Modules -> Nat], IsRank(rank), NEW e \in E
      PROVE  rank[e[1]] <= rank[e[2]]
  <2>1. CASE e \in edges
    BY <1>8, <2>1 DEF SourcesInv, RankedEdges
  <2>2. CASE e \notin edges
    <3>1. PICK m \in Elements(l) \cap vertices : e = <<l, m>>
      BY <1>5, <2>2
    <3>2. rank[l] = rank[m] /\ rank[l] \in Nat
      BY <1>4, <1>8, <3>1 DEF IsRank
    <3> QED
      BY <3>1, <3>2
  <2> QED
    BY <2>1, <2>2
\* The sources of l read, or feed, nothing of another Looper.
<1>9. ASSUME NEW s \in SourcesOf(l, E)
      PROVE  /\ s \in vertices /\ s \notin Loopers
             /\ \E t \in Elements(l) \cap Modules : <<s, t>> \in E
  <2>1. PICK t \in vertices : <<l, t>> \in E /\ <<s, t>> \in E
    BY DEF SourcesOf
  <2>2. s \in vertices /\ s # l /\ t \in Modules /\ t \in Elements(l)
    BY <1>4, <1>7, <2>1 DEF SourcesOf
  <2>3. ASSUME s \in Loopers PROVE FALSE
    <3>1. t \in Elements(s)
      BY <1>7, <2>1, <2>3
    <3> QED
      BY <1>4, <2>2, <2>3, <3>1, OneLooper
  <2> QED
    BY <2>1, <2>2, <2>3
<1>10. new \subseteq SourcesOf(l, E)
  BY DEF Linkable
<1>11. LooperEdges'
  <2>1. \A k \in Loopers : \A e \in edges' : e[1] = k => e[2] \in Elements(k)
    <3> SUFFICES ASSUME NEW k \in Loopers, NEW e \in edges', e[1] = k PROVE e[2] \in Elements(k)
      OBVIOUS
    <3>1. CASE e \in E
      BY <1>7, <3>1
    <3>2. CASE e \notin E
      <4>1. PICK s \in new : e = <<s, l>>
        BY <1>2, <3>2
      <4> QED
        BY <1>9, <1>10, <4>1
    <3> QED
      BY <3>1, <3>2
  <2> QED
    BY <1>3, <2>1 DEF LooperEdges
<1>12. RankedEdges'
  <2>1. \A rank : IsRank(rank)' <=> IsRank(rank)
    BY <1>3 DEF IsRank
  <2>2. ASSUME NEW rank \in [Modules -> Nat], IsRank(rank), NEW e \in edges'
        PROVE  rank[e[1]] <= rank[e[2]]
    <3>1. CASE e \in E
      BY <1>8, <2>2, <3>1
    <3>2. CASE e \notin E
      <4>1. PICK s \in new : e = <<s, l>>
        BY <1>2, <3>2
      <4>2. PICK t \in Elements(l) \cap Modules : <<s, t>> \in E
        BY <1>9, <1>10, <4>1
      <4>3. rank[s] <= rank[t]
        BY <1>8, <2>2, <4>2
      <4>4. rank[t] = rank[l]
        BY <1>4, <2>2, <4>2 DEF IsRank
      <4> QED
        BY <4>1, <4>3, <4>4
    <3> QED
      BY <3>1, <3>2
  <2> QED
    BY <1>3, <2>1, <2>2 DEF RankedEdges
\* What was connected still is.
<1>13. ASSUME NEW a, NEW b, <<a, b>> \in Reaches(vertices, edges)
       PROVE  <<a, b>> \in Reaches(vertices, edges')
  <2>1. edges \subseteq edges'
    BY <1>6
  <2> QED
    BY <1>13, <2>1, ReachesMore
<1>14. ASSUME NEW m \in Elements(l) \cap vertices, NEW d \in Reads(m) \ {l}, d \notin Elements(l)
       PROVE  <<d, l>> \in Reaches(vertices, edges')
  <2>1. d \in vertices /\ <<d, m>> \in E /\ <<l, m>> \in E
    BY <1>1, <1>4, <1>5 DEF PInv, ReadsHaveEdges
  <2>2. d \in SourcesOf(l, E)
    BY <2>1 DEF SourcesOf
  <2>3. <<l, d>> \notin Reaches(vertices, E)
    <3> SUFFICES ASSUME <<l, d>> \in Reaches(vertices, E) PROVE FALSE
      OBVIOUS
    <3>1. PICK rank \in [Modules -> Nat] : IsRank(rank)
      BY DEF Schedulable
    <3>2. \A e \in E : e[2] \in vertices /\ rank[e[1]] <= rank[e[2]]
      BY <1>6, <1>8, <3>1
    <3>3. rank \in [vertices -> Nat]
      BY <1>4
    <3>4. rank[l] <= rank[d]
      BY <3>2, <3>3, ReachesUp
    <3>5. rank[d] < rank[m] /\ rank[m] = rank[l]
      BY <1>4, <1>14, <3>1 DEF IsRank
    <3>6. rank[l] \in Nat /\ rank[d] \in Nat
      BY <1>4, <2>1
    <3> QED
      BY <3>4, <3>5, <3>6
  <2>4. Connected(E) = Reaches(vertices, E)
    BY DEF Connected, Reaches
  <2>5. CASE <<d, l>> \in Reaches(vertices, E)
    BY <1>6, <2>5, ReachesMore
  <2>6. CASE <<d, l>> \notin Reaches(vertices, E)
    <3>1. d \in new \/ \E n \in new : <<d, n>> \in Reaches(vertices, E)
      BY <2>2, <2>3, <2>4, <2>6 DEF Linkable
    <3>2. \A n \in new : n \in vertices /\ <<n, l>> \in edges'
      BY <1>2, <1>9, <1>10
    <3>3. \A n \in new : <<n, l>> \in Reaches(vertices, edges')
      BY <1>4, <3>2, ReachesEdge
    <3>4. ASSUME NEW n \in new, <<d, n>> \in Reaches(vertices, E)
          PROVE  <<d, l>> \in Reaches(vertices, edges')
      <4>1. <<d, n>> \in Reaches(vertices, edges')
        BY <1>6, <3>4, ReachesMore
      <4> QED
        BY <3>3, <4>1, ReachesOn
    <3> QED
      BY <3>1, <3>3, <3>4
  <2> QED
    BY <2>5, <2>6
<1>15. ASSUME NEW k \in Loopers' \ unvisited' PROVE SourcesAreLinked(k)'
  <2>1. \A m \in Elements(k) \cap vertices : \A d \in Reads(m) \ {k} :
           d \in Elements(k) \/ <<d, k>> \in Reaches(vertices, edges')
    <3>1. CASE k = l
      BY <1>14, <3>1
    <3>2. CASE k # l
      <4>1. k \in Loopers \ unvisited
        BY <1>1, <1>3, <1>15, <3>2
      <4>2. SourcesAreLinked(k)
        BY <1>1, <4>1 DEF SourcesInv
      <4> QED
        BY <1>13, <4>2 DEF SourcesAreLinked
    <3> QED
      BY <3>1, <3>2
  <2> QED
    BY <1>1, <1>3, <2>1 DEF SourcesAreLinked
<1> QED
  BY <1>1, <1>11, <1>12, <1>15 DEF SourcesInv

\* A vertex that is removed is on no path to a Looper that stays.
LEMMA PruneSources ==
    ASSUME PInv, LinkInv, TypeInv, SourcesInv, NEW v, PruneVertex(v), [Next]_vars
    PROVE  SourcesInv'
<1>1. /\ phase = "prune" /\ phase' = "prune" /\ v \in vertices
      /\ \/ Unused(v) /\ vertices' = vertices \ {v} /\ edges' = {e \in edges : e[1] # v /\ e[2] # v}
         \/ vertices' = vertices /\ edges' = edges
  <2>1. unvisited \subseteq vertices
    BY DEF TypeInv
  <2> QED
    BY <2>1 DEF PruneVertex, EdgesWithout, graph
<1>2. /\ config' = config /\ Modules' = Modules /\ Loopers' = Loopers
      /\ \A k : Elements(k)' = Elements(k)
      /\ \A m : Reads(m)' = Reads(m)
  BY SameConfig
<1>3. edges' \subseteq edges /\ vertices' \subseteq vertices
  BY <1>1
<1>4. LooperEdges'
  BY <1>2, <1>3 DEF SourcesInv, LooperEdges
<1>5. RankedEdges'
  <2>1. \A rank : IsRank(rank)' <=> IsRank(rank)
    BY <1>2 DEF IsRank
  <2> QED
    BY <1>2, <1>3, <2>1 DEF SourcesInv, RankedEdges
<1>6. ASSUME NEW l \in Loopers PROVE SourcesAreLinked(l)'
  <2>1. SourcesAreLinked(l) /\ Linked(l)
    BY <1>1 DEF SourcesInv, LinkInv
  <2>2. ASSUME NEW m \in Elements(l) \cap vertices', NEW d \in Reads(m) \ {l}, d \notin Elements(l)
        PROVE  <<d, l>> \in Reaches(vertices', edges')
    <3>1. <<d, l>> \in Reaches(vertices, edges)
      BY <1>3, <2>1, <2>2 DEF SourcesAreLinked
    <3>2. CASE vertices' = vertices /\ edges' = edges
      BY <3>1, <3>2
    <3>3. CASE Unused(v) /\ vertices' = vertices \ {v} /\ edges' = {e \in edges : e[1] # v /\ e[2] # v}
      <4>1. \A e \in edges : e[1] # v
        BY <3>3 DEF Unused
      <4>2. <<d, m>> \in edges /\ <<l, m>> \in edges /\ d \in vertices /\ l \in vertices
        BY <1>1, <1>3, <2>1, <2>2 DEF PInv, ReadsHaveEdges, Linked
      <4>3. d # v /\ l # v
        BY <4>1, <4>2
      <4>4. d \in vertices \ {v} /\ l \in vertices \ {v}
        BY <4>2, <4>3
      <4>5. <<d, l>> \in Reaches(vertices \ {v}, {e \in edges : e[1] # v /\ e[2] # v})
        BY <1>1, <3>1, <4>1, <4>4, ReachesWithout
      <4> QED
        BY <3>3, <4>5
    <3> QED
      BY <1>1, <3>2, <3>3
  <2> QED
    BY <1>2, <2>2 DEF SourcesAreLinked
<1> QED
  BY <1>1, <1>2, <1>4, <1>5, <1>6 DEF SourcesInv

\* Every step keeps SourcesInv.
LEMMA SourcesNext ==
    ASSUME config \in Configs, SimpleLoopers, Schedulable, PInv, LinkInv, TypeInv, SourcesInv, [Next]_vars
    PROVE  SourcesInv'
<1>1. /\ config' = config /\ Modules' = Modules /\ Loopers' = Loopers
      /\ \A k : Elements(k)' = Elements(k)
      /\ \A m : Reads(m)' = Reads(m)
      /\ \A rank : IsRank(rank)' <=> IsRank(rank)
  <2>1. /\ config' = config /\ Modules' = Modules /\ Loopers' = Loopers
        /\ \A k : Elements(k)' = Elements(k)
        /\ \A m : Reads(m)' = Reads(m)
    BY SameConfig
  <2> QED
    BY <2>1 DEF IsRank
\* A step that leaves the graph alone.
<1>2. ASSUME UNCHANGED <<vertices, edges>>,
             phase' = "links" => phase = "links" /\ unvisited' = unvisited,
             phase' \notin {"edges", "links", "crashed"} =>
                \/ phase \notin {"edges", "links", "crashed"}
                \/ phase = "links" /\ unvisited = {}
      PROVE  SourcesInv'
  <2>1. \A l : SourcesAreLinked(l)' <=> SourcesAreLinked(l)
    BY <1>1, <1>2 DEF SourcesAreLinked
  <2>2. LooperEdges' /\ RankedEdges'
    BY <1>1, <1>2 DEF SourcesInv, LooperEdges, RankedEdges
  <2>3. phase' = "links" => \A l \in Loopers \ unvisited' : SourcesAreLinked(l)
    BY <1>2 DEF SourcesInv
  <2>4. phase' \notin {"edges", "links", "crashed"} => \A l \in Loopers : SourcesAreLinked(l)
    BY <1>2 DEF SourcesInv
  <2> QED
    BY <1>1, <2>1, <2>2, <2>3, <2>4 DEF SourcesInv
<1>3. CASE AddEdges
  <2>1. /\ phase' = "links" /\ unvisited' = Loopers /\ vertices = Modules /\ tags = config.tags
        /\ edges' = {e \in vertices \X vertices :
                        e[1] # e[2] /\ \E i \in DOMAIN tags[e[2]] : Matches(tags[e[2]][i], e[1])}
    BY <1>3 DEF AddEdges, PInv, StartsWithAll, TagsAsDeclared, Early
  <2>2. \A e \in edges' : e[2] \in Modules /\ e[1] \in Reads(e[2])
    BY <2>1 DEF Reads
  <2>3. LooperEdges'
    BY <1>1, <2>2 DEF SimpleLoopers, LooperEdges
  <2>4. RankedEdges'
    BY <1>1, <2>2 DEF RankedEdges, IsRank
  <2> QED
    BY <1>1, <2>1, <2>3, <2>4 DEF SourcesInv
<1>4. CASE \E l \in Modules : LinkLooper(l)
  BY <1>4, LinkSources
<1>5. CASE \E v \in Modules : PruneVertex(v)
  BY <1>5, PruneSources
<1>6. CASE LinksDone
  BY <1>2, <1>6 DEF LinksDone, graph
<1>7. CASE PruneDone \/ RejectCycle \/ SortDone \/ Validate \/ \E x \in Modules : RecurseForEver(x) \/ SortVertex(x)
  BY <1>2, <1>7 DEF PruneDone, RejectCycle, SortDone, Validate, RecurseForEver, SortVertex, graph
<1>8. CASE CountDimensions \/ ReindexTarget \/ ReindexDone \/ Declare \/ DeclareDone
           \/ Instantiate \/ InstantiateFails \/ InstantiateDone
  BY <1>2, <1>8 DEF CountDimensions, ReindexTarget, ReindexDone, Declare, DeclareDone,
        Instantiate, InstantiateFails, InstantiateDone, graph
<1>9. CASE UNCHANGED vars
  BY <1>2, <1>9 DEF vars
<1> QED
  BY <1>3, <1>4, <1>5, <1>6, <1>7, <1>8, <1>9 DEF Next, Step

\* What has a path to a sorted vertex is sorted before it.
FollowInv ==
    /\ phase = "sort" => \A e \in edges : e[1] \in unvisited => e[2] \in unvisited
    /\ \A y \in Range(sorted), x \in vertices :
          <<x, y>> \in Reaches(vertices, edges) /\ Kind(x) # "internal" /\ x # y => Earlier(x, y)

\* Nothing that is still to visit has a path to what is visited.
LEMMA SortFollows ==
    ASSUME SortInv, LinkInv, TypeInv, FollowInv, NEW v, SortVertex(v), [Next]_vars
    PROVE  FollowInv'
<1>1. /\ phase = "sort" /\ phase' = "sort" /\ v \in unvisited /\ unvisited' = unvisited \ {v}
      /\ UNCHANGED <<vertices, edges>>
      /\ \A u \in unvisited : <<u, v>> \notin edges
      /\ sorted' = IF Kind(v) = "internal" THEN sorted ELSE Append(sorted, v)
  BY DEF SortVertex, graph
<1>2. /\ sorted \in Seq(vertices) /\ unvisited \subseteq vertices /\ v \in vertices
      /\ \A x \in vertices \ unvisited : Kind(x) = "internal" \/ \E i \in DOMAIN sorted : sorted[i] = x
      /\ edges \subseteq vertices \X vertices
  BY <1>1 DEF SortInv, LinkInv
<1>3. \A e \in edges : e[1] \in unvisited' => e[2] \in unvisited'
  <2> SUFFICES ASSUME NEW e \in edges, e[1] \in unvisited' PROVE e[2] \in unvisited'
    OBVIOUS
  <2>1. e[1] \in unvisited /\ e[2] \in unvisited /\ e = <<e[1], e[2]>>
    BY <1>1, <1>2 DEF FollowInv
  <2> QED
    BY <1>1, <2>1
<1>4. ASSUME NEW x \in unvisited' PROVE <<x, v>> \notin Reaches(vertices, edges)
  <2>1. unvisited' \in SUBSET vertices /\ v \notin unvisited'
    BY <1>1, <1>2
  <2> QED
    BY <1>3, <2>1, ReachesIs
<1>5. \A m : Kind(m)' = Kind(m)
  BY SameConfig
<1>6. \A x, y : Earlier(x, y) => Earlier(x, y)'
  <2> SUFFICES ASSUME NEW x, NEW y, Earlier(x, y) PROVE Earlier(x, y)'
    OBVIOUS
  <2>1. PICK i, j \in DOMAIN sorted : i < j /\ sorted[i] = x /\ sorted[j] = y
    BY DEF Earlier
  <2>2. /\ i \in DOMAIN sorted' /\ j \in DOMAIN sorted'
        /\ sorted'[i] = sorted[i] /\ sorted'[j] = sorted[j]
    BY <1>1, <1>2
  <2> QED
    BY <2>1, <2>2 DEF Earlier
<1>7. ASSUME NEW y \in Range(sorted'), NEW x \in vertices,
             <<x, y>> \in Reaches(vertices, edges), Kind(x) # "internal", x # y
      PROVE  Earlier(x, y)'
  <2>1. CASE y \in Range(sorted)
    BY <1>6, <1>7, <2>1 DEF FollowInv
  <2>2. CASE y \notin Range(sorted)
    <3>1. sorted' = Append(sorted, v) /\ y = v
      <4>1. sorted' = Append(sorted, v)
        BY <1>1, <2>2
      <4> QED
        BY <1>2, <2>2, <4>1 DEF Range
    <3>2. x \notin unvisited
      BY <1>1, <1>4, <1>7, <3>1
    <3>3. PICK i \in DOMAIN sorted : sorted[i] = x
      BY <1>2, <1>7, <3>2
    <3>4. /\ i \in DOMAIN sorted' /\ sorted'[i] = x /\ Len(sorted) + 1 \in DOMAIN sorted'
          /\ sorted'[Len(sorted) + 1] = y /\ i < Len(sorted) + 1
      BY <1>2, <3>1, <3>3
    <3> QED
      BY <3>4 DEF Earlier
  <2> QED
    BY <2>1, <2>2
<1> QED
  BY <1>1, <1>3, <1>5, <1>7 DEF FollowInv

\* Every step keeps FollowInv.
LEMMA FollowNext ==
    ASSUME SortInv, LinkInv, TypeInv, FollowInv, [Next]_vars
    PROVE  FollowInv'
<1>1. \A m : Kind(m)' = Kind(m)
  BY SameConfig
<1>2. ASSUME sorted' = <<>>, phase' # "sort" PROVE FollowInv'
  <2>1. Range(sorted') = {}
    BY <1>2 DEF Range
  <2> QED
    BY <1>2, <2>1 DEF FollowInv
<1>3. ASSUME UNCHANGED <<vertices, edges, sorted>>,
             phase' = "sort" => (phase = "sort" /\ unvisited' = unvisited) \/ unvisited' = vertices
      PROVE  FollowInv'
  <2>1. \A x, y : Earlier(x, y)' <=> Earlier(x, y)
    BY <1>3 DEF Earlier
  <2>2. phase' = "sort" => \A e \in edges : e[1] \in unvisited' => e[2] \in unvisited'
    BY <1>3 DEF FollowInv, LinkInv
  <2>3. Range(sorted') = Range(sorted)
    BY <1>3
  <2> QED
    BY <1>1, <1>3, <2>1, <2>2, <2>3 DEF FollowInv
<1>4. CASE AddEdges \/ LinksDone \/ \E x \in Modules : LinkLooper(x) \/ PruneVertex(x)
  <2>1. sorted = <<>> /\ sorted' = sorted
    BY <1>4 DEF AddEdges, LinksDone, LinkLooper, PruneVertex, SortInv, Unsorted
  <2>2. phase' # "sort"
    BY <1>4 DEF AddEdges, LinksDone, LinkLooper, PruneVertex
  <2> QED
    BY <1>2, <2>1, <2>2
<1>5. CASE \E v \in Modules : SortVertex(v)
  BY <1>5, SortFollows
<1>6. CASE PruneDone \/ RejectCycle \/ SortDone \/ Validate \/ \E x \in Modules : RecurseForEver(x)
  BY <1>3, <1>6 DEF PruneDone, RejectCycle, SortDone, Validate, RecurseForEver, graph
<1>7. CASE CountDimensions \/ ReindexTarget \/ ReindexDone \/ Declare \/ DeclareDone
           \/ Instantiate \/ InstantiateFails \/ InstantiateDone
  BY <1>3, <1>7 DEF CountDimensions, ReindexTarget, ReindexDone, Declare, DeclareDone,
        Instantiate, InstantiateFails, InstantiateDone, graph
<1>8. CASE UNCHANGED vars
  BY <1>3, <1>8 DEF vars
<1> QED
  BY <1>4, <1>5, <1>6, <1>7, <1>8 DEF Next, Step

\* Two modules of one path are instantiated in their order.
LEMMA PrecedesIs ==
    ASSUME GInv, phase = "built", NEW x, NEW y, Earlier(x, y), PathFor(x) = PathFor(y)
    PROVE  Precedes(x, y)
<1> DEFINE p == PathFor(x)
<1>1. SortInv /\ InstancesInv
  BY DEF GInv, PathsInv
<1>2. x \in Range(sorted) /\ y \in Range(sorted) /\ ~Earlier(y, x) /\ x # y
  BY <1>1, EarlierIsAnOrder
<1>3. Instantiated(x) /\ Instantiated(y)
  BY <1>1, <1>2 DEF InstancesInv
<1>4. PICK i, j \in DOMAIN instances[p] : instances[p][i] = x /\ instances[p][j] = y /\ p \in DOMAIN instances
  BY <1>3 DEF Instantiated
<1>5. instances[p] \in Seq(Range(sorted)) /\ Increasing(instances[p])
  BY <1>1, <1>4 DEF InstancesInv
<1> HIDE DEF p
<1>6. i \in Nat /\ j \in Nat
  BY <1>4, <1>5
<1>7. i < j
  BY <1>2, <1>4, <1>5, <1>6 DEF Increasing
<1> QED
  BY <1>4, <1>7 DEF Precedes

\* A module is in the path of a Looper, itself in the default one, or in the default one.
LEMMA TopIs ==
    ASSUME GInv, SimpleLoopers, phase = "built", NEW x \in Range(sorted)
    PROVE  /\ x \in Enclosing(x)
           /\ \/ PathFor(x) = Default /\ \A l \in Loopers : x \notin Elements(l)
              \/ \E l \in Loopers \cap Range(sorted) :
                    /\ x \in Elements(l) /\ PathFor(x) = config.pathOf[l] /\ Earlier(l, x)
                    /\ l \in Enclosing(x) /\ PathFor(l) = Default
<1>1. /\ config \in Configs /\ PathsAreDisjoint /\ PathsAreGiven
      /\ x \in Modules /\ x \in Enclosing(x) /\ Loopers \subseteq Modules
  BY DEF GInv, PInv, SortInv, Range, SimpleLoopers, Enclosing, Loopers
\* A module in no path of a Looper is in the default path.
<1>2. ASSUME NEW y, \A l \in Loopers : y \notin Elements(l)
      PROVE  PathFor(y) = Default
  <2>1. CASE \E i \in DOMAIN config.paths : y \in config.paths[i].elements /\ PathFor(y) = config.paths[i].id
    <3>1. PICK i \in DOMAIN config.paths : PathFor(y) = config.paths[i].id
      BY <2>1
    <3>2. PICK l \in Loopers : config.pathOf[l] = PathFor(y)
      BY <1>1, <3>1 DEF PathsAreGiven
    <3>3. y \in Elements(l)
      BY <1>1, <3>2, PathOfLooper
    <3> QED
      BY <1>2, <3>3
  <2> QED
    BY <1>1, <2>1, PathForIs
<1>3. ASSUME NEW l \in Loopers, x \in Elements(l)
      PROVE  /\ l \in Range(sorted) /\ PathFor(x) = config.pathOf[l] /\ Earlier(l, x)
             /\ l \in Enclosing(x) /\ PathFor(l) = Default
  <2>1. PathFor(x) = config.pathOf[l]
    BY <1>1, <1>3, PathOfElement
  <2>2. l \in Range(sorted) /\ Earlier(l, x) /\ l \in Enclosing(x)
    BY <1>1, <1>3, LooperIsEarlier, ElementIsEnclosed
  <2>3. PathFor(l) = Default
    BY <1>2 DEF SimpleLoopers
  <2> QED
    BY <2>1, <2>2, <2>3
<1> QED
  BY <1>1, <1>2, <1>3

\* With such Loopers, and a schedule that exists, what was built is one: a module
\* runs after what it reads, or inside it.  A module of a path that reads
\* something outside has its Looper behind this, since build() linked the two
\* and neither pruning nor sorting undoes that.
THEOREM ModulesRunAfterTheirInputs == Spec => [](SimpleLoopers /\ Schedulable => RunsAfterItsInputs)
<1> DEFINE Inv == SimpleLoopers /\ Schedulable => SourcesInv
<1>1. GInv /\ TypeInv /\ FollowInv /\ Inv => (SimpleLoopers /\ Schedulable => RunsAfterItsInputs)
  <2> SUFFICES ASSUME GInv, TypeInv, FollowInv, SourcesInv, SimpleLoopers, phase = "built",
                      NEW m \in Range(sorted), NEW d \in Reads(m) \cap Range(sorted)
               PROVE  \/ d \in Enclosing(m)
                      \/ \E a \in Enclosing(d), b \in Enclosing(m) : Precedes(a, b)
    BY DEF RunsAfterItsInputs
  <2>1. /\ sorted \in Seq(vertices) /\ SortInv /\ config \in Configs
        /\ m \in vertices /\ d \in vertices
    BY DEF GInv, SortInv, Range
  <2>2. <<d, m>> \in edges /\ Earlier(d, m)
    BY <2>1, EarlierIsAnOrder DEF GInv, PInv, ReadsHaveEdges
  <2>3. d \in Enclosing(d) /\ m \in Enclosing(m)
    BY TopIs
\* What d is in, and where that is.
  <2>4. PICK a \in Enclosing(d) : /\ PathFor(a) = Default /\ (a = d \/ Earlier(a, d))
    BY <2>3, TopIs
  <2>5. CASE PathFor(m) = Default
    <3>1. Earlier(a, m)
      BY <2>1, <2>2, <2>4, EarlierIsAnOrder
    <3> QED
      BY <2>3, <2>4, <2>5, <3>1, PrecedesIs
  <2>6. ASSUME NEW l \in Loopers \cap Range(sorted), m \in Elements(l), PathFor(m) = config.pathOf[l],
               l \in Enclosing(m), PathFor(l) = Default
        PROVE  \/ d \in Enclosing(m)
               \/ \E x \in Enclosing(d), y \in Enclosing(m) : Precedes(x, y)
    <3>1. CASE d = l
      BY <2>6, <3>1
    <3>2. CASE d \in Elements(l)
      <4>1. d \in Modules /\ PathsAreDisjoint
        BY DEF Reads, SimpleLoopers
      <4>2. PathFor(d) = PathFor(m)
        BY <2>1, <2>6, <3>2, <4>1, PathOfElement
      <4> QED
        BY <2>2, <2>3, <4>2, PrecedesIs
    <3>3. CASE d # l /\ d \notin Elements(l)
      <4>1. <<d, l>> \in Reaches(vertices, edges)
        BY <2>1, <2>6, <3>3 DEF SourcesInv, SourcesAreLinked
      <4>2. Kind(d) # "internal"
        BY DEF TypeInv, Range
      <4>3. Earlier(d, l)
        BY <2>1, <2>6, <3>3, <4>1, <4>2 DEF FollowInv
      <4>4. Earlier(a, l)
        BY <2>1, <2>4, <4>3, EarlierIsAnOrder
      <4>5. Precedes(a, l)
        BY <2>4, <2>6, <4>4, PrecedesIs
      <4> QED
        BY <2>4, <2>6, <4>5
    <3> QED
      BY <3>1, <3>2, <3>3
  <2> QED
    BY <2>5, <2>6, TopIs
<1>2. Init => FollowInv /\ Inv
  <2> SUFFICES ASSUME Init PROVE FollowInv /\ SourcesInv
    OBVIOUS
  <2>1. sorted = <<>> /\ phase = "edges" /\ edges = {} /\ Range(sorted) = {}
    BY DEF Init, Range
  <2> QED
    BY <2>1 DEF FollowInv, SourcesInv, LooperEdges, RankedEdges
<1>3. GInv /\ TypeInv /\ FollowInv /\ [Next]_vars => FollowInv'
  BY FollowNext DEF GInv, PathsInv
<1>4. GInv /\ TypeInv /\ Inv /\ [Next]_vars => Inv'
  <2> SUFFICES ASSUME GInv, TypeInv, Inv, [Next]_vars, SimpleLoopers', Schedulable' PROVE SourcesInv'
    OBVIOUS
  <2>1. /\ config' = config /\ Modules' = Modules /\ Loopers' = Loopers
        /\ \A k : Elements(k)' = Elements(k)
        /\ \A m : Reads(m)' = Reads(m)
    BY SameConfig
  <2>2. SimpleLoopers
    BY <2>1 DEF SimpleLoopers, PathsAreDisjoint, PathsAreGiven
  <2>3. \A rank : IsRank(rank)' <=> IsRank(rank)
    BY <2>1 DEF IsRank
  <2>4. Schedulable
    BY <2>1, <2>3 DEF Schedulable
  <2> QED
    BY <2>2, <2>4, SourcesNext DEF GInv, PathsInv
<1> HIDE DEF Inv
<1>5. Spec => [](GInv /\ TypeInv /\ FollowInv /\ Inv)
  BY <1>2, <1>3, <1>4, AlwaysTypeInv, PTL DEF Spec
<1> QED
  BY <1>1, <1>5, PTL
=============================================================================
