---------------------------- MODULE ExecutionProofs ----------------------------
(***************************************************************************)
(* Proofs about Execution, for every tree of paths, every set of readers   *)
(* allowed by DepsAssumption and every number of solutions: its invariants *)
(* first, then that it drives every module as ModuleLifecycle says, and    *)
(* that execute() answers OK only when the default path was run to its end.*)
(***************************************************************************)
EXTENDS Execution, TLAPS

-----------------------------------------------------------------------------
(* The tree of paths                                                       *)

\* Every module has an owner, and is in the path of its owner only.
LEMMA OwnerOfMember ==
    ASSUME NEW m \in Modules
    PROVE  /\ Owner(m) \in Paths
           /\ m \in Members(Owner(m))
           /\ \A p \in Paths : m \in Members(p) => p = Owner(m)
<1> DEFINE S == UNION {Members(p) : p \in Paths}
<1>1. Members(Root) \subseteq S
  BY DEF Paths
<1>2. \A l \in S \cap Loopers : Members(l) \subseteq S
  BY DEF Paths
<1>3. Members(Root) \subseteq S \cap Modules
  BY <1>1, PathAssumption DEF Members, Paths
<1>4. \A l \in S \cap Modules \cap Loopers : Members(l) \subseteq S \cap Modules
  BY <1>2, PathAssumption DEF Members, Paths
<1>5. m \in Forward(Root)
  BY PathAssumption DEF Under, Paths
<1>6. m \in S
  BY <1>3, <1>4, <1>5 DEF Forward
<1>7. \E p \in Paths : m \in Members(p)
  BY <1>6
<1>8. \A p, q \in Paths : m \in Members(p) /\ m \in Members(q) => p = q
  BY PathAssumption DEF Members
<1> QED
  BY <1>7, <1>8 DEF Owner

LEMMA MembersAreModules ==
    ASSUME NEW p \in Paths
    PROVE  Members(p) \subseteq Modules
BY PathAssumption DEF Members, Paths

LEMMA UnderIsModules ==
    ASSUME NEW p \in Paths
    PROVE  Under[p] \subseteq Modules /\ Under[p] = Forward(p)
BY DEF Under, Forward

\* The modules below p: its members, and what is below its Loopers.
LEMMA UnderClosed ==
    ASSUME NEW p \in Paths
    PROVE  /\ Members(p) \subseteq Under[p]
           /\ \A l \in Under[p] \cap Loopers : Members(l) \subseteq Under[p]
BY MembersAreModules, UnderIsModules DEF Forward, Paths

LEMMA UnderStep ==
    ASSUME NEW p \in Paths, NEW m \in Modules
    PROVE  m \in Under[p] <=> Owner(m) = p \/ Owner(m) \in Under[p]
<1>1. ASSUME Owner(m) = p \/ Owner(m) \in Under[p]
      PROVE  m \in Under[p]
  BY <1>1, UnderClosed, UnderIsModules, OwnerOfMember, PathAssumption DEF Paths
<1>2. ASSUME m \in Under[p]
      PROVE  Owner(m) = p \/ Owner(m) \in Under[p]
  <2> DEFINE S == {x \in Under[p] : Owner(x) = p \/ Owner(x) \in Under[p]}
  <2>1. Members(p) \subseteq S
    BY UnderClosed, MembersAreModules, OwnerOfMember
  <2>2. \A l \in S \cap Loopers : Members(l) \subseteq S
    <3> SUFFICES ASSUME NEW l \in S \cap Loopers, NEW x \in Members(l)
                 PROVE  x \in S
      OBVIOUS
    <3>1. l \in Paths /\ x \in Modules
      BY MembersAreModules DEF Paths
    <3>2. Owner(x) = l
      BY <3>1, OwnerOfMember
    <3> QED
      BY <3>1, <3>2, UnderClosed
  <2>3. S \in SUBSET Modules
    BY UnderIsModules
  <2>4. m \in Forward(p)
    BY <1>2, UnderIsModules
  <2>5. m \in S
    <3> HIDE DEF S
    <3> QED
      BY <2>1, <2>2, <2>3, <2>4 DEF Forward
  <2> QED
    BY <2>5
<1> QED
  BY <1>1, <1>2

LEMMA UnderTransitive ==
    ASSUME NEW p \in Paths, NEW l \in Under[p] \cap Loopers
    PROVE  Under[l] \subseteq Under[p]
<1>1. l \in Paths /\ Under[p] \in SUBSET Modules
  BY UnderIsModules DEF Paths
<1>2. Members(l) \subseteq Under[p] /\ \A k \in Under[p] \cap Loopers : Members(k) \subseteq Under[p]
  BY UnderClosed
<1> QED
  BY <1>1, <1>2, UnderIsModules DEF Forward

\* No Looper is below a path that is below it.
LEMMA UnderAcyclic ==
    ASSUME NEW l \in Loopers, NEW k \in Loopers, l \in Under[k]
    PROVE  k \notin Under[l] /\ k # l
BY UnderTransitive, PathAssumption DEF Paths

LEMMA NestOfRoot == Nest(Root) = {Root} /\ Nest(None) = {}
BY UnderIsModules, PathAssumption DEF Nest, Paths

LEMMA NestOfLooper ==
    ASSUME NEW l \in Loopers
    PROVE  /\ Nest(l) = Nest(Owner(l)) \cup {l}
           /\ l \notin Nest(Owner(l))
           /\ Owner(l) \in Nest(Owner(l))
<1>1. l \in Modules /\ Owner(l) \in Paths /\ l # None /\ l \in Paths
  BY OwnerOfMember, PathAssumption DEF Paths
<1>2. Owner(l) # None
  BY <1>1, PathAssumption DEF Paths
<1>3. Nest(l) = Nest(Owner(l)) \cup {l}
  BY <1>1, <1>2, UnderStep DEF Nest
<1>4. l \notin Nest(Owner(l))
  <2>1. l \notin Under[l]
    BY PathAssumption
  <2>2. Owner(l) # l /\ Owner(l) \notin Under[l]
    BY <1>1, <2>1, UnderStep
  <2> QED
    BY <2>2 DEF Nest
<1> QED
  BY <1>1, <1>2, <1>3, <1>4 DEF Nest

LEMMA NestFacts ==
    ASSUME NEW c \in Paths
    PROVE  c \in Nest(c) /\ Nest(c) \subseteq Paths /\ Root \in Nest(c)
BY PathAssumption DEF Nest, Paths

\* A module is in one place.
LEMMA OnePlace ==
    ASSUME NEW p \in Paths, NEW q \in Paths,
           NEW i \in DOMAIN Path[p], NEW j \in DOMAIN Path[q],
           Path[p][i] = Path[q][j]
    PROVE  p = q /\ i = j
BY PathAssumption

\* The module a path is at is one of its members.
LEMMA AtModuleFacts ==
    ASSUME NEW p \in Paths, AtModule(p)
    PROVE  /\ Module(p) \in Members(p)
           /\ Module(p) \in Modules
           /\ Owner(Module(p)) = p
           /\ pos[p] > 0
<1>1. Module(p) \in Members(p)
  BY DEF AtModule, Module, Members
<1>2. Module(p) \in Modules
  BY <1>1, MembersAreModules
<1>3. pos[p] \in 1..Len(Path[p]) /\ Path[p] \in Seq(Modules)
  BY PathAssumption DEF AtModule
<1> QED
  BY <1>1, <1>2, <1>3, OwnerOfMember

LEMMA TailInSeq ==
    ASSUME NEW S, NEW t \in Seq(S), t # <<>>
    PROVE  Tail(t) \in Seq(S)
OBVIOUS

-----------------------------------------------------------------------------
(* The invariant                                                           *)

\* The paths being run only depend on the innermost one.
LEMMA LiveNext == Live = Nest(cur) /\ Live' = Nest(cur')
BY DEF Live, Nest

LEMMA InitIInv == Init => IInv
<1> SUFFICES ASSUME Init PROVE IInv
  OBVIOUS
<1>1. Live = {}
  BY NestOfRoot DEF Init, Live
<1>2. TypeOK
  <2>1. todo \in [Loopers -> Seq(BOOLEAN)]
    <3>1. <<>> \in Seq(BOOLEAN)
      OBVIOUS
    <3> QED
      BY <3>1 DEF Init
  <2>2. pos \in [Paths -> Nat] /\ runs \in [Modules -> Nat] /\ status \in [Loopers -> Status]
    BY DEF Init, Status
  <2> QED
    BY <2>1, <2>2 DEF Init, TypeOK, Status
<1>3. CallStack
  BY <1>1, PathAssumption DEF Init, CallStack, Paths
<1>4. LoopBrackets /\ PathRunsOnValidSolution /\ AbortIsObeyed
  BY <1>1 DEF Init, LoopBrackets, PathRunsOnValidSolution, AbortIsObeyed
<1>5. FreshSoFar
  BY DEF Init, FreshSoFar
<1> QED
  BY <1>2, <1>3, <1>4, <1>5 DEF IInv

\* A step that leaves the control state and the outputs alone.
LEMMA QuietStep ==
    ASSUME IInv, TypeOK', UNCHANGED <<control, inLoop, aborted, fresh>>
    PROVE  IInv'
<1>1. Live' = Live /\ cur' = cur /\ pos' = pos
  BY LiveNext DEF control
<1>2. CallStack'
  BY <1>1 DEF IInv, CallStack, AtModule, Module
<1>3. LoopBrackets' /\ PathRunsOnValidSolution' /\ AbortIsObeyed'
  BY <1>1 DEF IInv, LoopBrackets, PathRunsOnValidSolution, AbortIsObeyed, control
<1>4. FreshSoFar'
  BY <1>1 DEF IInv, FreshSoFar
<1> QED
  BY <1>2, <1>3, <1>4 DEF IInv

LEMMA HookStep ==
    ASSUME IInv, Configure \/ BeginIntegration \/ EndIntegration \/ Abandon \/ Finish \/ Done
    PROVE  IInv'
<1>1. Members(Root) \subseteq Modules /\ Under[Root] \subseteq Modules
  BY MembersAreModules, UnderIsModules DEF Paths
<1>2. UNCHANGED <<control, inLoop, aborted, fresh>>
  BY DEF Configure, BeginIntegration, EndIntegration, Abandon, Finish, Done, vars, control
<1>3. TypeOK'
  BY <1>1 DEF IInv, TypeOK, Configure, BeginIntegration, EndIntegration, Abandon, Finish,
              Done, vars, control
<1> QED
  BY <1>2, <1>3, QuietStep

LEMMA BeginPointStep ==
    ASSUME IInv, BeginPoint
    PROVE  IInv'
<1>1. Root \in Paths /\ Root # None /\ Under[Root] = Modules
  BY PathAssumption DEF Paths
<1>2. Live = {} /\ Live' = {Root}
  BY NestOfRoot, LiveNext DEF BeginPoint
<1>3. TypeOK'
  BY <1>1 DEF IInv, TypeOK, BeginPoint
<1>4. pos'[Root] = 1 /\ cur' = Root
  BY <1>1 DEF IInv, TypeOK, BeginPoint
<1>5. CallStack'
  BY <1>2, <1>4 DEF CallStack
<1>6. LoopBrackets' /\ PathRunsOnValidSolution' /\ AbortIsObeyed'
  BY <1>1, <1>2 DEF IInv, LoopBrackets, PathRunsOnValidSolution, AbortIsObeyed, BeginPoint
<1>7. FreshSoFar'
  <2>1. \A i \in DOMAIN Path[Root] : ~(i < 1)
    BY <1>1, PathAssumption
  <2>2. Resets \subseteq fresh'
    BY <1>1, DepsAssumption DEF BeginPoint
  <2> QED
    BY <1>2, <1>4, <2>1, <2>2 DEF FreshSoFar
<1> QED
  BY <1>3, <1>5, <1>6, <1>7 DEF IInv

LEMMA EndPointStep ==
    ASSUME IInv, EndPoint
    PROVE  IInv'
<1>1. Live = {Root} /\ Live' = {}
  BY NestOfRoot, LiveNext DEF EndPoint
<1>2. TypeOK'
  BY PathAssumption DEF IInv, TypeOK, EndPoint, Status
<1>3. CallStack'
  BY <1>1, PathAssumption DEF CallStack, EndPoint, Paths
<1>4. LoopBrackets' /\ PathRunsOnValidSolution' /\ AbortIsObeyed'
  <2>1. ~aborted
    BY PathAssumption DEF IInv, AbortIsObeyed, EndPoint, Paths
  <2>2. inLoop = {}
    BY <1>1 DEF IInv, LoopBrackets
  <2> QED
    BY <1>1, <2>1, <2>2 DEF LoopBrackets, PathRunsOnValidSolution, AbortIsObeyed, EndPoint
<1>5. FreshSoFar'
  BY DEF FreshSoFar, EndPoint
<1> QED
  BY <1>2, <1>3, <1>4, <1>5 DEF IInv

LEMMA BeginLoopStep ==
    ASSUME IInv, NEW l \in Loopers, BeginLoop(l)
    PROVE  IInv'
<1> USE DEF IInv
<1>1. /\ cur \in Paths /\ l \in Paths /\ l # Root /\ l # None /\ l # cur
      /\ AtModule(cur) /\ Module(cur) = l /\ pos[cur] > 0 /\ Owner(l) = cur
  <2>1. cur \in Paths /\ AtModule(cur) /\ Module(cur) = l
    BY DEF BeginLoop, TypeOK
  <2>2. l \in Paths /\ l \in Modules /\ l # Root /\ l # None /\ l \notin Under[l]
    BY PathAssumption DEF Paths
  <2>3. Owner(l) = cur /\ pos[cur] > 0
    BY <2>1, AtModuleFacts
  <2>4. l # cur
    BY <2>2, <2>3, UnderStep
  <2> QED
    BY <2>1, <2>2, <2>3, <2>4
<1>2. Live' = Live \cup {l} /\ l \notin Live /\ Live \subseteq Paths /\ cur \in Live
  BY <1>1, NestOfLooper, NestFacts, LiveNext DEF BeginLoop
<1>3. /\ pos' = [pos EXCEPT ![l] = 0] /\ pos'[l] = 0
      /\ \A p \in Paths : p # l => pos'[p] = pos[p]
      /\ \A k \in Loopers : k # l => todo'[k] = todo[k] /\ status'[k] = status[k]
      /\ status'[l] = "OK" /\ cur' = l /\ aborted' = aborted
  BY <1>1 DEF BeginLoop, TypeOK
<1>4. TypeOK'
  <2>1. Solutions \subseteq Seq(BOOLEAN)
    BY BoundAssumption DEF Solutions
  <2>2. todo' \in [Loopers -> Seq(BOOLEAN)]
    BY <2>1 DEF BeginLoop, TypeOK
  <2>3. Members(l) \subseteq Modules
    BY <1>1, MembersAreModules
  <2> QED
    BY <1>1, <2>2, <2>3 DEF BeginLoop, TypeOK, Status
<1>5. ~aborted
  BY <1>1, PathAssumption DEF AbortIsObeyed, AtModule, Paths
<1>6. CallStack'
  <2>1. \A k \in Live \ {Root} : k \in Loopers /\ Owner(k) \in Paths
    BY <1>2, OwnerOfMember, PathAssumption DEF Paths
  <2>2. \A k \in Live \ {Root} : Owner(k) # l
    <3>1. \A k \in Live \ {Root} : Owner(k) \in Nest(k)
      BY <2>1, NestOfLooper
    <3> SUFFICES ASSUME NEW k \in Live \ {Root}, Owner(k) = l
                 PROVE  FALSE
      OBVIOUS
    <3>2. l \in Paths /\ k \in Loopers /\ k \in Modules /\ k \in Under[l] /\ l \in Under[cur]
      BY <1>1, <2>1, UnderStep, PathAssumption
    <3>3. cur = k \/ cur \in Under[k]
      BY <1>1 DEF Live, Nest
    <3>4. cur \in Loopers
      BY <3>2, <3>3, UnderIsModules, <1>1, PathAssumption DEF Paths
    <3>5. cur \in Under[l]
      BY <3>2, <3>3, UnderTransitive, <1>1
    <3> QED
      BY <3>2, <3>4, <3>5, UnderAcyclic
  <2>3. \A k \in Live' \ {Root} : AtModule(Owner(k))' /\ Module(Owner(k))' = k
    <3>1. AtModule(Owner(l))' /\ Module(Owner(l))' = l
      BY <1>1, <1>3 DEF AtModule, Module
    <3>2. \A k \in Live \ {Root} : AtModule(Owner(k))' /\ Module(Owner(k))' = k
      BY <1>3, <2>1, <2>2 DEF CallStack, AtModule, Module
    <3> QED
      BY <1>2, <3>1, <3>2
  <2>4. \A p \in Live' \ {cur'} : pos'[p] > 0
    BY <1>1, <1>2, <1>3 DEF CallStack
  <2> QED
    BY <1>1, <1>3, <2>3, <2>4 DEF CallStack
<1>7. LoopBrackets'
  BY <1>1, <1>2 DEF LoopBrackets, BeginLoop
<1>8. PathRunsOnValidSolution'
  <2>1. \A k \in Live \ {Root} : k # l /\ k \in Loopers /\ pos'[k] = pos[k] /\ todo'[k] = todo[k]
    BY <1>2, <1>3 DEF Paths
  <2>2. \A k \in Live \ {Root} : pos'[k] > 0 => todo'[k] # <<>> /\ Head(todo'[k])
    BY <2>1 DEF PathRunsOnValidSolution
  <2>3. ~(pos'[l] > 0)
    BY <1>3
  <2> QED
    BY <1>2, <2>2, <2>3 DEF PathRunsOnValidSolution
<1>9. AbortIsObeyed'
  BY <1>1, <1>2, <1>3, <1>5, PathAssumption DEF AbortIsObeyed, TypeOK, Paths
<1>10. FreshSoFar'
  <2>1. fresh' = fresh \ {l} /\ cur # None
    BY <1>1 DEF BeginLoop
  <2>2. Resets \subseteq fresh'
    BY <2>1, DepsAssumption DEF FreshSoFar
  <2>3. \A p \in Live' : \A i \in DOMAIN Path[p] :
           i < pos'[p] /\ Path[p][i] \notin Loopers => Path[p][i] \in fresh'
    <3>1. \A i \in DOMAIN Path[l] : ~(i < pos'[l])
      BY <1>1, <1>3, PathAssumption
    <3> QED
      BY <1>1, <1>2, <1>3, <2>1, <3>1 DEF FreshSoFar
  <2>4. \A k \in Live' \ {Root} : pos'[k] > 0 => k \in fresh'
    BY <1>1, <1>2, <1>3, <2>1 DEF FreshSoFar, TypeOK
  <2> QED
    BY <2>2, <2>3, <2>4 DEF FreshSoFar
<1> QED
  BY <1>4, <1>6, <1>7, <1>8, <1>9, <1>10

\* Return() is the tail of two steps, Work and EndLoop.  Path p called the
\* module that returned: p and the paths it is nested in are in these states...
CallersReady(p, s) ==
    /\ AtModule(p)
    /\ \A l \in Nest(p) \ {Root} :
          /\ AtModule(Owner(l)) /\ Module(Owner(l)) = l
          /\ todo[l] # <<>> /\ Head(todo[l])
          /\ s # "ABORT" => status[l] = "OK"
    /\ \A q \in Nest(p) : pos[q] > 0

\* ... and what is fresh for them is still so after the step.
OutputsReady(p, s) ==
    /\ Resets \subseteq fresh'
    /\ \A q \in Nest(p) : \A i \in DOMAIN Path[q] :
          i < pos[q] /\ Path[q][i] \notin Loopers => Path[q][i] \in fresh'
    /\ \A l \in Nest(p) \ {Root} : l \in fresh'
    /\ s = "OK" /\ Module(p) \notin Loopers => Module(p) \in fresh'

LEMMA ReturnStep ==
    ASSUME IInv, NEW p \in Paths, NEW s \in Status, Return(p, s),
           CallersReady(p, s), OutputsReady(p, s),
           aborted' = (s = "ABORT"),
           inLoop' = UNION {Members(l) : l \in Nest(p) \ {Root}},
           UNCHANGED <<phase, integrating, inPoint, finished>>,
           fresh' \subseteq Modules, runs' \in [Modules -> Nat]
    PROVE  IInv'
<1>1. /\ p \in Nest(p) /\ Nest(p) \subseteq Paths /\ Root \in Nest(p)
      /\ p # None /\ Path[p] \in Seq(Modules)
      /\ pos[p] \in Nat /\ pos[p] \in DOMAIN Path[p]
  <2>1. p # None /\ Path[p] \in Seq(Modules)
    BY PathAssumption DEF Paths
  <2>2. pos[p] \in Nat /\ pos[p] \in DOMAIN Path[p]
    BY DEF IInv, TypeOK, AtModule, CallersReady
  <2> QED
    BY <2>1, <2>2, NestFacts
<1>2. inLoop' \subseteq Modules
  BY <1>1, MembersAreModules
<1>3. Live' \ {Root} = Nest(p) \ {Root} => LoopBrackets'
  BY DEF LoopBrackets
<1>4. ASSUME cur' = p, \A q \in Nest(p) \ {p} : pos'[q] = pos[q],
             p = Root => pos'[Root] > 0
      PROVE  CallStack'
  <2>1. Live' = Nest(p)
    BY <1>4, LiveNext
  <2>2. \A l \in Nest(p) \ {Root} : Owner(l) \in Nest(p) \ {p}
    <3> SUFFICES ASSUME NEW l \in Nest(p) \ {Root}
                 PROVE  Owner(l) \in Nest(p) \ {p}
      OBVIOUS
    <3>1. l \in Loopers /\ l \in Modules /\ Owner(l) \in Paths /\ l \in Under[Owner(l)]
      BY <1>1, OwnerOfMember, UnderClosed, PathAssumption DEF Paths
    <3>2. p = l \/ p \in Under[l]
      BY <1>1 DEF Nest
    <3>3. p \in Under[Owner(l)]
      BY <3>1, <3>2, UnderTransitive
    <3>4. p \in Loopers
      BY <3>3, UnderIsModules, <3>1, PathAssumption DEF Paths
    <3>5. Owner(l) # p
      BY <3>3, <3>4, PathAssumption
    <3> QED
      BY <1>1, <3>1, <3>3, <3>5 DEF Nest
  <2>3. \A l \in Nest(p) \ {Root} : AtModule(Owner(l))' /\ Module(Owner(l))' = l
    BY <1>4, <2>2 DEF AtModule, Module, CallersReady
  <2>4. \A q \in Nest(p) \ {p} : pos'[q] > 0
    BY <1>4 DEF CallersReady
  <2> QED
    BY <1>4, <2>1, <2>3, <2>4 DEF CallStack
<1>5. CASE s = "OK"
  <2>1. /\ cur' = p /\ pos' = [pos EXCEPT ![p] = @ + 1]
        /\ todo' = todo /\ status' = status /\ result' = result /\ aborted' = FALSE
    BY <1>5 DEF Return
  <2>2. /\ pos' \in [Paths -> Nat] /\ pos'[p] = pos[p] + 1 /\ Live' = Nest(p)
        /\ \A q \in Paths : q # p => pos'[q] = pos[q]
    BY <1>1, <2>1, LiveNext DEF IInv, TypeOK
  <2>3. TypeOK'
    BY <1>2, <2>1, <2>2 DEF IInv, TypeOK
  <2>4. CallStack'
    BY <1>1, <1>4, <2>1, <2>2
  <2>5. PathRunsOnValidSolution'
    BY <2>1, <2>2 DEF PathRunsOnValidSolution, CallersReady
  <2>6. AbortIsObeyed'
    BY <2>1, <2>2 DEF AbortIsObeyed, CallersReady
  <2>7. FreshSoFar'
    <3>1. \A q \in Nest(p) : \A i \in DOMAIN Path[q] :
             i < pos'[q] /\ Path[q][i] \notin Loopers => Path[q][i] \in fresh'
      <4> SUFFICES ASSUME NEW q \in Nest(p), NEW i \in DOMAIN Path[q],
                          i < pos'[q], Path[q][i] \notin Loopers
                   PROVE  Path[q][i] \in fresh'
        OBVIOUS
      <4>1. q \in Paths /\ i \in Nat
        BY <1>1, PathAssumption
      <4>2. CASE q = p /\ i = pos[p]
        BY <1>5, <4>2 DEF Module, OutputsReady
      <4>3. CASE ~(q = p /\ i = pos[p])
        BY <1>1, <2>2, <4>1, <4>3 DEF OutputsReady
      <4> QED
        BY <4>2, <4>3
    <3> QED
      BY <2>2, <3>1 DEF FreshSoFar, OutputsReady
  <2>8. LoopBrackets'
    BY <1>3, <2>2
  <2> QED
    BY <2>3, <2>4, <2>5, <2>6, <2>7, <2>8 DEF IInv
<1>6. CASE s # "OK" /\ p = Root
  <2>1. cur' = None /\ result' = s /\ pos' = pos /\ todo' = todo /\ status' = status
    BY <1>6 DEF Return
  <2>2. Live' = {} /\ Nest(p) = {Root}
    BY <1>6, <2>1, LiveNext, NestOfRoot
  <2>3. TypeOK'
    BY <1>2, <2>1 DEF IInv, TypeOK, Status
  <2>4. CallStack'
    BY <1>1, <1>6, <2>1, <2>2 DEF CallStack
  <2>5. PathRunsOnValidSolution' /\ AbortIsObeyed' /\ FreshSoFar'
    BY <2>1, <2>2 DEF PathRunsOnValidSolution, AbortIsObeyed, FreshSoFar
  <2>6. LoopBrackets'
    BY <1>3, <2>2
  <2> QED
    BY <2>3, <2>4, <2>5, <2>6 DEF IInv
<1>7. CASE s # "OK" /\ p # Root
  <2>1. p \in Loopers /\ cur' = p /\ pos' = [pos EXCEPT ![p] = 0] /\ result' = result
    BY <1>7 DEF Return, Paths, Status
  <2>2. /\ pos' \in [Paths -> Nat] /\ pos'[p] = 0 /\ Live' = Nest(p)
        /\ \A q \in Paths : q # p => pos'[q] = pos[q]
    BY <1>1, <2>1, LiveNext DEF IInv, TypeOK
  <2>3. todo[p] # <<>> /\ Tail(todo[p]) \in Seq(BOOLEAN)
    <3>1. todo[p] \in Seq(BOOLEAN)
      BY <2>1 DEF IInv, TypeOK
    <3>2. todo[p] # <<>>
      BY <1>1, <1>7 DEF CallersReady
    <3> QED
      BY <3>1, <3>2, TailInSeq
  <2>4. /\ todo' \in [Loopers -> Seq(BOOLEAN)] /\ status' \in [Loopers -> Status]
        /\ \A l \in Loopers : l # p => todo'[l] = todo[l] /\ status'[l] = status[l]
        /\ IF s = "ABORT" THEN status'[p] = "ABORT" ELSE status'[p] = status[p]
    BY <1>7, <2>1, <2>3 DEF IInv, Return, TypeOK, Status
  <2>5. \A l \in Nest(p) \ {Root} : l \in Loopers
    BY <1>1 DEF Paths
  <2>6. TypeOK'
    BY <1>2, <2>1, <2>2, <2>4 DEF IInv, TypeOK
  <2>7. CallStack'
    BY <1>1, <1>4, <1>7, <2>1, <2>2
  <2>8. PathRunsOnValidSolution'
    <3>1. \A l \in Nest(p) \ {Root, p} : todo'[l] # <<>> /\ Head(todo'[l])
      BY <2>4, <2>5 DEF CallersReady
    <3>2. ~(pos'[p] > 0)
      BY <2>2
    <3> QED
      BY <2>2, <3>1, <3>2 DEF PathRunsOnValidSolution
  <2>9. AbortIsObeyed'
    BY <1>1, <1>7, <2>1, <2>2, <2>4, <2>5 DEF AbortIsObeyed, CallersReady
  <2>10. FreshSoFar'
    <3>1. \A q \in Nest(p) : \A i \in DOMAIN Path[q] :
             i < pos'[q] /\ Path[q][i] \notin Loopers => Path[q][i] \in fresh'
      <4>1. \A i \in DOMAIN Path[p] : ~(i < 0)
        BY <1>1
      <4> QED
        BY <1>1, <2>2, <4>1 DEF OutputsReady
    <3> QED
      BY <2>2, <3>1 DEF FreshSoFar, OutputsReady
  <2>11. LoopBrackets'
    BY <1>3, <2>2
  <2> QED
    BY <2>6, <2>7, <2>8, <2>9, <2>10, <2>11 DEF IInv
<1> QED
  BY <1>5, <1>6, <1>7

\* While a module can be called, nothing has been aborted.
LEMMA NotAborted ==
    ASSUME IInv, cur \in Paths, pos[cur] > 0
    PROVE  ~aborted /\ \A l \in Live \ {Root} : status[l] = "OK"
BY PathAssumption DEF IInv, AbortIsObeyed, Paths

LEMMA WorkStep ==
    ASSUME IInv, NEW m \in Modules, NEW s \in Status, Work(m, s)
    PROVE  IInv'
<1>1. /\ cur \in Paths /\ AtModule(cur) /\ Module(cur) = m /\ m \notin Loopers
      /\ pos[cur] > 0 /\ cur # None /\ Return(cur, s)
  BY AtModuleFacts DEF IInv, TypeOK, Work
<1>2. Live = Nest(cur) /\ Live \subseteq Paths
  BY <1>1, NestFacts, LiveNext
<1>3. \A q \in Live : pos[q] > 0
  BY <1>1 DEF IInv, CallStack
<1>4. CallersReady(cur, s)
  BY <1>1, <1>2, <1>3, NotAborted DEF IInv, CallersReady, CallStack, PathRunsOnValidSolution
<1>5. OutputsReady(cur, s)
  <2>1. fresh' = IF s = "OK" THEN fresh \cup {m} ELSE fresh \ ({m} \ Resets)
    BY DEF Work
  <2>2. Resets \subseteq fresh'
    BY <1>1, <2>1 DEF IInv, FreshSoFar
  <2>3. \A q \in Live : \A i \in DOMAIN Path[q] :
           i < pos[q] /\ Path[q][i] \notin Loopers => Path[q][i] \in fresh'
    <3> SUFFICES ASSUME NEW q \in Live, NEW i \in DOMAIN Path[q],
                        i < pos[q], Path[q][i] \notin Loopers
                 PROVE  Path[q][i] \in fresh'
      OBVIOUS
    <3>1. Path[q][i] \in fresh
      BY <1>1 DEF IInv, FreshSoFar
    <3>2. Path[q][i] # m
      <4>1. Path[q][i] = m => q = cur /\ i = pos[cur]
        BY <1>1, <1>2, OnePlace DEF AtModule, Module
      <4>2. pos[q] \in Nat
        BY <1>2 DEF IInv, TypeOK
      <4> QED
        BY <4>1, <4>2
    <3> QED
      BY <2>1, <3>1, <3>2
  <2>4. \A l \in Live \ {Root} : l \in fresh'
    <3>1. \A l \in Live \ {Root} : l \in fresh /\ l # m
      BY <1>1, <1>2, <1>3 DEF IInv, FreshSoFar, Paths
    <3> QED
      BY <2>1, <3>1
  <2>5. s = "OK" => Module(cur) \in fresh'
    BY <1>1, <2>1
  <2> QED
    BY <1>2, <2>2, <2>3, <2>4, <2>5 DEF OutputsReady
<1>6. aborted' = (s = "ABORT")
  BY DEF Work
<1>7. inLoop' = UNION {Members(l) : l \in Nest(cur) \ {Root}}
  BY <1>2 DEF IInv, LoopBrackets, Work, hooks
<1>8. UNCHANGED <<phase, integrating, inPoint, finished>>
  BY DEF Work, hooks
<1>9. fresh' \subseteq Modules /\ runs' \in [Modules -> Nat]
  BY DEF IInv, TypeOK, Work
<1> QED
  BY <1>1, <1>4, <1>5, <1>6, <1>7, <1>8, <1>9, ReturnStep

LEMMA EndLoopStep ==
    ASSUME IInv, NEW l \in Loopers, EndLoop(l)
    PROVE  IInv'
<1>1. cur = l /\ l \in Paths /\ l # Root /\ l \in Modules /\ Owner(l) \in Paths /\ cur # None
  BY OwnerOfMember, PathAssumption DEF EndLoop, Paths
<1>2. Live = Nest(Owner(l)) \cup {l} /\ l \notin Nest(Owner(l)) /\ Live \subseteq Paths
  BY <1>1, NestOfLooper, NestFacts, LiveNext
<1>3. \A q \in Nest(Owner(l)) : pos[q] > 0
  BY <1>1, <1>2 DEF IInv, CallStack
<1>4. status[l] = IF aborted THEN "ABORT" ELSE "OK"
  BY <1>1, <1>2 DEF IInv, AbortIsObeyed
<1>5. CallersReady(Owner(l), status[l])
  <2>1. AtModule(Owner(l)) /\ Module(Owner(l)) = l
    BY <1>1, <1>2 DEF IInv, CallStack
  <2>2. \A k \in Nest(Owner(l)) \ {Root} : ~aborted => status[k] = "OK"
    BY <1>2 DEF IInv, AbortIsObeyed
  <2>3. \A k \in Nest(Owner(l)) \ {Root} : todo[k] # <<>> /\ Head(todo[k])
    BY <1>2, <1>3 DEF IInv, PathRunsOnValidSolution
  <2>4. \A k \in Nest(Owner(l)) \ {Root} : AtModule(Owner(k)) /\ Module(Owner(k)) = k
    BY <1>2 DEF IInv, CallStack
  <2> QED
    BY <1>3, <1>4, <2>1, <2>2, <2>3, <2>4 DEF CallersReady
<1>6. OutputsReady(Owner(l), status[l])
  <2>1. fresh' = fresh \ {l} /\ l \in Loopers
    BY DEF EndLoop
  <2>2. Resets \subseteq fresh'
    BY <1>1, <2>1, DepsAssumption DEF IInv, FreshSoFar
  <2>3. \A q \in Nest(Owner(l)) : \A i \in DOMAIN Path[q] :
           i < pos[q] /\ Path[q][i] \notin Loopers => Path[q][i] \in fresh'
    BY <1>1, <1>2, <2>1 DEF IInv, FreshSoFar
  <2>4. \A k \in Nest(Owner(l)) \ {Root} : k \in fresh'
    BY <1>1, <1>2, <1>3, <2>1 DEF IInv, FreshSoFar
  <2>5. Module(Owner(l)) = l
    BY <1>1, <1>2 DEF IInv, CallStack
  <2> QED
    BY <2>1, <2>2, <2>3, <2>4, <2>5 DEF OutputsReady
<1>7. aborted' = (status[l] = "ABORT") /\ status[l] \in Status
  <2>1. aborted' = aborted /\ aborted \in BOOLEAN
    BY DEF IInv, TypeOK, EndLoop
  <2>2. status[l] \in Status
    BY DEF IInv, TypeOK
  <2>3. aborted <=> status[l] = "ABORT"
    BY <1>4
  <2>4. aborted = (status[l] = "ABORT")
    BY <2>1, <2>3, Zenon
  <2> QED
    BY <2>1, <2>2, <2>4, Zenon
<1>8. inLoop' = UNION {Members(k) : k \in Nest(Owner(l)) \ {Root}}
  <2>1. \A k \in Nest(Owner(l)) : Members(k) \cap Members(l) = {}
    BY <1>1, <1>2, MembersAreModules, OwnerOfMember
  <2>2. inLoop = UNION {Members(k) : k \in (Nest(Owner(l)) \ {Root}) \cup {l}}
    BY <1>1, <1>2 DEF IInv, LoopBrackets
  <2>3. inLoop' = inLoop \ Members(l)
    BY DEF EndLoop
  <2> QED
    BY <2>1, <2>2, <2>3, SMTT(30)
<1>9. UNCHANGED <<phase, integrating, inPoint, finished>>
  BY DEF EndLoop
<1>10. fresh' \subseteq Modules /\ runs' \in [Modules -> Nat] /\ Return(Owner(l), status[l])
  BY <1>1 DEF IInv, TypeOK, EndLoop
<1> QED
  BY <1>1, <1>5, <1>6, <1>7, <1>8, <1>9, <1>10, ReturnStep

LEMMA SkipInvalidSolutionStep ==
    ASSUME IInv, NEW l \in Loopers, SkipInvalidSolution(l)
    PROVE  IInv'
<1>1. /\ cur = l /\ l # None /\ pos[l] = 0 /\ Live' = Live /\ l \in Paths
      /\ UNCHANGED <<cur, pos, status, result, aborted, fresh, inLoop>>
  <2>1. l \in Modules /\ None \notin Modules /\ l \in Paths
    BY PathAssumption DEF Paths
  <2>2. /\ cur = l /\ pos[l] = 0
        /\ UNCHANGED <<cur, pos, status, result, aborted, fresh, inLoop>>
    BY DEF SkipInvalidSolution, hooks
  <2> QED
    BY <2>1, <2>2, LiveNext
<1>2. todo[l] \in Seq(BOOLEAN) /\ todo[l] # <<>> /\ todo' = [todo EXCEPT ![l] = Tail(@)]
  BY DEF IInv, TypeOK, SkipInvalidSolution
<1>3. todo' \in [Loopers -> Seq(BOOLEAN)] /\ \A k \in Loopers : k # l => todo'[k] = todo[k]
  BY <1>2, TailInSeq DEF IInv, TypeOK
<1>4. TypeOK'
  BY <1>1, <1>3 DEF IInv, TypeOK, SkipInvalidSolution, hooks
<1>5. CallStack' /\ LoopBrackets' /\ AbortIsObeyed' /\ FreshSoFar'
  BY <1>1 DEF IInv, CallStack, LoopBrackets, AbortIsObeyed, FreshSoFar, AtModule, Module
<1>6. PathRunsOnValidSolution'
  <2>1. \A k \in Live \ {Root} : k \in Loopers
    BY DEF Live, Nest, Paths
  <2>2. \A k \in Live \ {Root, l} : pos'[k] > 0 => todo'[k] # <<>> /\ Head(todo'[k])
    BY <1>1, <1>3, <2>1 DEF IInv, PathRunsOnValidSolution
  <2>3. ~(pos'[l] > 0)
    BY <1>1
  <2> QED
    BY <1>1, <2>2, <2>3 DEF PathRunsOnValidSolution
<1> QED
  BY <1>4, <1>5, <1>6 DEF IInv

LEMMA EndOfPathStep ==
    ASSUME IInv, NEW l \in Loopers, EndOfPath(l)
    PROVE  IInv'
<1>1. /\ cur = l /\ l # None /\ l # Root /\ l \in Paths /\ l \in Live /\ Live' = Live
      /\ UNCHANGED <<cur, status, result, aborted, fresh, inLoop>>
  BY LiveNext, NestFacts, PathAssumption DEF EndOfPath, hooks, Paths
<1>2. pos[l] > 0 /\ pos' = [pos EXCEPT ![l] = 0] /\ todo' = [todo EXCEPT ![l] = Tail(@)]
  BY <1>1, PathAssumption DEF EndOfPath, IInv, TypeOK
<1>3. todo[l] \in Seq(BOOLEAN) /\ todo[l] # <<>>
  BY <1>1, <1>2 DEF IInv, TypeOK, PathRunsOnValidSolution
<1>4. /\ todo' \in [Loopers -> Seq(BOOLEAN)] /\ pos' \in [Paths -> Nat] /\ pos'[l] = 0
      /\ \A k \in Loopers : k # l => todo'[k] = todo[k]
      /\ \A p \in Paths : p # l => pos'[p] = pos[p]
  BY <1>1, <1>2, <1>3, TailInSeq DEF IInv, TypeOK
<1>5. TypeOK'
  BY <1>1, <1>4 DEF IInv, TypeOK, EndOfPath, hooks
<1>6. \A k \in Live \ {Root} : k \in Loopers /\ Owner(k) \in Paths
  BY OwnerOfMember, PathAssumption DEF Live, Nest, Paths
<1>7. CallStack'
  <2>1. \A k \in Live \ {Root} : Owner(k) # l
    <3> SUFFICES ASSUME NEW k \in Live \ {Root}, Owner(k) = l
                 PROVE  FALSE
      OBVIOUS
    <3>1. AtModule(l) /\ pos[l] > Len(Path[l]) /\ Path[l] \in Seq(Modules)
      BY <1>1, PathAssumption DEF IInv, CallStack, EndOfPath
    <3> QED
      BY <3>1 DEF AtModule
  <2>2. \A k \in Live \ {Root} : AtModule(Owner(k))' /\ Module(Owner(k))' = k
    BY <1>4, <1>6, <2>1 DEF IInv, CallStack, AtModule, Module
  <2>3. \A p \in Live \ {l} : pos'[p] > 0
    BY <1>1, <1>4 DEF IInv, CallStack, Live, Nest
  <2> QED
    BY <1>1, <2>2, <2>3 DEF CallStack
<1>8. LoopBrackets' /\ AbortIsObeyed'
  <2>1. ~aborted
    BY <1>1, <1>2, NotAborted
  <2> QED
    BY <1>1, <2>1 DEF IInv, LoopBrackets, AbortIsObeyed
<1>9. PathRunsOnValidSolution'
  <2>1. \A k \in Live \ {Root, l} : pos'[k] > 0 => todo'[k] # <<>> /\ Head(todo'[k])
    BY <1>4, <1>6 DEF IInv, PathRunsOnValidSolution, Paths
  <2>2. ~(pos'[l] > 0)
    BY <1>4
  <2> QED
    BY <1>1, <2>1, <2>2 DEF PathRunsOnValidSolution
<1>10. FreshSoFar'
  <2>1. \A p \in Live : \A i \in DOMAIN Path[p] :
           i < pos'[p] /\ Path[p][i] \notin Loopers => Path[p][i] \in fresh
    <3>1. \A i \in DOMAIN Path[l] : ~(i < pos'[l])
      BY <1>1, <1>4, PathAssumption
    <3> QED
      BY <1>1, <1>4, <3>1 DEF IInv, FreshSoFar, Live, Nest
  <2>2. \A k \in Live \ {Root} : pos'[k] > 0 => k \in fresh
    BY <1>1, <1>4, <1>6 DEF IInv, FreshSoFar, Paths
  <2> QED
    BY <1>1, <2>1, <2>2 DEF IInv, FreshSoFar
<1> QED
  BY <1>5, <1>7, <1>8, <1>9, <1>10 DEF IInv

LEMMA StartSolutionStep ==
    ASSUME IInv, NEW l \in Loopers, StartSolution(l)
    PROVE  IInv'
<1>1. /\ cur = l /\ l # None /\ l # Root /\ l \in Paths /\ l \in Modules /\ l \in Live
      /\ Live' = Live /\ Live \subseteq Paths
      /\ UNCHANGED <<cur, todo, status, result, aborted, inLoop>>
  <2>1. cur = l /\ l # None /\ l # Root /\ l \in Paths /\ l \in Modules
    <3>1. cur = l
      BY DEF StartSolution
    <3>2. l \in Modules /\ Root \notin Modules /\ None \notin Modules
      BY PathAssumption
    <3> QED
      BY <3>1, <3>2 DEF Paths
  <2>2. UNCHANGED <<cur, todo, status, result, aborted, inLoop>>
    BY DEF StartSolution, hooks
  <2> QED
    BY <2>1, <2>2, LiveNext, NestFacts
<1>2. /\ pos[l] = 0 /\ pos' = [pos EXCEPT ![l] = 1] /\ todo[l] # <<>> /\ Head(todo[l])
      /\ fresh' = (fresh \ (Under[l] \ Resets)) \cup {l} /\ status[l] = "OK"
  BY DEF StartSolution
<1>3. /\ pos' \in [Paths -> Nat] /\ pos'[l] = 1
      /\ \A p \in Paths : p # l => pos'[p] = pos[p]
  BY <1>1, <1>2 DEF IInv, TypeOK
<1>4. TypeOK'
  BY <1>1, <1>2, <1>3 DEF IInv, TypeOK, StartSolution, hooks
<1>5. \A k \in Live \ {Root} : k \in Loopers /\ Owner(k) \in Paths
  BY OwnerOfMember, PathAssumption DEF Live, Nest, Paths
<1>6. CallStack'
  <2>1. \A k \in Live \ {Root} : Owner(k) # l
    <3> SUFFICES ASSUME NEW k \in Live \ {Root}, Owner(k) = l
                 PROVE  FALSE
      OBVIOUS
    <3>1. AtModule(l) /\ Path[l] \in Seq(Modules)
      BY <1>1, PathAssumption DEF IInv, CallStack
    <3>2. 0 \notin DOMAIN Path[l]
      BY <3>1
    <3> QED
      BY <1>2, <3>1, <3>2 DEF AtModule
  <2>2. \A k \in Live \ {Root} : AtModule(Owner(k))' /\ Module(Owner(k))' = k
    BY <1>3, <1>5, <2>1 DEF IInv, CallStack, AtModule, Module
  <2>3. \A p \in Live \ {l} : pos'[p] > 0
    BY <1>1, <1>3 DEF IInv, CallStack
  <2> QED
    BY <1>1, <2>2, <2>3 DEF CallStack
<1>7. LoopBrackets'
  BY <1>1 DEF IInv, LoopBrackets
<1>8. AbortIsObeyed'
  <2>1. ~aborted
    BY <1>1, <1>2 DEF IInv, AbortIsObeyed
  <2> QED
    BY <1>1, <2>1 DEF IInv, AbortIsObeyed
<1>9. PathRunsOnValidSolution'
  <2>1. \A k \in Live \ {Root, l} : pos'[k] > 0 => todo[k] # <<>> /\ Head(todo[k])
    BY <1>1, <1>3 DEF IInv, PathRunsOnValidSolution
  <2> QED
    BY <1>1, <1>2, <2>1 DEF PathRunsOnValidSolution
<1>10. FreshSoFar'
  <2>1. \A q \in Live \ {l} : q \notin Under[l]
    <3> SUFFICES ASSUME NEW q \in Live \ {l}, q \in Under[l]
                 PROVE  FALSE
      OBVIOUS
    <3>1. l \in Under[q] /\ q \in Loopers
      BY <1>1, UnderIsModules, PathAssumption DEF Live, Nest, Paths
    <3> QED
      BY <3>1, UnderAcyclic
  <2>2. Resets \subseteq fresh'
    BY <1>1, <1>2 DEF IInv, FreshSoFar
  <2>3. \A p \in Live : \A i \in DOMAIN Path[p] :
           i < pos'[p] /\ Path[p][i] \notin Loopers => Path[p][i] \in fresh'
    <3> SUFFICES ASSUME NEW p \in Live, NEW i \in DOMAIN Path[p],
                        i < pos'[p], Path[p][i] \notin Loopers
                 PROVE  Path[p][i] \in fresh'
      OBVIOUS
    <3>1. p # l
      BY <1>1, <1>3, PathAssumption
    <3>2. Path[p][i] \in fresh
      BY <1>1, <1>3, <3>1 DEF IInv, FreshSoFar
    <3>3. Path[p][i] \in Modules /\ Owner(Path[p][i]) = p
      BY <1>1, MembersAreModules, OwnerOfMember DEF Members
    <3>4. Path[p][i] \notin Under[l]
      BY <1>1, <2>1, <3>1, <3>3, UnderStep
    <3> QED
      BY <1>2, <3>2, <3>4
  <2>4. \A k \in Live \ {Root} : pos'[k] > 0 => k \in fresh'
    BY <1>1, <1>2, <1>3, <2>1 DEF IInv, FreshSoFar
  <2> QED
    BY <1>1, <2>2, <2>3, <2>4 DEF FreshSoFar
<1> QED
  BY <1>4, <1>6, <1>7, <1>8, <1>9, <1>10 DEF IInv

LEMMA NextIInv == IInv /\ [Next]_vars => IInv'
<1> SUFFICES ASSUME IInv, [Next]_vars
             PROVE  IInv'
  OBVIOUS
<1>1. CASE Configure \/ BeginIntegration \/ EndIntegration \/ Abandon \/ Finish \/ Done
  BY <1>1, HookStep
<1>2. CASE BeginPoint
  BY <1>2, BeginPointStep
<1>3. CASE \E m \in Modules, s \in Status : Work(m, s)
  BY <1>3, WorkStep
<1>4. CASE \E l \in Loopers : LooperStep(l)
  BY <1>4, BeginLoopStep, SkipInvalidSolutionStep, StartSolutionStep, EndOfPathStep,
     EndLoopStep DEF LooperStep
<1>5. CASE EndPoint
  BY <1>5, EndPointStep
<1>6. CASE UNCHANGED vars
  <2>1. UNCHANGED <<control, inLoop, aborted, fresh>>
    BY <1>6 DEF vars, control
  <2>2. TypeOK'
    BY <1>6 DEF IInv, TypeOK, vars
  <2> QED
    BY <2>1, <2>2, QuietStep
<1> QED
  BY <1>1, <1>2, <1>3, <1>4, <1>5, <1>6 DEF Next, Step

-----------------------------------------------------------------------------
(* Theorems                                                                *)

\* The inductive invariant holds in every reachable state, whatever the tree
\* of Loopers: the control state of the nested loops is consistent.
THEOREM Invariant == Spec => []IInv
BY InitIInv, NextIInv, PTL DEF Spec

\* Type correctness.
THEOREM TypeCorrect == Spec => []TypeOK
<1>1. IInv => TypeOK
  BY DEF IInv
<1> QED
  BY <1>1, Invariant, PTL

\* A path of a Looper is only run for a solution that the Looper found valid.
THEOREM PathsRunOnValidSolutions == Spec => []PathRunsOnValidSolution
<1>1. IInv => PathRunsOnValidSolution
  BY DEF IInv
<1> QED
  BY <1>1, Invariant, PTL

\* beginLoop() and endLoop() bracket the loops exactly, also on NEXT and ABORT.
THEOREM LoopsAreBracketed == Spec => []LoopBrackets
<1>1. IInv => LoopBrackets
  BY DEF IInv
<1> QED
  BY <1>1, Invariant, PTL

\* ABORT stops everything at any depth and reaches the caller of execute().
THEOREM AbortReachesTheCaller == Spec => []AbortIsObeyed
<1>1. IInv => AbortIsObeyed
  BY DEF IInv
<1> QED
  BY <1>1, Invariant, PTL

\* A module never reads a value left by another solution or another point.
THEOREM ReadsFresh == Spec => []ReadsAreFresh
<1>1. IInv => ReadsAreFresh
  <2> SUFFICES ASSUME IInv, cur # None, AtModule(cur), NEW d \in Deps[Module(cur)]
               PROVE  d \in fresh
    BY DEF ReadsAreFresh
  <2> DEFINE m == Module(cur)
  <2>1. /\ cur \in Paths /\ m \in Modules /\ Owner(m) = cur /\ pos[cur] > 0
        /\ Live = Nest(cur) /\ cur \in Live
    BY AtModuleFacts, NestFacts, LiveNext DEF IInv, TypeOK
  <2>2. \A q \in Live : pos[q] > 0
    BY <2>1 DEF IInv, CallStack
  <2>3. CASE d \in Resets
    BY <2>3 DEF IInv, FreshSoFar
  <2>4. CASE d \in Loopers /\ m \in Under[d]
    <3>1. d \in Paths /\ d # Root /\ (cur = d \/ cur \in Under[d])
      BY <2>1, <2>4, UnderStep, PathAssumption DEF Paths
    <3>2. d \in Live
      BY <2>1, <3>1 DEF Nest
    <3> QED
      BY <2>2, <3>1, <3>2 DEF IInv, FreshSoFar
  <2>5. CASE /\ d \notin Loopers
             /\ \E p \in Paths : \E i, j \in DOMAIN Path[p] :
                   /\ i < j /\ Path[p][i] = d
                   /\ \/ Path[p][j] = m
                      \/ Path[p][j] \in Loopers /\ m \in Under[Path[p][j]]
    <3>1. PICK p \in Paths : \E i, j \in DOMAIN Path[p] :
             /\ i < j /\ Path[p][i] = d
             /\ \/ Path[p][j] = m
                \/ Path[p][j] \in Loopers /\ m \in Under[Path[p][j]]
      BY <2>5
    <3>2. PICK i \in DOMAIN Path[p], j \in DOMAIN Path[p] :
             /\ i < j /\ Path[p][i] = d
             /\ \/ Path[p][j] = m
                \/ Path[p][j] \in Loopers /\ m \in Under[Path[p][j]]
      BY <3>1
    <3>3. CASE Path[p][j] = m
      <4>1. p = cur /\ j = pos[cur]
        BY <2>1, <3>3, OnePlace DEF AtModule, Module
      <4> QED
        BY <2>1, <2>5, <3>2, <4>1 DEF IInv, FreshSoFar
    <3>4. CASE Path[p][j] \in Loopers /\ m \in Under[Path[p][j]]
      <4> DEFINE k == Path[p][j]
      <4>1. k \in Paths /\ k \in Modules /\ k # Root /\ Owner(k) = p
        <5>1. k \in Paths /\ k \in Modules /\ k # Root
          BY <3>4, PathAssumption DEF Paths
        <5>2. k \in Members(p)
          BY DEF Members
        <5> QED
          BY <5>1, <5>2, OwnerOfMember
      <4>2. cur = k \/ cur \in Under[k]
        BY <2>1, <3>4, <4>1, UnderStep
      <4>3. k \in Live
        BY <2>1, <4>1, <4>2 DEF Nest
      <4>4. AtModule(p) /\ Module(p) = k
        BY <4>1, <4>3 DEF IInv, CallStack
      <4>5. j = pos[p]
        BY <4>4, OnePlace DEF AtModule, Module
      <4>6. p \in Live
        BY <3>4, <4>1, <4>3, NestOfLooper, UnderClosed, UnderTransitive, <2>1, <4>2 DEF Nest
      <4> QED
        BY <2>5, <3>2, <4>5, <4>6 DEF IInv, FreshSoFar
    <3> QED
      BY <3>2, <3>3, <3>4
  <2> QED
    BY <2>1, <2>3, <2>4, <2>5, DepsAssumption
<1> QED
  BY <1>1, Invariant, PTL

-----------------------------------------------------------------------------
(* The life of a module                                                    *)

\* A running execute() has called, once each, the modules of the default path
\* that come before the one it is at.
RootRunsOnce ==
    cur # None => \A i \in DOMAIN Path[Root] :
                     runs[Path[Root][i]] = IF i < pos[Root] THEN 1 ELSE 0

\* Where the job is: nothing runs before configure() or after finish(), and
\* every module is in a point while one is computed.
JobIsInOrder ==
    /\ cur # None => phase \in {"configured", "integrating"} /\ inPoint = Modules
    /\ phase # "finished" => finished = {}

LifecycleInv == IInv /\ RootRunsOnce /\ JobIsInOrder

\* What the actions say of the stack, in the terms of the lemmas below.
LEMMA AtRoot ==
    ASSUME IInv
    PROVE  /\ Root \in Paths /\ Root # None /\ Root \notin Loopers
           /\ Path[Root] \in Seq(Modules) /\ Members(Root) \subseteq Modules
           /\ Under[Root] = Modules
           /\ cur \in Paths \cup {None}
           /\ pos[Root] \in Nat
           /\ Live = Nest(cur)
           /\ cur \in {Root, None} => inLoop = {}
<1>1. Root \in Paths /\ Root # None /\ Root \notin Loopers /\ Path[Root] \in Seq(Modules)
      /\ Under[Root] = Modules
  BY PathAssumption DEF Paths
<1>2. Members(Root) \subseteq Modules
  BY <1>1, MembersAreModules
<1>3. cur \in Paths \cup {None} /\ pos[Root] \in Nat
  BY <1>1 DEF IInv, TypeOK
<1>4. Live = Nest(cur)
  BY DEF Live
<1>5. ASSUME cur \in {Root, None} PROVE inLoop = {}
  BY <1>4, <1>5, NestOfRoot DEF IInv, LoopBrackets
<1> QED
  BY <1>1, <1>2, <1>3, <1>4, <1>5

\* A module of a Looper path is in no other, and is in its loop exactly if the
\* Looper is being run.
LEMMA InLoopOfOwner ==
    ASSUME IInv, NEW m \in Modules
    PROVE  m \in inLoop <=> Owner(m) # Root /\ Owner(m) \in Live
<1>1. Owner(m) \in Paths /\ m \in Members(Owner(m))
      /\ \A p \in Paths : m \in Members(p) => p = Owner(m)
  BY OwnerOfMember
<1>2. Live \subseteq Paths
  BY DEF Live, Nest
<1> QED
  BY <1>1, <1>2 DEF IInv, LoopBrackets

\* An innermost Looper is called by the path around it.
LEMMA CallerOf ==
    ASSUME IInv, NEW l \in Loopers, cur = l
    PROVE  /\ l \in Modules /\ l \in Paths /\ l # Root /\ l # None
           /\ Owner(l) \in Paths /\ l \in Members(Owner(l))
           /\ AtModule(Owner(l)) /\ Module(Owner(l)) = l
           /\ Owner(l) \in Live /\ l \in Live /\ Owner(l) # l
<1>1. l \in Modules /\ l \in Paths /\ l # Root /\ l # None
  BY PathAssumption DEF Paths
<1>2. Owner(l) \in Paths /\ l \in Members(Owner(l))
  BY <1>1, OwnerOfMember
<1>3. l \in Live /\ Owner(l) \in Live /\ Owner(l) # l
  BY <1>1, NestOfLooper DEF Live, Nest
<1> QED
  BY <1>1, <1>2, <1>3 DEF IInv, CallStack

-----------------------------------------------------------------------------
(* It is kept                                                              *)

\* The return of the module a path is at: what was run on the default path.
LEMMA ReturnKeepsRoot ==
    ASSUME IInv, RootRunsOnce, cur # None, NEW p \in Paths, NEW s \in Status,
           AtModule(p), Return(p, s), runs' = [runs EXCEPT ![Module(p)] = @ + 1]
    PROVE  RootRunsOnce'
<1> DEFINE m == Module(p)
<1>1. m \in Modules /\ m \in Members(p) /\ Owner(m) = p
  BY AtModuleFacts
<1>2. /\ Path[Root] \in Seq(Modules) /\ Root \in Paths /\ pos \in [Paths -> Nat]
      /\ runs \in [Modules -> Nat]
  BY AtRoot DEF IInv, TypeOK
<1>3. CASE p # Root
  <2>1. pos'[Root] = pos[Root]
    BY <1>2, <1>3 DEF Return
  <2>2. \A i \in DOMAIN Path[Root] : Path[Root][i] # m
    BY <1>1, <1>2, <1>3, OwnerOfMember DEF Members
  <2>3. \A i \in DOMAIN Path[Root] : runs'[Path[Root][i]] = runs[Path[Root][i]]
    BY <1>1, <1>2, <2>2
  <2> QED
    BY <2>1, <2>3 DEF RootRunsOnce
<1>4. CASE p = Root
  <2>1. SUFFICES ASSUME cur' # None PROVE RootRunsOnce'
    BY DEF RootRunsOnce
  <2>2. pos'[Root] = pos[Root] + 1
    BY <1>2, <1>4, <2>1 DEF Return
  <2>3. pos[Root] \in DOMAIN Path[Root] /\ Path[Root][pos[Root]] = m
    BY <1>4 DEF AtModule, Module
  <2>4. \A i \in DOMAIN Path[Root] : Path[Root][i] = m <=> i = pos[Root]
    BY <1>2, <2>3, OnePlace
  <2>5. \A i \in DOMAIN Path[Root] : i \in Nat /\ Path[Root][i] \in Modules
    BY <1>2
  <2> SUFFICES ASSUME NEW i \in DOMAIN Path[Root]
               PROVE  runs'[Path[Root][i]] = IF i < pos'[Root] THEN 1 ELSE 0
    BY DEF RootRunsOnce
  <2>6. runs[Path[Root][i]] = IF i < pos[Root] THEN 1 ELSE 0
    BY DEF RootRunsOnce
  <2>7. CASE i = pos[Root]
    BY <1>1, <1>2, <2>2, <2>4, <2>5, <2>6, <2>7
  <2>8. CASE i # pos[Root]
    <3>1. runs'[Path[Root][i]] = runs[Path[Root][i]]
      BY <1>1, <1>2, <2>4, <2>5, <2>8
    <3>2. i < pos[Root] <=> i < pos'[Root]
      BY <1>2, <2>2, <2>5, <2>8
    <3> QED
      BY <2>6, <3>1, <3>2
  <2> QED
    BY <2>7, <2>8
<1> QED
  BY <1>3, <1>4

LEMMA RootRunsNext ==
    ASSUME IInv, RootRunsOnce, [Next]_vars
    PROVE  RootRunsOnce'
<1>1. ASSUME UNCHANGED <<cur, pos, runs>> PROVE RootRunsOnce'
  BY <1>1 DEF RootRunsOnce
<1>2. CASE Configure \/ BeginIntegration \/ EndIntegration \/ Abandon \/ Finish \/ Done
           \/ UNCHANGED vars
  BY <1>1, <1>2 DEF Configure, BeginIntegration, EndIntegration, Abandon, Finish, Done, vars, control
<1>3. CASE BeginPoint
  <2>1. pos'[Root] = 1
    BY <1>3, AtRoot DEF BeginPoint, IInv, TypeOK
  <2>2. \A i \in DOMAIN Path[Root] : Path[Root][i] \in Modules /\ ~(i < 1)
    BY AtRoot
  <2>3. \A m \in Modules : runs'[m] = 0
    BY <1>3, AtRoot DEF BeginPoint
  <2> QED
    BY <2>1, <2>2, <2>3 DEF RootRunsOnce
<1>4. ASSUME NEW m \in Modules, NEW s \in Status, Work(m, s) PROVE RootRunsOnce'
  <2>1. cur \in Paths /\ AtModule(cur) /\ Module(cur) = m
    BY <1>4, AtRoot DEF Work
  <2> QED
    BY <1>4, <2>1, ReturnKeepsRoot DEF Work
<1>5. ASSUME NEW l \in Loopers, BeginLoop(l) PROVE RootRunsOnce'
  <2>1. pos'[Root] = pos[Root] /\ runs' = runs /\ cur # None
    BY <1>5, AtRoot DEF BeginLoop, IInv, TypeOK
  <2> QED
    BY <2>1 DEF RootRunsOnce
<1>6. ASSUME NEW l \in Loopers, SkipInvalidSolution(l) \/ StartSolution(l) \/ EndOfPath(l)
      PROVE  RootRunsOnce'
  <2>1. pos'[Root] = pos[Root] /\ runs' = runs /\ cur' = cur
    BY <1>6, AtRoot DEF SkipInvalidSolution, StartSolution, EndOfPath, IInv, TypeOK
  <2> QED
    BY <2>1 DEF RootRunsOnce
<1>7. ASSUME NEW l \in Loopers, EndLoop(l) PROVE RootRunsOnce'
  <2>1. cur = l
    BY <1>7 DEF EndLoop
  <2>2. cur # None /\ Owner(l) \in Paths /\ AtModule(Owner(l)) /\ Module(Owner(l)) = l
    BY <2>1, CallerOf
  <2>3. status[l] \in Status
    BY DEF IInv, TypeOK
  <2> QED
    BY <1>7, <2>2, <2>3, ReturnKeepsRoot DEF EndLoop
<1>8. CASE EndPoint
  BY <1>8 DEF EndPoint, RootRunsOnce
<1> QED
  BY <1>2, <1>3, <1>4, <1>5, <1>6, <1>7, <1>8 DEF Next, Step, LooperStep

LEMMA JobNext ==
    ASSUME IInv, JobIsInOrder, [Next]_vars
    PROVE  JobIsInOrder'
<1>1. Under[Root] = Modules /\ inPoint \subseteq Modules /\ cur \in Paths \cup {None}
      /\ Root # None
  BY AtRoot DEF IInv, TypeOK
<1>2. CASE UNCHANGED vars \/ Done
  BY <1>2 DEF Done, vars, JobIsInOrder
<1>3. CASE Configure \/ BeginIntegration \/ EndIntegration \/ Abandon \/ Finish
  BY <1>3 DEF Configure, BeginIntegration, EndIntegration, Abandon, Finish, control, JobIsInOrder
<1>4. CASE BeginPoint
  BY <1>1, <1>4 DEF BeginPoint, JobIsInOrder
<1>5. CASE Step
  <2>1. cur # None
    <3>1. ASSUME NEW l \in Loopers, cur = l PROVE cur # None
      BY <3>1, PathAssumption
    <3> QED
      BY <1>1, <1>5, <3>1 DEF Step, LooperStep, Work, BeginLoop, SkipInvalidSolution,
              StartSolution, EndOfPath, EndLoop, EndPoint
  <2>2. phase' = phase /\ finished' = finished /\ (inPoint' = inPoint \/ cur' = None)
    BY <1>5 DEF Step, LooperStep, Work, BeginLoop, SkipInvalidSolution, StartSolution,
              EndOfPath, EndLoop, EndPoint, hooks
  <2> QED
    BY <2>1, <2>2 DEF JobIsInOrder
<1> QED
  BY <1>2, <1>3, <1>4, <1>5 DEF Next

LEMMA LifecycleInvariant == Spec => []LifecycleInv
<1>1. Init => RootRunsOnce /\ JobIsInOrder
  BY DEF Init, RootRunsOnce, JobIsInOrder
<1>2. IInv /\ RootRunsOnce /\ JobIsInOrder /\ [Next]_vars => RootRunsOnce' /\ JobIsInOrder'
  BY RootRunsNext, JobNext
<1> QED
  BY <1>1, <1>2, Invariant, PTL DEF Spec, LifecycleInv

-----------------------------------------------------------------------------
(* What execute() answers                                                  *)

\* The default path ended well: it was all run.
WholePathRan ==
    cur = Root /\ cur' = None /\ result' = "OK" => \A m \in Members(Root) : runs[m] = 1

\* execute() answers OK only after each module of the default path was run,
\* once, whatever the modules answered.
THEOREM OkIsWhole == Spec => OkMeansWholePathRan
<1>1. ASSUME LifecycleInv, [Next]_vars PROVE [WholePathRan]_vars
  <2> SUFFICES ASSUME cur = Root, cur' = None, result' = "OK", NEW m \in Members(Root)
               PROVE  runs[m] = 1
    BY DEF WholePathRan
  <2>1. IInv /\ RootRunsOnce /\ Root # None /\ Root \notin Loopers
    BY <1>1, AtRoot DEF LifecycleInv
  <2>2. CASE EndPoint
    <3>1. \A i \in DOMAIN Path[Root] : i < pos[Root]
      BY <2>1, <2>2, AtRoot DEF EndPoint
    <3> QED
      BY <2>1, <3>1 DEF RootRunsOnce, Members
  <2>3. ASSUME NEW k \in Modules, NEW s \in Status, Work(k, s) PROVE FALSE
    <3>1. Return(Root, s)
      BY <2>3 DEF Work
    <3> QED
      BY <2>1, <3>1 DEF Return
  <2>4. ASSUME NEW l \in Loopers, LooperStep(l) PROVE FALSE
    <3>1. l # None /\ l # Root
      BY PathAssumption
    <3> QED
      BY <2>1, <2>4, <3>1 DEF LooperStep, BeginLoop, SkipInvalidSolution, StartSolution,
              EndOfPath, EndLoop
  <2>5. ASSUME cur' = cur PROVE FALSE
    BY <2>1, <2>5
  <2>6. ~(Configure \/ BeginIntegration \/ EndIntegration \/ Abandon \/ Finish \/ BeginPoint
          \/ Done \/ UNCHANGED vars)
    BY <2>1, <2>5 DEF Configure, BeginIntegration, EndIntegration, Abandon, Finish, BeginPoint,
              Done, vars, control
  <2> QED
    BY <1>1, <2>2, <2>3, <2>4, <2>6 DEF Next, Step
<1>2. Spec => [][WholePathRan]_vars
  BY <1>1, LifecycleInvariant, PTL DEF Spec
<1> QED
  BY <1>2 DEF OkMeansWholePathRan, WholePathRan

-----------------------------------------------------------------------------
(* The refinement                                                          *)

\* A step of the life of one module.
LifeStep(m) == [Life(m)!Next]_(Life(m)!vars)

LEMMA LifeInit == ASSUME Init, NEW m \in Modules PROVE Life(m)!Init
BY DEF Init, Life!Init

\* The module sees nothing of the step.
LEMMA LifeStutters ==
    ASSUME NEW m \in Modules,
           phase # "constructed" <=> phase' # "constructed",
           m \in integrating' <=> m \in integrating, m \in inPoint' <=> m \in inPoint,
           m \in inLoop' <=> m \in inLoop, m \in finished' <=> m \in finished,
           runs'[m] = runs[m]
    PROVE  LifeStep(m)
BY DEF LifeStep, Life!vars

\* The calls of the owner, which every module gets, or but for finish() only
\* those of the default path.
LEMMA HooksOfTheJob ==
    ASSUME LifecycleInv, NEW m \in Modules,
           Configure \/ BeginIntegration \/ EndIntegration \/ Abandon \/ Finish \/ BeginPoint
    PROVE  LifeStep(m)
<1>1. Under[Root] = Modules /\ integrating \subseteq Modules /\ finished \subseteq Modules
      /\ IInv /\ JobIsInOrder
  BY AtRoot DEF LifecycleInv, IInv, TypeOK
<1>2. CASE Configure
  <2>1. Life(m)!Configure
    BY <1>2 DEF Configure, Life!Configure
  <2> QED
    BY <2>1 DEF LifeStep, Life!Next
<1>3. ASSUME cur = None, phase \in {"configured", "integrating"}
      PROVE  Life(m)!Idle
  BY <1>1, <1>3, AtRoot DEF Life!Idle, JobIsInOrder
<1>4. CASE BeginIntegration
  <2>1. Life(m)!BeginIntegration
    BY <1>1, <1>3, <1>4 DEF BeginIntegration, Life!BeginIntegration
  <2> QED
    BY <2>1 DEF LifeStep, Life!Next
<1>5. CASE EndIntegration
  <2>1. CASE m \in integrating
    <3>1. Life(m)!EndIntegration
      BY <1>1, <1>3, <1>5, <2>1 DEF EndIntegration, Life!EndIntegration
    <3> QED
      BY <3>1 DEF LifeStep, Life!Next
  <2>2. CASE m \notin integrating
    BY <1>5, <2>2, LifeStutters DEF EndIntegration
  <2> QED
    BY <2>1, <2>2
<1>6. CASE Abandon
  BY <1>6, LifeStutters DEF Abandon
<1>7. CASE Finish
  <2>1. finished = {}
    BY <1>1, <1>7 DEF Finish, JobIsInOrder
  <2>2. CASE m \in Members(Root)
    <3>1. Life(m)!Finish
      BY <1>3, <1>7, <2>2 DEF Finish, Life!Finish
    <3> QED
      BY <3>1 DEF LifeStep, Life!Next
  <2>3. CASE m \notin Members(Root)
    BY <1>7, <2>1, <2>3, LifeStutters DEF Finish
  <2> QED
    BY <2>2, <2>3
<1>8. CASE BeginPoint
  <2>1. Life(m)!BeginPoint
    BY <1>1, <1>3, <1>8 DEF BeginPoint, Life!BeginPoint
  <2> QED
    BY <2>1 DEF LifeStep, Life!Next
<1> QED
  BY <1>2, <1>4, <1>5, <1>6, <1>7, <1>8

\* The call of work(): inside the loop of the path the module is in, or once in
\* this point for a module of the default path.
LEMMA WorkOfTheCalled ==
    ASSUME LifecycleInv, cur # None, NEW p \in Live, AtModule(p), NEW m \in Modules, Module(p) = m,
           m \in inLoop' <=> m \in inLoop,
           UNCHANGED <<phase, integrating, inPoint, finished>>,
           runs' = [runs EXCEPT ![m] = @ + 1]
    PROVE  Life(m)!Work
<1>1. IInv /\ RootRunsOnce /\ JobIsInOrder /\ p \in Paths /\ runs \in [Modules -> Nat]
  BY DEF LifecycleInv, IInv, TypeOK, Live, Nest
<1>2. Owner(m) = p /\ m \in Members(p)
  BY <1>1, AtModuleFacts
<1>3. m \in inPoint
  BY <1>1 DEF JobIsInOrder
<1>4. CASE p # Root
  <2>1. m \in inLoop /\ m \notin Members(Root)
    BY <1>1, <1>2, <1>4, InLoopOfOwner, OwnerOfMember, AtRoot
  <2> QED
    BY <1>1, <1>3, <2>1 DEF Life!Work
<1>5. CASE p = Root
  <2>1. m \notin inLoop
    BY <1>1, <1>2, <1>5, InLoopOfOwner
  <2>2. Path[Root] \in Seq(Modules) /\ pos[Root] \in DOMAIN Path[Root] /\ Path[Root][pos[Root]] = m
    BY <1>1, <1>5, AtRoot DEF AtModule, Module
  <2>3. runs[m] = 0
    BY <2>2 DEF LifecycleInv, RootRunsOnce
  <2>4. phase # "constructed" /\ m \notin finished
    BY <1>1 DEF JobIsInOrder
  <2> QED
    BY <1>1, <1>2, <1>3, <1>5, <2>1, <2>3, <2>4 DEF Life!Work, Life!Idle
<1> QED
  BY <1>4, <1>5

LEMMA WorkStepOfLife ==
    ASSUME LifecycleInv, NEW k \in Modules, NEW s \in Status, Work(k, s), NEW m \in Modules
    PROVE  LifeStep(m)
<1>1. cur \in Live /\ AtModule(cur) /\ Module(cur) = k /\ cur # None
  BY AtRoot, NestFacts DEF Work, LifecycleInv
<1>2. runs \in [Modules -> Nat] /\ runs' = [runs EXCEPT ![k] = @ + 1]
  BY DEF Work, LifecycleInv, IInv, TypeOK
<1>3. CASE m = k
  <2>1. Life(m)!Work
    BY <1>1, <1>2, <1>3, WorkOfTheCalled DEF Work, hooks
  <2> QED
    BY <2>1 DEF LifeStep, Life!Next
<1>4. CASE m # k
  BY <1>2, <1>4, LifeStutters DEF Work, hooks
<1> QED
  BY <1>3, <1>4

LEMMA BeginLoopOfLife ==
    ASSUME LifecycleInv, NEW l \in Loopers, BeginLoop(l), NEW m \in Modules
    PROVE  LifeStep(m)
<1>1. IInv /\ JobIsInOrder /\ cur # None /\ cur \in Paths /\ AtModule(cur) /\ Module(cur) = l
      /\ l \in Paths /\ l # Root
  BY AtRoot, PathAssumption DEF BeginLoop, LifecycleInv, Paths
<1>2. CASE m \in Members(l)
  <2>1. Owner(m) = l /\ m \notin Members(Root)
    BY <1>1, <1>2, OwnerOfMember, AtRoot
  <2>2. l \notin Live
    BY <1>1, AtModuleFacts, NestOfLooper DEF Live
  <2>3. m \notin inLoop
    BY <1>1, <2>1, <2>2, InLoopOfOwner
  <2>4. m \in inPoint /\ phase # "constructed" /\ m \notin finished
    BY <1>1 DEF JobIsInOrder
  <2>5. Life(m)!BeginLoop
    BY <1>2, <2>1, <2>3, <2>4 DEF BeginLoop, Life!BeginLoop, Life!Idle
  <2> QED
    BY <2>5 DEF LifeStep, Life!Next
<1>3. CASE m \notin Members(l)
  BY <1>3, LifeStutters DEF BeginLoop
<1> QED
  BY <1>2, <1>3

\* endLoop() on the path, and the return of the Looper's own work().
LEMMA EndLoopOfLife ==
    ASSUME LifecycleInv, NEW l \in Loopers, EndLoop(l), NEW m \in Modules
    PROVE  LifeStep(m)
<1>1. IInv /\ cur = l /\ runs \in [Modules -> Nat] /\ runs' = [runs EXCEPT ![l] = @ + 1]
  BY DEF EndLoop, LifecycleInv, IInv, TypeOK
<1>2. /\ l \in Modules /\ l \in Paths /\ l # Root /\ l # None
      /\ Owner(l) \in Live /\ AtModule(Owner(l)) /\ Module(Owner(l)) = l
      /\ l \in Live /\ Owner(l) # l
  BY <1>1, CallerOf
<1>3. l \notin Members(l)
  BY <1>2, OwnerOfMember
<1>4. CASE m \in Members(l)
  <2>1. Owner(m) = l
    BY <1>2, <1>4, OwnerOfMember
  <2>2. m \in inLoop
    BY <1>1, <1>2, <2>1, InLoopOfOwner
  <2>3. Life(m)!EndLoop
    BY <1>1, <1>3, <1>4, <2>2 DEF EndLoop, Life!EndLoop
  <2> QED
    BY <2>3 DEF LifeStep, Life!Next
<1>5. CASE m = l
  <2>1. Life(m)!Work
    BY <1>1, <1>2, <1>3, <1>5, WorkOfTheCalled DEF EndLoop
  <2> QED
    BY <2>1 DEF LifeStep, Life!Next
<1>6. CASE m \notin Members(l) /\ m # l
  BY <1>1, <1>6, LifeStutters DEF EndLoop
<1> QED
  BY <1>4, <1>5, <1>6

LEMMA EndPointOfLife ==
    ASSUME LifecycleInv, EndPoint, NEW m \in Modules
    PROVE  LifeStep(m)
<1>1. IInv /\ JobIsInOrder /\ cur # None /\ Under[Root] = Modules /\ inLoop = {}
      /\ phase # "constructed" /\ m \notin finished /\ m \in inPoint
  BY AtRoot DEF EndPoint, LifecycleInv, JobIsInOrder
<1>2. Life(m)!EndPoint
  BY <1>1 DEF EndPoint, Life!EndPoint, Life!Idle
<1> QED
  BY <1>2 DEF LifeStep, Life!Next

LEMMA LifeNext ==
    ASSUME LifecycleInv, [Next]_vars, NEW m \in Modules
    PROVE  LifeStep(m)
<1>1. CASE UNCHANGED vars \/ Done
  BY <1>1, LifeStutters DEF Done, vars
<1>2. ASSUME NEW l \in Loopers, SkipInvalidSolution(l) \/ StartSolution(l) \/ EndOfPath(l)
      PROVE  LifeStep(m)
  BY <1>2, LifeStutters DEF SkipInvalidSolution, StartSolution, EndOfPath, hooks
<1> QED
  BY <1>1, <1>2, HooksOfTheJob, WorkStepOfLife, BeginLoopOfLife, EndLoopOfLife, EndPointOfLife
     DEF Next, Step, LooperStep

\* Execution implements ModuleLifecycle for every module at once: whatever the
\* tree of Loopers and the answers of the modules, each module sees its hooks
\* in the order Module.h describes.
THEOREM EveryModuleHasItsLifecycle == Spec => LifecycleIsRespected
<1>1. Init => \A m \in Modules : Life(m)!Init
  BY LifeInit
<1>2. LifecycleInv /\ [Next]_vars => \A m \in Modules : LifeStep(m)
  BY LifeNext
<1>3. Spec => [][\A m \in Modules : LifeStep(m)]_vars
  BY <1>2, LifecycleInvariant, PTL DEF Spec
<1>4. Spec => \A m \in Modules : Life(m)!Init
  BY <1>1, PTL DEF Spec
<1> QED
  BY <1>3, <1>4 DEF LifecycleIsRespected, LifeStep
=============================================================================
