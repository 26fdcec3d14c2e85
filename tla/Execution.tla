------------------------------- MODULE Execution -------------------------------
(***************************************************************************)
(* The execution engine of the computation graph: ComputationGraph runs    *)
(* the modules of the default execution path, and every Looper runs the    *)
(* modules of its own path once per valid solution.  The paths form a tree *)
(* whose root is the default path; the C++ call stack of nested work()     *)
(* calls is `cur', the innermost path being run, with one program counter  *)
(* `pos' per path.                                                         *)
(***************************************************************************)
EXTENDS Integers, Sequences, FiniteSets

CONSTANTS
    Modules,      \* module instances
    Loopers,      \* those of type Looper
    Root,         \* the default execution path (ComputationGraph::modules)
    None,
    Path,         \* Path[p]: the modules of path p, in execution order
    Deps,         \* Deps[m]: the modules whose outputs m reads in work()
    Resets,       \* modules whose beginPoint() rewrites their output (LooperSummer)
    MaxSolutions  \* bound on the solutions a Looper is given

Paths == Loopers \cup {Root}

Status == {"OK", "NEXT", "ABORT"}

Members(p) == {Path[p][i] : i \in DOMAIN Path[p]}

\* The modules a call made on every member of p reaches when Loopers forward it.
Forward(p) == {m \in Modules : \A S \in SUBSET Modules :
                  (/\ Members(p) \subseteq S
                   /\ \A l \in S \cap Loopers : Members(l) \subseteq S) => m \in S}

Under == [p \in Paths |-> Forward(p)]

\* Every instance is in one place of one path, and is reached from the root.
ASSUME PathAssumption ==
    /\ Loopers \subseteq Modules
    /\ Root \notin Modules /\ None \notin Modules \cup {Root}
    /\ Path \in [Paths -> Seq(Modules)]
    /\ \A p, q \in Paths : \A i \in DOMAIN Path[p], j \in DOMAIN Path[q] :
          Path[p][i] = Path[q][j] => p = q /\ i = j
    /\ Under[Root] = Modules
    /\ \A l \in Loopers : l \notin Under[l]

\* The order the builder gives (RunsAfterItsInputs and LooperOutputsStayInside
\* of GraphBuilder): an output is read after it is written, by a module of the
\* same path or of a path nested further down; a Looper's outputs are read
\* inside its path only.  And the way loops are configured: what the modules of
\* a path produce is read from outside it only when beginPoint() resets it.
ASSUME DepsAssumption ==
    /\ Deps \in [Modules -> SUBSET Modules]
    /\ Resets \subseteq Modules \ Loopers
    /\ \A m \in Modules : \A d \in Deps[m] :
          \/ d \in Resets
          \/ d \in Loopers /\ m \in Under[d]
          \/ /\ d \notin Loopers
             /\ \E p \in Paths : \E i, j \in DOMAIN Path[p] :
                   /\ i < j /\ Path[p][i] = d
                   /\ \/ Path[p][j] = m
                      \/ Path[p][j] \in Loopers /\ m \in Under[Path[p][j]]

ASSUME BoundAssumption == MaxSolutions \in Nat

VARIABLES
    phase,        \* job state, as seen by the owner of the graph
    cur,          \* innermost path being run, None outside execute()
    pos,          \* pos[p]: index of the module of p being run; 0 between solutions
    todo,         \* todo[l]: solutions left in Looper l, TRUE for a valid one
    status,       \* status[l]: the local variable of Looper::work()
    result,       \* what the last execute() returned
    integrating,  \* modules that had beginIntegration() but no endIntegration()
    inPoint,      \* modules that had beginPoint() but no endPoint()
    inLoop,       \* modules that had beginLoop() but no endLoop()
    finished,     \* modules that had finish()
    aborted,      \* history: a module returned ABORT in this point
    fresh,        \* modules whose outputs belong to this point and solution
    runs          \* runs[m]: work() calls of m since beginPoint()

control == <<cur, pos, todo, status, result>>
hooks   == <<phase, integrating, inPoint, inLoop, finished>>
vars    == <<phase, cur, pos, todo, status, result, integrating, inPoint,
             inLoop, finished, aborted, fresh, runs>>

Owner(m) == CHOOSE p \in Paths : m \in Members(p)

Solutions == UNION {[1..n -> BOOLEAN] : n \in 0..MaxSolutions}

\* The module whose work() path p is about to call.
AtModule(p) == pos[p] \in DOMAIN Path[p]
Module(p)   == Path[p][pos[p]]

Init ==
    /\ phase = "constructed"
    /\ cur = None
    /\ pos = [p \in Paths |-> 0]
    /\ todo = [l \in Loopers |-> <<>>]
    /\ status = [l \in Loopers |-> "OK"]
    /\ result = "OK"
    /\ integrating = {} /\ inPoint = {} /\ inLoop = {} /\ finished = {}
    /\ aborted = FALSE
    /\ fresh = {}
    /\ runs = [m \in Modules |-> 0]

-----------------------------------------------------------------------------
(* Calls of the graph's owner.  Looper forwards all of them but finish().  *)

Configure ==
    /\ phase = "constructed"
    /\ phase' = "configured"
    /\ UNCHANGED <<control, integrating, inPoint, inLoop, finished, aborted, fresh, runs>>

BeginIntegration ==
    /\ phase = "configured" /\ cur = None
    /\ phase' = "integrating"
    /\ integrating' = Under[Root]
    /\ UNCHANGED <<control, inPoint, inLoop, finished, aborted, fresh, runs>>

EndIntegration ==
    /\ phase = "integrating" /\ cur = None
    /\ phase' = "configured"
    /\ integrating' = integrating \ Under[Root]
    /\ UNCHANGED <<control, inPoint, inLoop, finished, aborted, fresh, runs>>

\* computeWeights() is left by an exception, over a non-finite integrand or an
\* unknown algorithm: the integration is abandoned without endIntegration().
Abandon ==
    /\ phase = "integrating" /\ cur = None
    /\ phase' = "configured"
    /\ UNCHANGED <<control, integrating, inPoint, inLoop, finished, aborted, fresh, runs>>

Finish ==
    /\ phase = "configured" /\ cur = None
    /\ phase' = "finished"
    /\ finished' = Members(Root)
    /\ UNCHANGED <<control, integrating, inPoint, inLoop, aborted, fresh, runs>>

-----------------------------------------------------------------------------
(* ComputationGraph::execute                                               *)

\* Mutant: Looper does not forward beginPoint().
BeginPointOfRootOnly ==
    /\ phase \in {"configured", "integrating"} /\ cur = None
    /\ cur' = Root
    /\ pos' = [pos EXCEPT ![Root] = 1]
    /\ inPoint' = inPoint \cup Members(Root)
    /\ aborted' = FALSE
    /\ fresh' = Resets \cap Members(Root)
    /\ runs' = [m \in Modules |-> IF m \in Members(Root) THEN 0 ELSE runs[m]]
    /\ UNCHANGED <<phase, todo, status, result, integrating, inLoop, finished>>

\* beginPoint() on every module; also called outside an integration, by
\* evaluateIntegrand().
BeginPoint ==
    /\ phase \in {"configured", "integrating"} /\ cur = None
    /\ cur' = Root
    /\ pos' = [pos EXCEPT ![Root] = 1]
    /\ inPoint' = inPoint \cup Under[Root]
    /\ aborted' = FALSE
    /\ fresh' = Resets \cap Under[Root]
    /\ runs' = [m \in Modules |-> IF m \in Under[Root] THEN 0 ELSE runs[m]]
    /\ UNCHANGED <<phase, todo, status, result, integrating, inLoop, finished>>

\* Mutant: the Looper forgets the status of an aborting module.
ReturnLosingAbort(p, s) ==
    \/ /\ s = "OK"
       /\ cur' = p
       /\ pos' = [pos EXCEPT ![p] = @ + 1]
       /\ UNCHANGED <<todo, status, result>>
    \/ /\ s # "OK" /\ p = Root
       /\ cur' = None
       /\ result' = s
       /\ UNCHANGED <<pos, todo, status>>
    \/ /\ s # "OK" /\ p # Root
       /\ cur' = p
       /\ pos' = [pos EXCEPT ![p] = 0]
       /\ todo' = [todo EXCEPT ![p] = Tail(@)]
       /\ UNCHANGED <<status, result>>

\* Mutant: a path, or the default path, ignores NEXT and calls the next module.
ReturnIgnoringNext(p, s) ==
    /\ cur' = p
    /\ pos' = [pos EXCEPT ![p] = @ + 1]
    /\ UNCHANGED <<todo, status, result>>

\* Mutant: execute() leaves on NEXT by its last line, with OK.
ReturnOkOnNext(p, s) ==
    /\ cur' = IF s = "OK" THEN p ELSE None
    /\ pos' = [pos EXCEPT ![p] = @ + 1]
    /\ result' = "OK"
    /\ UNCHANGED <<todo, status>>

\* The module path p was running returned s.
Return(p, s) ==
    \/ /\ s = "OK"
       /\ cur' = p
       /\ pos' = [pos EXCEPT ![p] = @ + 1]
       /\ UNCHANGED <<todo, status, result>>
    \/ /\ s # "OK" /\ p = Root
       /\ cur' = None
       /\ result' = s
       /\ UNCHANGED <<pos, todo, status>>
    \/ /\ s = "NEXT" /\ p # Root
       /\ cur' = p
       /\ pos' = [pos EXCEPT ![p] = 0]
       /\ todo' = [todo EXCEPT ![p] = Tail(@)]
       /\ UNCHANGED <<status, result>>
    \/ /\ s = "ABORT" /\ p # Root
       /\ cur' = p
       /\ pos' = [pos EXCEPT ![p] = 0]
       /\ status' = [status EXCEPT ![p] = "ABORT"]
       /\ UNCHANGED <<todo, result>>

\* work() of a module that is not a Looper returns s; its outputs are those of
\* this point and solution only if it returned OK.
Work(m, s) ==
    /\ cur # None /\ AtModule(cur) /\ Module(cur) = m
    /\ m \notin Loopers
    /\ aborted' = (s = "ABORT")
    /\ fresh' = IF s = "OK" THEN fresh \cup {m} ELSE fresh \ ({m} \ Resets)
    /\ runs' = [runs EXCEPT ![m] = @ + 1]
    /\ Return(cur, s)
    /\ UNCHANGED hooks

EndPoint ==
    /\ cur = Root /\ pos[Root] > Len(Path[Root])
    /\ cur' = None
    /\ result' = "OK"
    /\ inPoint' = inPoint \ Under[Root]
    /\ UNCHANGED <<phase, pos, todo, status, integrating, inLoop, finished, aborted, fresh, runs>>

-----------------------------------------------------------------------------
(* Looper::work                                                            *)

\* The Looper clears its output, calls beginLoop() on its path and starts
\* with the solutions its input holds.
BeginLoop(l) ==
    /\ cur # None /\ AtModule(cur) /\ Module(cur) = l
    /\ l \in Loopers
    /\ cur' = l
    /\ pos' = [pos EXCEPT ![l] = 0]
    /\ \E sols \in Solutions : todo' = [todo EXCEPT ![l] = sols]
    /\ status' = [status EXCEPT ![l] = "OK"]
    /\ inLoop' = inLoop \cup Members(l)
    /\ fresh' = fresh \ {l}
    /\ UNCHANGED <<phase, result, integrating, inPoint, finished, aborted, runs>>

\* Mutant: an invalid solution is passed over before the loop has advanced.
SkipWithoutAdvancing(l) ==
    /\ cur = l /\ l \in Loopers
    /\ pos[l] = 0 /\ status[l] = "OK" /\ todo[l] # <<>> /\ ~Head(todo[l])
    /\ UNCHANGED vars

SkipInvalidSolution(l) ==
    /\ cur = l /\ l \in Loopers
    /\ pos[l] = 0 /\ status[l] = "OK" /\ todo[l] # <<>> /\ ~Head(todo[l])
    /\ todo' = [todo EXCEPT ![l] = Tail(@)]
    /\ UNCHANGED <<cur, pos, status, result, hooks, aborted, fresh, runs>>

\* Mutant: the test of the solution's validity is missing.
StartAnySolution(l) ==
    /\ cur = l /\ l \in Loopers
    /\ pos[l] = 0 /\ status[l] = "OK" /\ todo[l] # <<>>
    /\ pos' = [pos EXCEPT ![l] = 1]
    /\ fresh' = (fresh \ (Under[l] \ Resets)) \cup {l}
    /\ UNCHANGED <<cur, todo, status, result, hooks, aborted, runs>>

\* The particles and the jacobian of the solution are written; what the path
\* computed for the previous solution is stale from now on.
StartSolution(l) ==
    /\ cur = l /\ l \in Loopers
    /\ pos[l] = 0 /\ status[l] = "OK" /\ todo[l] # <<>> /\ Head(todo[l])
    /\ pos' = [pos EXCEPT ![l] = 1]
    /\ fresh' = (fresh \ (Under[l] \ Resets)) \cup {l}
    /\ UNCHANGED <<cur, todo, status, result, hooks, aborted, runs>>

EndOfPath(l) ==
    /\ cur = l /\ l \in Loopers
    /\ pos[l] > Len(Path[l])
    /\ pos' = [pos EXCEPT ![l] = 0]
    /\ todo' = [todo EXCEPT ![l] = Tail(@)]
    /\ UNCHANGED <<cur, status, result, hooks, aborted, fresh, runs>>

\* Mutant: ABORT leaves Looper::work() without endLoop().
EndLoopUnlessAborted(l) ==
    /\ cur = l /\ l \in Loopers
    /\ pos[l] = 0 /\ (todo[l] = <<>> \/ status[l] # "OK")
    /\ inLoop' = IF status[l] = "OK" THEN inLoop \ Members(l) ELSE inLoop
    /\ fresh' = fresh \ {l}
    /\ runs' = [runs EXCEPT ![l] = @ + 1]
    /\ Return(Owner(l), status[l])
    /\ UNCHANGED <<phase, integrating, inPoint, finished, aborted>>

\* endLoop() on the path, and the status goes to the path the Looper is in.
EndLoop(l) ==
    /\ cur = l /\ l \in Loopers
    /\ pos[l] = 0 /\ (todo[l] = <<>> \/ status[l] # "OK")
    /\ inLoop' = inLoop \ Members(l)
    /\ fresh' = fresh \ {l}
    /\ runs' = [runs EXCEPT ![l] = @ + 1]
    /\ Return(Owner(l), status[l])
    /\ UNCHANGED <<phase, integrating, inPoint, finished, aborted>>

-----------------------------------------------------------------------------
LooperStep(l) ==
    \/ BeginLoop(l)
    \/ SkipInvalidSolution(l)
    \/ StartSolution(l)
    \/ EndOfPath(l)
    \/ EndLoop(l)

\* A step of a running execute().
Step ==
    \/ \E m \in Modules, s \in Status : Work(m, s)
    \/ \E l \in Loopers : LooperStep(l)
    \/ EndPoint

\* The job is over.
Done == phase = "finished" /\ UNCHANGED vars

Next ==
    \/ Configure
    \/ BeginIntegration
    \/ EndIntegration
    \/ Abandon
    \/ Finish
    \/ BeginPoint
    \/ Step
    \/ Done

Spec == Init /\ [][Next]_vars

\* execute() is one synchronous call: once entered it keeps running.
FairSpec == Spec /\ WF_vars(Step)

-----------------------------------------------------------------------------
(* Properties                                                              *)

\* Path c and those it is nested in; no path at all if c is None.
Nest(c) == {p \in Paths : c # None /\ (c = p \/ c \in Under[p])}

\* The paths being run.
Live == Nest(cur)

\* The state has its type.
TypeOK ==
    /\ phase \in {"constructed", "configured", "integrating", "finished"}
    /\ cur \in Paths \cup {None}
    /\ pos \in [Paths -> Nat]
    /\ todo \in [Loopers -> Seq(BOOLEAN)]
    /\ status \in [Loopers -> Status]
    /\ result \in Status
    /\ integrating \subseteq Modules /\ inPoint \subseteq Modules
    /\ inLoop \subseteq Modules /\ finished \subseteq Modules
    /\ aborted \in BOOLEAN
    /\ fresh \subseteq Modules
    /\ runs \in [Modules -> Nat]

\* A module is between its beginLoop() and endLoop() exactly while the Looper
\* it belongs to is running: no way out of Looper::work(), be it the end of
\* the solutions, NEXT or ABORT, leaves a loop open.
LoopBrackets == inLoop = UNION {Members(l) : l \in Live \ {Root}}

\* When work() is about to be called, every output it reads was written in
\* this phase-space point and, inside a loop, for the solution being
\* processed: breaking out of a path on NEXT never lets a later module see
\* the values of another solution or point.
ReadsAreFresh ==
    cur # None /\ AtModule(cur) => Deps[Module(cur)] \subseteq fresh

\* The path of a Looper is executed for valid solutions only.
PathRunsOnValidSolution ==
    \A l \in Live \ {Root} : pos[l] > 0 => todo[l] # <<>> /\ Head(todo[l])

\* Once a module of any depth returns ABORT, no other work() is called and
\* execute() returns ABORT, and it returns ABORT for no other reason.
AbortIsObeyed ==
    IF aborted
    THEN IF cur = None THEN result = "ABORT"
                       ELSE cur # Root /\ status[cur] = "ABORT" /\ pos[cur] = 0
    ELSE \A l \in Live \ {Root} : status[l] = "OK"

\* The C++ call stack: a path that is being run but is not the innermost one
\* is inside the call of a Looper, which is being run too.
CallStack ==
    /\ \A l \in Live \ {Root} : AtModule(Owner(l)) /\ Module(Owner(l)) = l
    /\ \A p \in Live \ {cur} : pos[p] > 0
    /\ cur = Root => pos[Root] > 0

\* What has been computed so far for this point and the solutions in progress.
FreshSoFar ==
    cur # None =>
        /\ Resets \subseteq fresh
        /\ \A p \in Live : \A i \in DOMAIN Path[p] :
              i < pos[p] /\ Path[p][i] \notin Loopers => Path[p][i] \in fresh
        /\ \A l \in Live \ {Root} : pos[l] > 0 => l \in fresh

\* The inductive invariant behind the safety properties above.
IInv ==
    /\ TypeOK
    /\ CallStack
    /\ LoopBrackets
    /\ PathRunsOnValidSolution
    /\ AbortIsObeyed
    /\ FreshSoFar

\* execute() returns OK only if each module of the default path was run,
\* once, in this point.
OkMeansWholePathRan ==
    [][cur = Root /\ cur' = None /\ result' = "OK"
          => \A m \in Members(Root) : runs[m] = 1]_vars

\* One module as the engine drives it, in the terms of ModuleLifecycle.
Life(m) == INSTANCE ModuleLifecycle WITH
    InLooper    <- m \notin Members(Root),
    configured  <- phase # "constructed",
    integration <- m \in integrating,
    point       <- m \in inPoint,
    loop        <- m \in inLoop,
    finished    <- m \in finished,
    runs        <- runs[m]

\* Every module, at any depth, sees its hooks in the order Module.h describes:
\* \A m \in Modules : Life(m)!Spec, with the quantifier inside the box.
LifecycleIsRespected ==
    /\ \A m \in Modules : Life(m)!Init
    /\ [][\A m \in Modules : [Life(m)!Next]_(Life(m)!vars)]_vars

\* execute() returns, whatever the modules answer.
ExecuteReturns == (cur # None) ~> (cur = None)

\* Module.h on finish(): "Called once at the end of the job".
EveryModuleIsFinished == phase = "finished" => finished = Modules
=============================================================================
