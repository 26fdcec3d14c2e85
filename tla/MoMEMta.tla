-------------------------------- MODULE MoMEMta --------------------------------
(***************************************************************************)
(* The MoMEMta class: one object, driven by its user from one thread.  It  *)
(* stores an event in the pool, hands the integrand to cuba and reports    *)
(* the status of the integration.  The graph it owns is seen through the   *)
(* answers of execute() (module Execution); a module like DMEM, that fills *)
(* a histogram at each point, stands for the modules with a state.  Events *)
(* and points are told apart by the call they come from.                   *)
(***************************************************************************)
EXTENDS Integers, Sequences, FiniteSets

CONSTANTS
    Inputs,      \* the declared inputs
    Unknown,     \* a name that is not one of them
    NoEvent,     \* what the pool holds before the first event
    MaxCalls,    \* bound on the calls of the user
    Forked,      \* the values of ncores > 0 considered, a subset of BOOLEAN
    MaxPoints    \* bound on the points of one integration (max_eval)

ASSUME InputAssumption == IsFiniteSet(Inputs) /\ Unknown \notin Inputs

ASSUME BoundAssumption ==
    /\ MaxCalls \in Nat /\ MaxPoints \in Nat
    /\ NoEvent \notin 1..MaxCalls
    /\ Forked \subseteq BOOLEAN

Algorithms == {"vegas", "suave", "divonne", "cuhre", "unsupported"}

IntegrationStatus == {"SUCCESS", "ACCURACY_NOT_REACHED", "FAILED", "ABORTED",
                      "DIM_OUT_OF_RANGE", "NONE"}

\* The configuration of the object: its algorithm, whether it has dimensions
\* to integrate, whether cuba accepts their number and that of the components,
\* and whether points are evaluated in forked processes (ncores > 0).
Configurations ==
    [algorithm: Algorithms, dims: BOOLEAN, limits: {"ok", "dimensions", "components"},
     forked: Forked]

VARIABLES
    conf,       \* the configuration, chosen once
    phase,      \* the calls made to the graph, as in Execution
    inputs,     \* m_inputs_p4, m_inputs_type: the event each input comes from
    met,        \* m_met: idem
    answer,     \* what execute() returned last
    status,     \* integration_status
    evaluated,  \* points cuba asked for in this integration
    filled,     \* entries in the histogram
    good,       \* history: points of this integration execute() answered OK to
    aborts,     \* history: those it answered ABORT to
    open,       \* beginIntegration() was called, and endIntegration() was not
    calls,      \* number of calls of the user so far; names the current one
    outcome     \* how the last computeWeights() ended

event == <<inputs, met>>
points == <<answer, evaluated, filled, good, aborts>>
vars == <<conf, phase, event, points, status, open, calls, outcome>>

\* A Particle, for what setEvent() looks at.
Particles == [name: Inputs \cup {Unknown}, physical: BOOLEAN]

\* The arguments of setEvent(): up to one particle too many.
Events == UNION {[1..n -> Particles] : n \in 0..(Cardinality(Inputs) + 1)}

Init ==
    /\ conf \in Configurations
    /\ phase = "constructed"
    /\ inputs = [i \in Inputs |-> NoEvent]
    /\ met = NoEvent
    /\ answer = "OK"
    /\ status = "NONE"
    /\ evaluated = 0
    /\ filled = 0
    /\ good = 0
    /\ aborts = 0
    /\ open = FALSE
    /\ calls = 0
    /\ outcome = "none"

-----------------------------------------------------------------------------
\* The end of the constructor.
Configure ==
    /\ phase = "constructed"
    /\ phase' = "configured"
    /\ UNCHANGED <<conf, event, points, status, open, calls, outcome>>

\* ~MoMEMta()
Destroy ==
    /\ phase = "configured"
    /\ phase' = "finished"
    /\ UNCHANGED <<conf, event, points, status, open, calls, outcome>>

\* Mutant: duplicates are not looked for.
RefusedAlone(ps, k) == ~ps[k].physical \/ ps[k].name \notin Inputs

\* Particle k is refused: unphysical, not declared, or a second of its name.
Refused(ps, k) ==
    \/ ~ps[k].physical
    \/ ps[k].name \notin Inputs
    \/ \E j \in 1..(k - 1) : ps[j].name = ps[k].name

Accepted(ps) == Len(ps) = Cardinality(Inputs) /\ \A k \in DOMAIN ps : ~Refused(ps, k)

\* The inputs stored before setEvent() returns or throws.
Stored(ps) ==
    IF Len(ps) # Cardinality(Inputs) THEN {}
    ELSE {ps[k].name : k \in {n \in DOMAIN ps : \A j \in 1..n : ~Refused(ps, j)}}

\* The particles of the call that begins are stored one by one; the met last.
SetEvent(ps) ==
    /\ phase = "configured" /\ calls < MaxCalls
    /\ calls' = calls + 1
    /\ inputs' = [i \in Inputs |-> IF i \in Stored(ps) THEN calls + 1 ELSE inputs[i]]
    /\ met' = IF Accepted(ps) THEN calls + 1 ELSE met

\* setEvent() called by the user.
SetEventOnly(ps) ==
    /\ SetEvent(ps)
    /\ UNCHANGED <<conf, phase, points, status, open, outcome>>

\* computeWeights() is left by the exception of setEvent().
ComputeWeightsRefused(ps) ==
    /\ ~Accepted(ps)
    /\ SetEvent(ps)
    /\ outcome' = "refused"
    /\ UNCHANGED <<conf, phase, points, status, open>>

\* Mutant: setEvent() is called after beginIntegration() and its exception is
\* caught.
ComputeWeightsOfAnyEvent(ps) ==
    /\ SetEvent(ps)
    /\ phase' = "integrating" /\ open' = TRUE
    /\ evaluated' = 0 /\ filled' = 0 /\ good' = 0 /\ aborts' = 0
    /\ outcome' = "running"
    /\ UNCHANGED <<conf, answer, status>>

\* Mutant: beginIntegration() is not called.
ComputeWeightsUnannounced(ps) ==
    /\ Accepted(ps)
    /\ SetEvent(ps)
    /\ phase' = "integrating"
    /\ evaluated' = 0 /\ good' = 0 /\ aborts' = 0
    /\ outcome' = "running"
    /\ UNCHANGED <<conf, answer, filled, status, open>>

\* setEvent() returns and beginIntegration() resets the histogram.
ComputeWeights(ps) ==
    /\ Accepted(ps)
    /\ SetEvent(ps)
    /\ phase' = "integrating" /\ open' = TRUE
    /\ evaluated' = 0 /\ filled' = 0 /\ good' = 0 /\ aborts' = 0
    /\ outcome' = "running"
    /\ UNCHANGED <<conf, answer, status>>

-----------------------------------------------------------------------------
\* execute() answers s.
Answered(s) ==
    /\ answer' = s
    /\ good' = IF s = "OK" THEN good + 1 ELSE good
    /\ aborts' = IF s = "ABORT" THEN aborts + 1 ELSE aborts

\* integrand().  DMEM is called, unless the point was given up before it.
Evaluate(s) ==
    /\ Answered(s)
    /\ \E n \in (IF s = "OK" THEN {1} ELSE {0, 1}) : filled' = filled + n

\* evaluateIntegrand(): the answer is dropped, and a non-finite component throws
\* with no other effect.
EvaluateIntegrand(s) ==
    /\ phase = "configured" /\ calls < MaxCalls
    /\ calls' = calls + 1
    /\ answer' = s
    /\ \E n \in (IF s = "OK" THEN {1} ELSE {0, 1}) : filled' = filled + n
    /\ UNCHANGED <<conf, phase, event, evaluated, good, aborts, status, open, outcome>>

\* cuba asks for a point.  After CUBA_ABORT it only lets workers finish theirs,
\* and what the modules change in a forked worker is lost.
Point(s) ==
    /\ phase = "integrating" /\ conf.dims
    /\ conf.algorithm # "unsupported" /\ conf.limits = "ok"
    /\ outcome = "running" \/ conf.forked
    /\ evaluated < MaxPoints
    /\ evaluated' = evaluated + 1
    /\ IF conf.forked
       THEN Answered(s) /\ UNCHANGED filled
       ELSE Evaluate(s)

\* Mutant: CUBA_ABORT is returned for NEXT as well.
EvaluatePointAbortingOnNext(s) ==
    /\ Point(s)
    /\ outcome' = IF s # "OK" THEN "aborted" ELSE outcome
    /\ UNCHANGED <<conf, phase, event, status, open, calls>>

\* CUBA_ABORT is returned for ABORT only.
EvaluatePoint(s) ==
    /\ Point(s)
    /\ outcome' = IF s = "ABORT" THEN "aborted" ELSE outcome
    /\ UNCHANGED <<conf, phase, event, status, open, calls>>

\* A component is not finite: the exception leaves computeWeights().  (In a
\* worker it leaves the worker's copy of the program, which is not modelled.)
EvaluateNonFinite ==
    /\ ~conf.forked
    /\ Point("OK")
    /\ phase' = "configured"
    /\ outcome' = "threw"
    /\ UNCHANGED <<conf, event, status, open, calls>>

-----------------------------------------------------------------------------
(* The end of computeWeights().                                            *)

\* Mutant: any other negative value is an abort.
StatusOfSign(nfail) ==
    CASE nfail = 0 -> "SUCCESS"
      [] nfail > 0 -> "ACCURACY_NOT_REACHED"
      [] OTHER     -> "ABORTED"

StatusOf(nfail) ==
    CASE nfail = 0   -> "SUCCESS"
      [] nfail = -1  -> "DIM_OUT_OF_RANGE"
      [] nfail > 0   -> "ACCURACY_NOT_REACHED"
      [] nfail = -99 -> "ABORTED"
      [] OTHER       -> status

\* nfail: cuba refuses too many components or dimensions, leaves on CUBA_ABORT,
\* or ends with the accuracy reached or not.
CubaReturns ==
    IF conf.limits = "components" THEN {-2}
    ELSE IF conf.limits = "dimensions" THEN {-1}
    ELSE IF outcome = "aborted" THEN {-99}
    ELSE IF evaluated = 0 THEN {} ELSE {0, 1}

\* endIntegration() is called and the weights are returned.
Return ==
    /\ phase' = "configured" /\ open' = FALSE
    /\ UNCHANGED <<conf, event, calls>>

ReturnWeights(nfail) ==
    /\ phase = "integrating" /\ conf.dims /\ conf.algorithm # "unsupported"
    /\ nfail \in CubaReturns
    /\ status' = StatusOf(nfail)
    /\ outcome' = "returned"
    /\ Return
    /\ UNCHANGED points

\* Without dimensions the integrand is called once, here.
ReturnIntegrand(s) ==
    /\ phase = "integrating" /\ ~conf.dims
    /\ evaluated' = 1
    /\ Evaluate(s)
    /\ status' = IF s = "ABORT" THEN "ABORTED" ELSE "SUCCESS"
    /\ outcome' = "returned"
    /\ Return

\* cuba_configuration_error, or a non-finite component without dimensions.
ThrowFromComputeWeights ==
    /\ phase = "integrating"
    /\ \/ conf.dims /\ conf.algorithm = "unsupported" /\ UNCHANGED points
       \/ ~conf.dims /\ evaluated' = 1 /\ Evaluate("OK")
    /\ phase' = "configured"
    /\ outcome' = "threw"
    /\ UNCHANGED <<conf, event, status, open, calls>>

-----------------------------------------------------------------------------
Answers == {"OK", "NEXT", "ABORT"}

Next ==
    \/ Configure
    \/ Destroy
    \/ \E ps \in Events : SetEventOnly(ps)
    \/ \E ps \in Events : ComputeWeightsRefused(ps)
    \/ \E ps \in Events : ComputeWeights(ps)
    \/ \E s \in Answers : EvaluateIntegrand(s)
    \/ \E s \in Answers : EvaluatePoint(s)
    \/ EvaluateNonFinite
    \/ \E nfail \in {-99, -2, -1, 0, 1} : ReturnWeights(nfail)
    \/ \E s \in Answers : ReturnIntegrand(s)
    \/ ThrowFromComputeWeights
    \/ phase = "finished" /\ UNCHANGED vars

Spec == Init /\ [][Next]_vars

-----------------------------------------------------------------------------
(* Properties                                                              *)

\* The state has its type.
TypeOK ==
    /\ conf \in Configurations
    /\ phase \in {"constructed", "configured", "integrating", "finished"}
    /\ inputs \in [Inputs -> Nat \cup {NoEvent}]
    /\ met \in Nat \cup {NoEvent}
    /\ answer \in Answers
    /\ status \in IntegrationStatus
    /\ evaluated \in Nat /\ filled \in Nat /\ good \in Nat /\ aborts \in Nat /\ calls \in Nat
    /\ open \in BOOLEAN
    /\ outcome \in {"none", "refused", "running", "aborted", "threw", "returned"}

\* During an integration every input and the met are those of the event given
\* to this computeWeights(): whatever earlier calls left half stored, the
\* checks of setEvent() make sure all of them are replaced.
EventIsWhole ==
    phase = "integrating" => met = calls /\ \A i \in Inputs : inputs[i] = calls

\* What a module accumulates in this process since beginIntegration() comes
\* from the points of this integration, all of those that were not given up.
HistogramIsOfThisIntegration ==
    ~conf.forked =>
        /\ phase = "integrating" => filled <= evaluated
        /\ phase = "integrating" \/ outcome = "returned" => good <= filled

\* When computeWeights() returns, the status is ABORTED exactly if execute()
\* answered ABORT to a point of this integration: NEXT does not stop cuba, ABORT
\* reaches the caller through cuba, its workers and nfail or without them, and
\* the status of an earlier integration is not taken for that of this one.
AbortedIsReported ==
    phase # "integrating" /\ outcome = "returned" => (status = "ABORTED" <=> aborts > 0)

\* cuba was told to abort once a point was answered ABORT; it can only abort an
\* integration it accepts; the status of one it does not accept is never ABORTED.
AbortsAreOfCuba ==
    /\ phase = "integrating" =>
          /\ outcome \in {"running", "aborted"}
          /\ outcome = "aborted" <=> aborts > 0
    /\ outcome = "aborted" => conf.dims /\ conf.limits = "ok"
    /\ conf.dims /\ conf.limits # "ok" => status # "ABORTED"

\* What makes the properties above inductive.
IInv ==
    /\ TypeOK
    /\ EventIsWhole
    /\ HistogramIsOfThisIntegration
    /\ AbortsAreOfCuba
    /\ AbortedIsReported

\* Module.h on endIntegration(): "Called once at the end of the integration".
EveryIntegrationIsEnded == phase = "configured" => ~open
=============================================================================
