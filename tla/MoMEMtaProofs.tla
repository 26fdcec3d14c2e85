---------------------------- MODULE MoMEMtaProofs -----------------------------
(***************************************************************************)
(* Proofs about the driver, for any inputs and any numbers of calls and    *)
(* points.  The event is whole because setEvent() compares two numbers and *)
(* refuses duplicates: as many different declared names as there are       *)
(* declared inputs are all of them.                                        *)
(***************************************************************************)
EXTENDS MoMEMta, FiniteSetTheorems, TLAPS

\* The arguments of setEvent() are sequences of particles.
LEMMA EventIsSequence ==
  ASSUME NEW ps \in Events
  PROVE  ps \in Seq(Particles) /\ Len(ps) \in Nat /\ DOMAIN ps = 1..Len(ps)
  <1>1. Cardinality(Inputs) \in Nat
    BY InputAssumption, FS_CardinalityType
  <1>2. PICK n \in 0..(Cardinality(Inputs) + 1) : ps \in [1..n -> Particles]
    BY DEF Events
  <1>3. n \in Nat
    BY <1>1
  <1> QED
    BY <1>2, <1>3

\* If no particle is refused, and they are as many as the inputs, every input
\* is stored.
LEMMA AcceptedStoresAll ==
  ASSUME NEW ps \in Events, Accepted(ps)
  PROVE  Stored(ps) = Inputs
  <1> DEFINE N == Len(ps)
  <1> DEFINE f == [k \in 1..N |-> ps[k].name]
  <1>1. N \in Nat /\ DOMAIN ps = 1..N /\ N = Cardinality(Inputs)
    BY EventIsSequence DEF Accepted
  <1>2. \A k \in 1..N : ~Refused(ps, k)
    BY <1>1 DEF Accepted
  <1>3. \A k \in 1..N : ps[k].name \in Inputs /\ \A j \in 1..(k - 1) : ps[j].name # ps[k].name
    BY <1>2 DEF Refused
  <1>4. f \in [1..N -> Inputs]
    BY <1>3
  <1>5. ASSUME NEW j \in 1..N, NEW k \in 1..N, f[j] = f[k] PROVE j = k
    <2>1. ~(j < k)
      BY <1>1, <1>3, <1>5
    <2>2. ~(k < j)
      BY <1>1, <1>3, <1>5
    <2> QED
      BY <1>1, <2>1, <2>2
  <1>6. f \in Injection(1..N, Inputs)
    BY <1>4, <1>5 DEF Injection, IsInjective
  <1>7. Cardinality(1..N) = Cardinality(Inputs)
    BY <1>1, FS_Interval
  <1>8. f \in Surjection(1..N, Inputs)
    BY <1>6, <1>7, InputAssumption, FS_Injection
  <1>9. {n \in DOMAIN ps : \A j \in 1..n : ~Refused(ps, j)} = DOMAIN ps
    BY <1>1, <1>2
  <1>10. Stored(ps) = {ps[k].name : k \in 1..N}
    BY <1>1, <1>9 DEF Stored
  <1>11. \A i \in Inputs : \E k \in 1..N : f[k] = i
    BY <1>8 DEF Surjection
  <1> QED
    BY <1>3, <1>10, <1>11

-----------------------------------------------------------------------------
(* The invariant                                                           *)

LEMMA InitIInv == Init => IInv
  <1> SUFFICES ASSUME Init PROVE IInv
    OBVIOUS
  <1>1. TypeOK
    BY DEF Init, TypeOK, IntegrationStatus, Answers
  <1>2. EventIsWhole /\ AbortsAreOfCuba /\ AbortedIsReported
    BY DEF Init, EventIsWhole, AbortsAreOfCuba, AbortedIsReported
  <1>3. HistogramIsOfThisIntegration
    BY DEF Init, HistogramIsOfThisIntegration
  <1> QED
    BY <1>1, <1>2, <1>3 DEF IInv

\* A call numbers the inputs it stores.
LEMMA SetEventTypes ==
  ASSUME TypeOK, NEW ps \in Events, SetEvent(ps)
  PROVE  /\ calls' \in Nat
         /\ inputs' \in [Inputs -> Nat \cup {NoEvent}]
         /\ met' \in Nat \cup {NoEvent}
  <1>0. calls \in Nat /\ calls' = calls + 1
    BY DEF SetEvent, TypeOK
  <1>1. calls' = calls + 1 /\ calls + 1 \in Nat
    BY <1>0
  <1>2. inputs' \in [Inputs -> Nat \cup {NoEvent}]
    BY <1>1 DEF SetEvent, TypeOK
  <1> QED
    BY <1>1, <1>2 DEF SetEvent, TypeOK

\* A point is counted; what the modules accumulate grows with it.
LEMMA EvaluateTypes ==
  ASSUME TypeOK, NEW s \in Answers, Evaluate(s)
  PROVE  /\ answer' \in Answers /\ good' \in Nat /\ aborts' \in Nat /\ filled' \in Nat
         /\ good <= filled => good' <= filled'
         /\ filled' <= filled + 1
  <1>1. PICK n \in (IF s = "OK" THEN {1} ELSE {0, 1}) : filled' = filled + n
    BY DEF Evaluate
  <1>2. n \in {0, 1} /\ (s = "OK" => n = 1)
    BY <1>1
  <1>3. /\ answer' = s /\ good' = IF s = "OK" THEN good + 1 ELSE good
        /\ aborts' = IF s = "ABORT" THEN aborts + 1 ELSE aborts
    BY DEF Evaluate, Answered
  <1>4. good \in Nat /\ aborts \in Nat /\ filled \in Nat
    BY DEF TypeOK
  <1> QED
    BY <1>1, <1>2, <1>3, <1>4

\* What a point of cuba changes, in this process or in a worker.
LEMMA PointFacts ==
  ASSUME IInv, NEW s \in Answers, Point(s)
  PROVE  /\ phase = "integrating" /\ conf.dims /\ conf.limits = "ok"
         /\ answer' = s /\ answer' \in Answers
         /\ evaluated' \in Nat /\ good' \in Nat /\ filled' \in Nat
         /\ aborts' = IF s = "ABORT" THEN aborts + 1 ELSE aborts
         /\ ~conf.forked => filled' <= evaluated' /\ good' <= filled'
  <1>1. TypeOK /\ HistogramIsOfThisIntegration
    BY DEF IInv
  <1>2. /\ phase = "integrating" /\ conf.dims /\ conf.limits = "ok"
        /\ evaluated' = evaluated + 1
    BY DEF Point
  <1>3. evaluated \in Nat /\ good \in Nat /\ filled \in Nat
    BY <1>1 DEF TypeOK
  <1>4. CASE conf.forked
    <2>1. /\ answer' = s /\ good' = (IF s = "OK" THEN good + 1 ELSE good) /\ filled' = filled
          /\ aborts' = IF s = "ABORT" THEN aborts + 1 ELSE aborts
      BY <1>4 DEF Point, Answered
    <2> QED
      BY <1>2, <1>3, <1>4, <2>1
  <1>5. CASE ~conf.forked
    <2>1. Evaluate(s)
      BY <1>5 DEF Point
    <2>2. /\ good' \in Nat /\ filled' \in Nat
          /\ good <= filled => good' <= filled'
          /\ filled' <= filled + 1
      BY <1>1, <2>1, EvaluateTypes
    <2>3. answer' = s /\ aborts' = IF s = "ABORT" THEN aborts + 1 ELSE aborts
      BY <2>1 DEF Evaluate, Answered
    <2>4. filled <= evaluated /\ good <= filled
      BY <1>1, <1>2, <1>5 DEF HistogramIsOfThisIntegration
    <2> QED
      BY <1>2, <1>3, <2>2, <2>3, <2>4
  <1> QED
    BY <1>4, <1>5

\* Steps that change the phase only, between two integrations or at the end.
LEMMA QuietStep ==
  ASSUME IInv, UNCHANGED <<conf, event, points, status, open, calls, outcome>>,
         \/ phase' = phase
         \/ phase # "integrating" /\ phase' \in {"configured", "finished"}
  PROVE  IInv'
  <1>1. TypeOK'
    BY DEF IInv, TypeOK, event, points
  <1>2. EventIsWhole' /\ AbortsAreOfCuba' /\ AbortedIsReported'
    BY DEF IInv, EventIsWhole, AbortsAreOfCuba, AbortedIsReported, event, points
  <1>3. HistogramIsOfThisIntegration'
    BY DEF IInv, HistogramIsOfThisIntegration, points
  <1> QED
    BY <1>1, <1>2, <1>3 DEF IInv

LEMMA SetEventOnlyStep ==
  ASSUME IInv, NEW ps \in Events, SetEventOnly(ps)
  PROVE  IInv'
  <1>1. /\ SetEvent(ps) /\ phase = "configured"
        /\ UNCHANGED <<conf, phase, answer, evaluated, filled, good, aborts, status, open, outcome>>
    BY DEF SetEventOnly, SetEvent, points
  <1>2. TypeOK'
    BY <1>1, SetEventTypes DEF IInv, TypeOK
  <1>3. EventIsWhole' /\ AbortsAreOfCuba' /\ AbortedIsReported'
    BY <1>1 DEF IInv, EventIsWhole, AbortsAreOfCuba, AbortedIsReported
  <1>4. HistogramIsOfThisIntegration'
    BY <1>1 DEF IInv, HistogramIsOfThisIntegration
  <1> QED
    BY <1>2, <1>3, <1>4 DEF IInv

LEMMA ComputeWeightsRefusedStep ==
  ASSUME IInv, NEW ps \in Events, ComputeWeightsRefused(ps)
  PROVE  IInv'
  <1>1. /\ SetEvent(ps) /\ phase = "configured" /\ outcome' = "refused"
        /\ UNCHANGED <<conf, phase, answer, evaluated, filled, good, aborts, status, open>>
    BY DEF ComputeWeightsRefused, SetEvent, points
  <1>2. TypeOK'
    BY <1>1, SetEventTypes DEF IInv, TypeOK
  <1>3. EventIsWhole' /\ AbortsAreOfCuba' /\ AbortedIsReported'
    BY <1>1 DEF IInv, EventIsWhole, AbortsAreOfCuba, AbortedIsReported
  <1>4. HistogramIsOfThisIntegration'
    BY <1>1 DEF HistogramIsOfThisIntegration
  <1> QED
    BY <1>2, <1>3, <1>4 DEF IInv

\* The accepted event replaces all the inputs.
LEMMA ComputeWeightsStep ==
  ASSUME IInv, NEW ps \in Events, ComputeWeights(ps)
  PROVE  IInv'
  <1>1. /\ Accepted(ps) /\ SetEvent(ps) /\ phase' = "integrating" /\ open' = TRUE
        /\ evaluated' = 0 /\ filled' = 0 /\ good' = 0 /\ aborts' = 0 /\ outcome' = "running"
        /\ UNCHANGED <<conf, answer, status>>
    BY DEF ComputeWeights
  <1>2. TypeOK'
    BY <1>1, SetEventTypes DEF IInv, TypeOK
  <1>3. EventIsWhole'
    <2>1. Stored(ps) = Inputs
      BY <1>1, AcceptedStoresAll
    <2>2. calls' = calls + 1 /\ met' = calls + 1 /\ inputs' = [i \in Inputs |-> calls + 1]
      BY <1>1, <2>1 DEF SetEvent
    <2> QED
      BY <2>2 DEF EventIsWhole
  <1>4. AbortsAreOfCuba' /\ AbortedIsReported'
    BY <1>1 DEF IInv, AbortsAreOfCuba, AbortedIsReported
  <1>5. HistogramIsOfThisIntegration'
    BY <1>1 DEF HistogramIsOfThisIntegration
  <1> QED
    BY <1>2, <1>3, <1>4, <1>5 DEF IInv

LEMMA EvaluateIntegrandStep ==
  ASSUME IInv, NEW s \in Answers, EvaluateIntegrand(s)
  PROVE  IInv'
  <1>1. /\ phase = "configured" /\ calls' = calls + 1 /\ answer' = s
        /\ UNCHANGED <<conf, phase, inputs, met, evaluated, good, aborts, status, open, outcome>>
    BY DEF EvaluateIntegrand, event
  <1>2. PICK n \in {0, 1} : filled' = filled + n
    BY DEF EvaluateIntegrand
  <1>3. filled \in Nat /\ good \in Nat /\ calls \in Nat
    BY DEF IInv, TypeOK
  <1>4. TypeOK'
    <2>1. filled' \in Nat /\ calls' \in Nat
      BY <1>1, <1>2, <1>3
    <2> QED
      BY <1>1, <2>1 DEF IInv, TypeOK
  <1>5. EventIsWhole' /\ AbortsAreOfCuba' /\ AbortedIsReported'
    BY <1>1 DEF IInv, EventIsWhole, AbortsAreOfCuba, AbortedIsReported
  <1>6. good <= filled => good <= filled'
    BY <1>2, <1>3
  <1>7. HistogramIsOfThisIntegration'
    BY <1>1, <1>6 DEF IInv, HistogramIsOfThisIntegration
  <1> QED
    BY <1>4, <1>5, <1>7 DEF IInv

LEMMA EvaluatePointStep ==
  ASSUME IInv, NEW s \in Answers, EvaluatePoint(s)
  PROVE  IInv'
  <1>1. /\ Point(s)
        /\ outcome' = (IF s = "ABORT" THEN "aborted" ELSE outcome)
        /\ UNCHANGED <<conf, phase, inputs, met, status, open, calls>>
    BY DEF EvaluatePoint, event
  <1>2. /\ phase = "integrating" /\ conf.dims /\ conf.limits = "ok"
        /\ answer' \in Answers
        /\ evaluated' \in Nat /\ good' \in Nat /\ filled' \in Nat
        /\ aborts' = (IF s = "ABORT" THEN aborts + 1 ELSE aborts)
        /\ ~conf.forked => filled' <= evaluated' /\ good' <= filled'
    BY <1>1, PointFacts
  <1>3. aborts \in Nat
    BY DEF IInv, TypeOK
  <1>4. TypeOK'
    <2>1. aborts' \in Nat
      BY <1>2, <1>3
    <2> QED
      BY <1>1, <1>2, <2>1 DEF IInv, TypeOK
  <1>5. EventIsWhole' /\ AbortedIsReported'
    BY <1>1, <1>2 DEF IInv, EventIsWhole, AbortedIsReported
  <1>6. AbortsAreOfCuba'
    <2>1. outcome \in {"running", "aborted"} /\ (outcome = "aborted" <=> aborts > 0)
      BY <1>2 DEF IInv, AbortsAreOfCuba
    <2>2. CASE s = "ABORT"
      <3>1. aborts' > 0 /\ outcome' = "aborted"
        BY <1>1, <1>2, <1>3, <2>2
      <3> QED
        BY <1>1, <1>2, <3>1 DEF IInv, AbortsAreOfCuba
    <2>3. CASE s # "ABORT"
      BY <1>1, <1>2, <2>1, <2>3 DEF IInv, AbortsAreOfCuba
    <2> QED
      BY <2>2, <2>3
  <1>7. HistogramIsOfThisIntegration'
    BY <1>1, <1>2 DEF HistogramIsOfThisIntegration
  <1> QED
    BY <1>4, <1>5, <1>6, <1>7 DEF IInv

\* The integration is left: nothing is said of its histogram and status.
LEMMA ThrowStep ==
  ASSUME IInv, phase' = "configured", outcome' = "threw",
         UNCHANGED <<conf, event, status, open, calls>>,
         answer' \in Answers, evaluated' \in Nat, good' \in Nat, filled' \in Nat, aborts' \in Nat
  PROVE  IInv'
  <1>1. TypeOK'
    BY DEF IInv, TypeOK, event
  <1>2. EventIsWhole' /\ AbortsAreOfCuba' /\ AbortedIsReported' /\ HistogramIsOfThisIntegration'
    BY DEF IInv, EventIsWhole, AbortsAreOfCuba, AbortedIsReported, HistogramIsOfThisIntegration
  <1> QED
    BY <1>1, <1>2 DEF IInv

LEMMA EvaluateNonFiniteStep == IInv /\ EvaluateNonFinite => IInv'
  <1> SUFFICES ASSUME IInv, EvaluateNonFinite PROVE IInv'
    OBVIOUS
  <1>1. "OK" \in Answers
    BY DEF Answers
  <1>2. /\ answer' \in Answers /\ evaluated' \in Nat /\ good' \in Nat /\ filled' \in Nat
        /\ aborts' = aborts
    BY <1>1, PointFacts DEF EvaluateNonFinite
  <1>3. aborts' \in Nat
    BY <1>2 DEF IInv, TypeOK
  <1> QED
    BY <1>2, <1>3, ThrowStep DEF EvaluateNonFinite

LEMMA ThrowFromComputeWeightsStep == IInv /\ ThrowFromComputeWeights => IInv'
  <1> SUFFICES ASSUME IInv, ThrowFromComputeWeights PROVE IInv'
    OBVIOUS
  <1>1. TypeOK
    BY DEF IInv
  <1>2. CASE conf.dims /\ conf.algorithm = "unsupported" /\ UNCHANGED points
    BY <1>1, <1>2, ThrowStep DEF ThrowFromComputeWeights, TypeOK, points
  <1>3. CASE ~conf.dims /\ evaluated' = 1 /\ Evaluate("OK")
    <2>1. "OK" \in Answers
      BY DEF Answers
    <2>2. answer' \in Answers /\ good' \in Nat /\ aborts' \in Nat /\ filled' \in Nat
      BY <1>1, <1>3, <2>1, EvaluateTypes
    <2> QED
      BY <1>3, <2>2, ThrowStep DEF ThrowFromComputeWeights
  <1> QED
    BY <1>2, <1>3 DEF ThrowFromComputeWeights

\* What each end of cuba makes of the status.
LEMMA StatusOfCases ==
  ASSUME NEW nfail \in {-99, -2, -1, 0, 1}
  PROVE  /\ nfail = -2 => StatusOf(nfail) = status
         /\ nfail = -99 => StatusOf(nfail) = "ABORTED"
         /\ nfail \in {-1, 0, 1} =>
               StatusOf(nfail) \in {"SUCCESS", "DIM_OUT_OF_RANGE", "ACCURACY_NOT_REACHED"}
  BY DEF StatusOf

\* cuba aborts if, and only if, it was told to.
LEMMA CubaReturnsCases ==
  ASSUME NEW nfail \in CubaReturns,
         conf.limits \in {"ok", "dimensions", "components"},
         outcome = "aborted" => conf.limits = "ok"
  PROVE  /\ nfail = -2 => conf.limits = "components"
         /\ nfail = -99 <=> outcome = "aborted"
  <1>1. CASE conf.limits = "components"
    BY <1>1 DEF CubaReturns
  <1>2. CASE conf.limits = "dimensions"
    BY <1>2 DEF CubaReturns
  <1>3. CASE conf.limits = "ok" /\ outcome = "aborted"
    BY <1>3 DEF CubaReturns
  <1>4. CASE conf.limits = "ok" /\ outcome # "aborted"
    BY <1>4 DEF CubaReturns
  <1> QED
    BY <1>1, <1>2, <1>3, <1>4

LEMMA ReturnWeightsStep ==
  ASSUME IInv, NEW nfail \in {-99, -2, -1, 0, 1}, ReturnWeights(nfail)
  PROVE  IInv'
  <1>1. /\ phase = "integrating" /\ conf.dims /\ nfail \in CubaReturns
        /\ status' = StatusOf(nfail)
        /\ outcome' = "returned"
        /\ phase' = "configured" /\ open' = FALSE
        /\ UNCHANGED <<conf, inputs, met, calls, answer, evaluated, filled, good, aborts>>
    BY DEF ReturnWeights, Return, event, points
  <1>2. /\ outcome \in {"running", "aborted"} /\ (outcome = "aborted" => conf.limits = "ok")
        /\ outcome = "aborted" <=> aborts > 0
    BY <1>1 DEF IInv, AbortsAreOfCuba
  <1>3. conf.limits # "ok" => status # "ABORTED"
    BY <1>1 DEF IInv, AbortsAreOfCuba
  <1>4. status \in IntegrationStatus /\ conf.limits \in {"ok", "dimensions", "components"}
    BY DEF IInv, TypeOK, Configurations
  <1>5. /\ nfail = -2 => conf.limits = "components"
        /\ nfail = -99 <=> outcome = "aborted"
    BY <1>1, <1>2, <1>4, CubaReturnsCases
  <1>6. /\ status' \in IntegrationStatus
        /\ status' = "ABORTED" <=> outcome = "aborted"
    <2>1. CASE nfail = -2
      <3>1. status' = status
        BY <1>1, <2>1, StatusOfCases
      <3> QED
        BY <1>3, <1>4, <1>5, <2>1, <3>1
    <2>2. CASE nfail = -99
      <3>1. status' = "ABORTED"
        BY <1>1, <2>2, StatusOfCases
      <3> QED
        BY <1>5, <2>2, <3>1 DEF IntegrationStatus
    <2>3. CASE nfail \in {-1, 0, 1}
      <3>1. status' \in {"SUCCESS", "DIM_OUT_OF_RANGE", "ACCURACY_NOT_REACHED"}
        BY <1>1, <2>3, StatusOfCases
      <3> QED
        BY <1>5, <2>3, <3>1 DEF IntegrationStatus
    <2> QED
      BY <2>1, <2>2, <2>3
  <1>7. TypeOK'
    BY <1>1, <1>6 DEF IInv, TypeOK
  <1>8. EventIsWhole' /\ AbortedIsReported'
    BY <1>1, <1>2, <1>6 DEF EventIsWhole, AbortedIsReported
  <1>9. AbortsAreOfCuba'
    BY <1>1, <1>2, <1>6 DEF AbortsAreOfCuba
  <1>10. HistogramIsOfThisIntegration'
    BY <1>1 DEF IInv, HistogramIsOfThisIntegration
  <1> QED
    BY <1>7, <1>8, <1>9, <1>10 DEF IInv

LEMMA ReturnIntegrandStep ==
  ASSUME IInv, NEW s \in Answers, ReturnIntegrand(s)
  PROVE  IInv'
  <1>1. /\ phase = "integrating" /\ ~conf.dims /\ evaluated' = 1 /\ Evaluate(s)
        /\ status' = (IF s = "ABORT" THEN "ABORTED" ELSE "SUCCESS")
        /\ outcome' = "returned"
        /\ phase' = "configured" /\ open' = FALSE
        /\ UNCHANGED <<conf, inputs, met, calls>>
    BY DEF ReturnIntegrand, Return, event
  <1>2. /\ answer' \in Answers /\ good' \in Nat /\ aborts' \in Nat /\ filled' \in Nat
        /\ good <= filled => good' <= filled'
    BY <1>1, EvaluateTypes DEF IInv
  <1>3. status' \in IntegrationStatus
    BY <1>1 DEF IntegrationStatus
  <1>4. TypeOK'
    BY <1>1, <1>2, <1>3 DEF IInv, TypeOK
  <1>5. EventIsWhole' /\ AbortsAreOfCuba'
    BY <1>1 DEF EventIsWhole, AbortsAreOfCuba
  <1>6. AbortedIsReported'
    <2>1. aborts \in Nat /\ ~(aborts > 0)
      BY <1>1 DEF IInv, TypeOK, AbortsAreOfCuba
    <2>2. aborts' = IF s = "ABORT" THEN aborts + 1 ELSE aborts
      BY <1>1 DEF Evaluate, Answered
    <2>3. aborts' > 0 <=> s = "ABORT"
      BY <2>1, <2>2
    <2> QED
      BY <1>1, <2>3 DEF AbortedIsReported
  <1>7. HistogramIsOfThisIntegration'
    BY <1>1, <1>2 DEF IInv, HistogramIsOfThisIntegration
  <1> QED
    BY <1>4, <1>5, <1>6, <1>7 DEF IInv

-----------------------------------------------------------------------------
LEMMA NextIInv == IInv /\ [Next]_vars => IInv'
  <1> SUFFICES ASSUME IInv, [Next]_vars PROVE IInv'
    OBVIOUS
  <1>1. ASSUME Configure PROVE IInv'
    BY <1>1, QuietStep DEF Configure
  <1>2. ASSUME Destroy PROVE IInv'
    BY <1>2, QuietStep DEF Destroy
  <1>3. ASSUME NEW ps \in Events, SetEventOnly(ps) \/ ComputeWeightsRefused(ps) \/ ComputeWeights(ps)
        PROVE  IInv'
    BY <1>3, SetEventOnlyStep, ComputeWeightsRefusedStep, ComputeWeightsStep
  <1>4. ASSUME NEW s \in Answers, EvaluateIntegrand(s) \/ EvaluatePoint(s) \/ ReturnIntegrand(s)
        PROVE  IInv'
    BY <1>4, EvaluateIntegrandStep, EvaluatePointStep, ReturnIntegrandStep
  <1>5. ASSUME NEW nfail \in {-99, -2, -1, 0, 1}, ReturnWeights(nfail) PROVE IInv'
    BY <1>5, ReturnWeightsStep
  <1>6. ASSUME UNCHANGED vars PROVE IInv'
    BY <1>6, QuietStep DEF vars
  <1> QED
    BY <1>1, <1>2, <1>3, <1>4, <1>5, <1>6, EvaluateNonFiniteStep, ThrowFromComputeWeightsStep,
       Zenon DEF Next

\* The invariant holds for any inputs, and any numbers of calls and points.
THEOREM Invariant == Spec => []IInv
  BY InitIInv, NextIInv, PTL DEF Spec

\* The state keeps its type through every call of the user and of cuba.
THEOREM TypeCorrect == Spec => []TypeOK
  <1>1. IInv => TypeOK
    BY DEF IInv
  <1> QED
    BY <1>1, Invariant, PTL

\* Only whole events are integrated.
THEOREM EventsAreWhole == Spec => []EventIsWhole
  <1>1. IInv => EventIsWhole
    BY DEF IInv
  <1> QED
    BY <1>1, Invariant, PTL

\* What a module accumulates is of the current integration.
THEOREM HistogramsAreOfTheIntegration == Spec => []HistogramIsOfThisIntegration
  <1>1. IInv => HistogramIsOfThisIntegration
    BY DEF IInv
  <1> QED
    BY <1>1, Invariant, PTL

\* ABORTED is reported when, and only when, a point was answered ABORT: of the
\* answers, and only of those of this integration.
THEOREM AbortsAreReported == Spec => []AbortedIsReported
  <1>1. IInv => AbortedIsReported
    BY DEF IInv
  <1> QED
    BY <1>1, Invariant, PTL
===============================================================================
