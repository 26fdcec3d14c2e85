---------------------------- MODULE ModuleLifecycle ----------------------------
(***************************************************************************)
(* What the interface momemta::Module promises to the author of a module:  *)
(* the order in which its hooks are called, whatever the graph around it.  *)
(* Two things are looser than one might expect, because the engine allows  *)
(* them: endPoint() is skipped when the point is given up, and             *)
(* endIntegration() when the integration is left by an exception.          *)
(***************************************************************************)
EXTENDS Naturals

CONSTANT InLooper   \* the module is in the path of a Looper

VARIABLES configured, integration, point, loop, finished, runs

vars == <<configured, integration, point, loop, finished, runs>>

Init ==
    /\ configured = FALSE
    /\ integration = FALSE
    /\ point = FALSE
    /\ loop = FALSE
    /\ finished = FALSE
    /\ runs = 0

\* Ready for any hook of the job, and not inside a loop.
Idle == configured /\ ~finished /\ ~loop

Configure ==
    /\ ~configured
    /\ configured' = TRUE
    /\ UNCHANGED <<integration, point, loop, finished, runs>>

BeginIntegration ==
    /\ Idle
    /\ integration' = TRUE
    /\ UNCHANGED <<configured, point, loop, finished, runs>>

BeginPoint ==
    /\ Idle
    /\ point' = TRUE
    /\ runs' = 0
    /\ UNCHANGED <<configured, integration, loop, finished>>

BeginLoop ==
    /\ InLooper /\ point /\ Idle
    /\ loop' = TRUE
    /\ UNCHANGED <<configured, integration, point, finished, runs>>

\* In a loop, work() may be called any number of times between the two hooks
\* of the loop; outside, at most once per point.
Work ==
    /\ point
    /\ IF InLooper THEN loop ELSE Idle /\ runs = 0
    /\ runs' = runs + 1
    /\ UNCHANGED <<configured, integration, point, loop, finished>>

EndLoop ==
    /\ loop
    /\ loop' = FALSE
    /\ UNCHANGED <<configured, integration, point, finished, runs>>

EndPoint ==
    /\ point /\ Idle
    /\ point' = FALSE
    /\ UNCHANGED <<configured, integration, loop, finished, runs>>

EndIntegration ==
    /\ integration /\ Idle
    /\ integration' = FALSE
    /\ UNCHANGED <<configured, point, loop, finished, runs>>

Finish ==
    /\ Idle
    /\ finished' = TRUE
    /\ UNCHANGED <<configured, integration, point, loop, runs>>

Next ==
    \/ Configure \/ BeginIntegration \/ BeginPoint \/ BeginLoop \/ Work
    \/ EndLoop \/ EndPoint \/ EndIntegration \/ Finish

Spec == Init /\ [][Next]_vars
=============================================================================
