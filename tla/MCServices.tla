----------------------------- MODULE MCServices -----------------------------
(***************************************************************************)
(* For TLC: the scenarios, the circuit breaker, the logs and the service   *)
(* around them, side by side.  One of them runs, from any of its initial   *)
(* states, the others sleep in one of theirs, in which nothing is asked of *)
(* them.  The service runs twice: in one of its parts the user touches the *)
(* helpers on an endless day, in the other days change and nobody does.    *)
(***************************************************************************)
EXTENDS MCStateMachine, CircuitBreaker, HubLog, Service

VARIABLE part

servicesVars == <<part, vars, breakerVars, hubVars, serviceVars>>

Part == {"scenarios", "breaker", "hub", "overrides", "days"}

MCPlace == [t \in Table |-> IF t = "cycle_log" THEN 1 ELSE 2]

MCDays == {[hour |-> 12, sun |-> TRUE], [hour |-> 12, sun |-> FALSE], [hour |-> 22, sun |-> TRUE]}

------------------------------------------------------------------------------
\* An override that never ends and a service that is stopped ask for nothing.
ScenariosAsleep ==
    /\ override = "NIGHT_EV" /\ snap = [Base EXCEPT !.hour = 12]
    /\ current = StartScenario /\ dwell = 1

HubAsleep == hub = [dry |-> TRUE, left |-> {}, table |-> NoTable, last |-> 0]

ServiceAsleep ==
    /\ env = [ha |-> "up", enabled |-> FALSE, choice |-> "Auto", day |-> AnyDay]
    /\ doing = "stopped" /\ running = FALSE
    /\ daySeen = AnyDay /\ stale = FALSE /\ touched = FALSE
    /\ manual = Away /\ scenario = Started /\ lastTold = Away /\ health = NoHealth
    /\ shown = Started /\ limit = FALSE /\ heard = Away

ServicesInit ==
    /\ part \in Part
    /\ IF part = "scenarios" THEN Init ELSE ScenariosAsleep
    /\ BreakerInit
    /\ (part = "hub" \/ HubAsleep) /\ HubInit
    /\ IF part \in {"overrides", "days"} THEN ServiceInit ELSE ServiceAsleep
    /\ part = "overrides" => env.day = AnyDay
    /\ part = "days" => ~env.enabled /\ env.choice = "Auto"

------------------------------------------------------------------------------
Runs(p) ==
    /\ part = p /\ UNCHANGED part
    /\ IF p = "scenarios" THEN TRUE ELSE UNCHANGED vars
    /\ IF p = "breaker" THEN TRUE ELSE UNCHANGED breakerVars
    /\ IF p = "hub" THEN TRUE ELSE UNCHANGED hubVars
    /\ IF p \in {"overrides", "days"} THEN TRUE ELSE UNCHANGED serviceVars

ServicesNext ==
    \/ Runs("scenarios") /\ Next
    \/ Runs("breaker") /\ BreakerNext
    \/ Runs("hub") /\ HubNext
    \/ Runs("overrides") /\ ServiceNext /\ env'.day = env.day
    \/ Runs("days") /\ ServiceNext /\ <<env.enabled, env.choice>>' = <<env.enabled, env.choice>>

\* The fairness of each component.  Callers of the breaker take their turns, and
\* their calls end.
ServicesSpec ==
    /\ ServicesInit /\ [][ServicesNext]_servicesVars
    /\ WF_servicesVars(Runs("scenarios") /\ Cycle)
    /\ WF_servicesVars(Runs("breaker") /\ BreakerTick)
    /\ \A c \in Caller :
         /\ WF_servicesVars(Runs("breaker") /\ (OnSuccess(c) \/ OnFailure(c)))
         /\ SF_servicesVars(Runs("breaker") /\ Allow(c))
    /\ WF_servicesVars((Runs("overrides") \/ Runs("days")) /\ ServiceLoop)

\* The types of the four.
ServicesTypeOK == TypeOK /\ BreakerTypeOK /\ HubTypeOK /\ ServiceTypeOK
=============================================================================
