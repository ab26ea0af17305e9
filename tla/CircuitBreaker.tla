--------------------------- MODULE CircuitBreaker ---------------------------
(***************************************************************************)
(* adapters/circuit_breaker.py and callers that use it the way the         *)
(* docstring of CircuitBreaker tells them to: allow(), the call, then      *)
(* on_success() or on_failure().  Calls overlap: an answer may come back   *)
(* after the breaker has gone on to another state.                         *)
(***************************************************************************)
EXTENDS Integers

CONSTANTS
    Caller,
    FailureThreshold, SuccessThreshold,
    BreakerCooldown    \* cooldown_s

ASSUME BreakerAssumption ==
    /\ FailureThreshold \in Nat \ {0} /\ SuccessThreshold \in Nat \ {0}
    /\ BreakerCooldown \in Nat

VARIABLES
    breaker,     \* state
    failures, successes,   \* consecutive_failures, consecutive_successes
    openFor,     \* time since opened_at
    calling,     \* the callers whose call is under way
    up           \* the protected service

breakerVars == <<breaker, failures, successes, openFor, calling, up>>

BreakerTypeOK ==
    /\ breaker \in {"closed", "open", "half_open"}
    /\ failures \in 0..FailureThreshold
    /\ successes \in 0..SuccessThreshold - 1
    /\ openFor \in 0..BreakerCooldown
    /\ calling \subseteq Caller
    /\ up \in BOOLEAN

BreakerInit ==
    /\ breaker = "closed" /\ failures = 0 /\ successes = 0 /\ openFor = 0
    /\ calling = {} /\ up = TRUE

------------------------------------------------------------------------------
\* Mutant: a refused caller starts the cooldown anew.
AllowRestamps(c) ==
    /\ c \notin calling
    /\ IF breaker = "open" /\ openFor < BreakerCooldown
       THEN openFor' = 0 /\ UNCHANGED <<breaker, successes, calling>>
       ELSE /\ calling' = calling \cup {c} /\ UNCHANGED openFor
            /\ IF breaker = "open"
               THEN breaker' = "half_open" /\ successes' = 0
               ELSE UNCHANGED <<breaker, successes>>
    /\ UNCHANGED <<failures, up>>

\* allow() answers TRUE; in state open only after the cooldown, and then it is
\* the one that changes to half_open.
Allow(c) ==
    /\ c \notin calling
    /\ breaker = "open" => openFor >= BreakerCooldown
    /\ calling' = calling \cup {c}
    /\ IF breaker = "open"
       THEN breaker' = "half_open" /\ successes' = 0
       ELSE UNCHANGED <<breaker, successes>>
    /\ UNCHANGED <<failures, openFor, up>>

\* The call of c is over, and c reports how it went.
Report(c) == c \in calling /\ calling' = calling \ {c} /\ UNCHANGED up

Enough == successes + 1 >= SuccessThreshold

OnSuccess(c) ==
    /\ Report(c) /\ up
    /\ IF breaker = "half_open"
       THEN IF Enough
            THEN breaker' = "closed" /\ failures' = 0 /\ successes' = 0
            ELSE successes' = successes + 1 /\ UNCHANGED <<breaker, failures>>
       ELSE failures' = 0 /\ UNCHANGED <<breaker, successes>>
    /\ UNCHANGED openFor

Open == breaker' = "open" /\ openFor' = 0

OnFailure(c) ==
    /\ Report(c) /\ ~up
    /\ IF breaker = "half_open"
       THEN Open /\ successes' = 0 /\ UNCHANGED failures
       ELSE /\ failures' = IF failures < FailureThreshold THEN failures + 1 ELSE failures
            /\ IF failures' >= FailureThreshold THEN Open ELSE UNCHANGED <<breaker, openFor>>
            /\ UNCHANGED successes

\* The service fails or recovers.
Flip == up' = ~up /\ UNCHANGED <<breaker, failures, successes, openFor, calling>>

BreakerTick ==
    /\ breaker = "open" /\ openFor < BreakerCooldown
    /\ openFor' = openFor + 1
    /\ UNCHANGED <<breaker, failures, successes, calling, up>>

BreakerNext ==
    \/ Flip \/ BreakerTick
    \/ \E c \in Caller : Allow(c) \/ OnSuccess(c) \/ OnFailure(c)

BreakerSpec == BreakerInit /\ [][BreakerNext]_breakerVars

------------------------------------------------------------------------------
(* Properties.                                                             *)

\* The breaker ends up as the service is: one that stays up is reached again, one that stays
\* down is behind a breaker that is not closed, whatever the late answers of earlier calls
\* and several probes at once did to it.
BreakerFollows ==
    /\ <>[]up => <>[](breaker = "closed")
    /\ <>[]~up => <>[](breaker # "closed")
=============================================================================
