------------------------------- MODULE Relays -------------------------------
(***************************************************************************)
(* The switched consumers of the house and the parts of a cycle that       *)
(* command them, one after the other, on one snapshot:                     *)
(*                                                                         *)
(*   guard     G3 sheds "all" (core/guards.py, core/executor.py)           *)
(*   cascade   one switch by the budget (core/budget.py)                   *)
(*   bump      room for a car that was just connected (main.py)            *)
(*   heater    the cold outdoor battery (main.py)                          *)
(*   dispatch  the surplus dispatch (core/surplus_dispatch.py)             *)
(*                                                                         *)
(* Cascade and dispatch each keep a memory of their own of when they       *)
(* switched what.  bump and heater do not look at the snapshot but at the  *)
(* batch cache of adapters/ha_api.py, which no service call invalidates.   *)
(*                                                                         *)
(* A unit of time is a cycle, a unit of power 100 W.  Every command to a   *)
(* relay lands.                                                            *)
(***************************************************************************)
EXTENDS Integers, FiniteSets

CONSTANTS
    Consumer,      \* config.consumers
    Relay,         \* those with an entity_switch
    Wired,         \* those the executor has a Shelly adapter for
    Heater,        \* the one with role "cold_heater", or none of them
    Priority, Shed,    \* order of starting (lowest first), of shedding (highest first)
    Requires,      \* requires_active: a consumer, or a name that is none of them
    Draw,          \* Draw[S]: the power of the consumers S together
    Tolerance,     \* _GRID_TOLERANCE_W
    Cooldown, Sustained,                    \* of the cascade
    StopBelow, StartDeadband, DoubledDeadband,   \* of the dispatch
    DoubledFor, Window, MaxSwitches,        \* of its rate limiter
    Weather        \* what a snapshot may say: see RelaysView

\* house    grid power without any consumer (negative: export)
\* full     every battery is at its maximum (_bat_at_max)
\* late     data too old: the engine ends after the guards
\* need     power the EV needs beyond the headroom, when it was just connected
\* cold     the outdoor battery is below its cold_temp_c
\* slow     the batch cache of this cycle expires after the engine ran
RelaysView == [house : Int, full : BOOLEAN, late : BOOLEAN, need : Nat,
               cold : BOOLEAN, slow : BOOLEAN]

ASSUME RelaysAssumption ==
    /\ Wired \subseteq Relay /\ Relay \subseteq Consumer /\ IsFiniteSet(Consumer)
    /\ Priority \in [Consumer -> Nat] /\ Shed \in [Consumer -> Nat]
    /\ \A c, d \in Consumer :
         c # d => Priority[c] # Priority[d] /\ Shed[c] # Shed[d]
    /\ Draw \in [SUBSET Consumer -> Nat]
    /\ {Tolerance, Cooldown, Sustained, StartDeadband, DoubledDeadband, DoubledFor, Window,
        MaxSwitches} \subseteq Nat
    /\ StopBelow \in Int /\ StopBelow > Tolerance
    /\ Weather \subseteq RelaysView

VARIABLES
    on,        \* the consumers that run
    relayPhase, relayView, seen,   \* of the cycle: the part that is next, its snapshot
    cached,    \* the relays that are on in the batch cache
    gridExports,   \* BudgetState.consecutive_export_cycles
    since,     \* age of consumer_last_switch_ts
    slot,      \* SurplusRateLimiter._switches: their ages
    doubled,   \* how long the deadband stays doubled
    left, room, active,  \* of a loop over the consumers: those to come, remaining_w
                         \* (or what the bump has still to free), active_deps
    ups, downs,          \* history: what was switched in this cycle
    disturbed  \* history: a crash or a hand on a relay since the last cycle began

memory == <<gridExports, since, slot, doubled>>
loop == <<left, room, active>>
relayVars == <<on, relayPhase, relayView, seen, cached, memory, loop, ups, downs, disturbed>>

RelayPhase == {"sleep", "guard", "cascade", "bump", "heater", "dispatch", "switch", "shed"}

\* A free place of the rate limiter: its switch is older than the window.
Free == Window + 1

RelaysTypeOK ==
    /\ on \subseteq Consumer /\ seen \subseteq Consumer
    /\ relayPhase \in RelayPhase /\ relayView \in Weather
    /\ cached \subseteq Relay
    /\ gridExports \in 0..Sustained
    /\ since \in [Consumer -> 0..Cooldown]
    /\ slot \in [1..MaxSwitches -> 0..Free]
    /\ doubled \in 0..DoubledFor
    /\ left \subseteq Consumer /\ room \in Int /\ active \subseteq Consumer
    /\ ups \subseteq Relay /\ downs \subseteq Relay
    /\ disturbed \in BOOLEAN

\* The memories of a service that has just started: no switch in them.
Rest == [c \in Consumer |-> Cooldown]
Idle == [i \in 1..MaxSwitches |-> Free]

RelaysInit ==
    /\ on = {} /\ seen = {} /\ cached = {}
    /\ relayPhase = "sleep" /\ relayView \in Weather
    /\ gridExports = 0 /\ since = Rest /\ slot = Idle /\ doubled = 0
    /\ left = {} /\ room = 0 /\ active = {}
    /\ ups = {} /\ downs = {} /\ disturbed = FALSE

------------------------------------------------------------------------------
(* Helpers.                                                                *)

\* The grid meter of the snapshot.
Grid == relayView.house + Draw[seen]

FirstUp(S) == CHOOSE c \in S : \A d \in S : Priority[c] <= Priority[d]
FirstDown(S) == CHOOSE c \in S : \A d \in S : Shed[c] >= Shed[d]

TurnOn(S) == on' = on \cup S /\ ups' = ups \cup S /\ UNCHANGED downs
TurnOff(S) == on' = on \ S /\ downs' = downs \cup S /\ UNCHANGED ups
Untouched == UNCHANGED <<on, ups, downs>>

CanSwitch == \E i \in 1..MaxSwitches : slot[i] = Free

\* A switch takes a free place; with the last one the deadband doubles.
RecordSwitch ==
    LET i == CHOOSE j \in 1..MaxSwitches : slot[j] = Free
        used == [slot EXCEPT ![i] = 0]
    IN  /\ slot' = used
        /\ doubled' = IF \E j \in 1..MaxSwitches : used[j] = Free THEN doubled ELSE DoubledFor

\* The service calls of the dispatch: a consumer without a relay has none.
SwitchOn(c) == TurnOn({c} \cap Relay)
SwitchOff(c) == TurnOff({c} \cap Relay)

------------------------------------------------------------------------------
(* The cycle.                                                              *)

\* The snapshot; between two cycles somebody may have switched a consumer.
CollectRelays ==
    /\ relayPhase = "sleep"
    /\ relayView' \in Weather
    /\ on' \in {on} \cup {on \cup {c} : c \in Consumer} \cup {on \ {c} : c \in Consumer}
    /\ seen' = on' /\ cached' = on' \cap Relay
    /\ ups' = {} /\ downs' = {} /\ disturbed' = (on' # on)
    /\ relayPhase' = "guard"
    /\ UNCHANGED <<memory, loop>>

\* G3 at CRITICAL: TURN_OFF_CONSUMER "all", for which the executor finds no
\* adapter.
GuardShed ==
    /\ relayPhase = "guard"
    /\ TurnOff({c \in Wired : c = "all"})
    /\ relayPhase' = IF relayView.late THEN "bump" ELSE "cascade"
    /\ left' = Consumer /\ room' = relayView.need
    /\ UNCHANGED <<relayView, seen, cached, memory, active, disturbed>>

Rested(S) == {c \in S : since[c] >= Cooldown}

\* Mutant: every switch is followed by a fetch.
ExpiredAtOnce(relays) == relays \cap Relay

\* The cache expires late in a slow cycle; who reads next fetches again.
Expired(relays) == IF relayView.slow THEN relays \cap Relay ELSE cached

Cascade ==
    /\ relayPhase = "cascade"
    /\ gridExports' = IF Grid >= -Tolerance THEN 0
                     ELSE IF gridExports < Sustained THEN gridExports + 1 ELSE Sustained
    /\ LET up == IF Grid < -Tolerance /\ gridExports' >= Sustained /\ relayView.full
                 THEN Rested(Consumer \ seen) ELSE {}
           down == IF Grid > Tolerance THEN Rested(seen) ELSE {}
       IN  \/ /\ up # {}
              /\ TurnOn({FirstUp(up)} \cap Wired)
              /\ since' = [since EXCEPT ![FirstUp(up)] = 0]
           \/ /\ down # {}
              /\ TurnOff({FirstDown(down)} \cap Wired)
              /\ since' = [since EXCEPT ![FirstDown(down)] = 0]
           \/ /\ up = {} /\ down = {}
              /\ Untouched /\ UNCHANGED since
    /\ cached' = Expired(on')
    /\ relayPhase' = "bump"
    /\ UNCHANGED <<relayView, seen, slot, doubled, loop, disturbed>>

\* One round of the loop that makes room for the EV.
Bump ==
    /\ relayPhase = "bump"
    /\ left # {} /\ room > 0
    /\ LET c == FirstUp(left)
       IN  /\ left' = left \ {c}
           /\ IF c \in cached
              THEN TurnOff({c}) /\ room' = room - Draw[{c}]
              ELSE Untouched /\ UNCHANGED room
    /\ UNCHANGED <<relayPhase, relayView, seen, cached, memory, active, disturbed>>

BumpDone ==
    /\ relayPhase = "bump"
    /\ left = {} \/ room <= 0
    /\ relayPhase' = "heater"
    /\ Untouched /\ UNCHANGED <<relayView, seen, cached, memory, loop, disturbed>>

ColdHeater ==
    /\ relayPhase = "heater"
    /\ IF relayView.cold /\ Heater \in Relay \ cached THEN TurnOn({Heater}) ELSE Untouched
    /\ relayPhase' = "dispatch"
    /\ UNCHANGED <<relayView, seen, cached, memory, loop, disturbed>>

\* Mutant: it is free twice.
SurplusTwice == -Grid + 2 * Draw[seen]

\* What the house exports and what the active consumers draw.
Surplus == -Grid + Draw[seen]

StartDispatch ==
    /\ relayPhase = "dispatch"
    /\ relayPhase' = IF Surplus < StopBelow THEN "shed" ELSE "switch"
    /\ left' = Consumer /\ active' = seen
    /\ room' = Surplus - IF doubled > 0 THEN DoubledDeadband ELSE StartDeadband
    /\ Untouched /\ UNCHANGED <<relayView, seen, cached, memory, disturbed>>

\* One round of the escalation; room is what remains beyond the deadband.
Escalate ==
    /\ relayPhase = "switch" /\ left # {}
    /\ LET c == FirstUp(left)
           starts == /\ c \notin seen
                     /\ Requires[c] \in active \cup {""}
                     /\ room >= Draw[{c}]
                     /\ CanSwitch
       IN  /\ left' = left \ {c}
           /\ room' = IF c \in seen \/ starts THEN room - Draw[{c}] ELSE room
           /\ IF starts
              THEN SwitchOn(c) /\ active' = active \cup {c} /\ RecordSwitch
              ELSE Untouched /\ UNCHANGED <<active, slot, doubled>>
    /\ UNCHANGED <<relayPhase, relayView, seen, cached, gridExports, since, disturbed>>

\* One round of the de-escalation.
DeEscalate ==
    /\ relayPhase = "shed" /\ left # {}
    /\ LET c == FirstDown(left)
       IN  /\ left' = left \ {c}
           /\ IF c \in seen /\ CanSwitch
              THEN SwitchOff(c) /\ RecordSwitch
              ELSE Untouched /\ UNCHANGED <<slot, doubled>>
    /\ UNCHANGED <<relayPhase, relayView, seen, cached, gridExports, since, room, active, disturbed>>

\* A cycle passes: every age grows.
RelaysSleep ==
    /\ relayPhase \in {"switch", "shed"} /\ left = {}
    /\ relayPhase' = "sleep"
    /\ since' = [c \in Consumer |-> IF since[c] < Cooldown THEN since[c] + 1 ELSE Cooldown]
    /\ slot' = [i \in 1..MaxSwitches |-> IF slot[i] = Free THEN Free ELSE slot[i] + 1]
    /\ doubled' = IF doubled > 0 THEN doubled - 1 ELSE 0
    /\ room' = 0 /\ active' = {} /\ left' = {}
    /\ Untouched /\ UNCHANGED <<relayView, seen, cached, gridExports, disturbed>>

\* The service dies and starts again; the relays stay as they are.
RelaysCrash ==
    /\ relayPhase' = "sleep" /\ disturbed' = TRUE
    /\ gridExports' = 0 /\ since' = Rest /\ slot' = Idle /\ doubled' = 0
    /\ left' = {} /\ room' = 0 /\ active' = {}
    /\ Untouched /\ UNCHANGED <<relayView, seen, cached>>

RelaysLoop ==
    \/ CollectRelays \/ GuardShed \/ Cascade \/ Bump \/ BumpDone \/ ColdHeater
    \/ StartDispatch \/ Escalate \/ DeEscalate \/ RelaysSleep

RelaysNext == RelaysLoop \/ RelaysCrash

RelaysSpec == RelaysInit /\ [][RelaysNext]_relayVars

------------------------------------------------------------------------------
(* Properties.                                                             *)

\* Two writers, one relay: cascade, bump and dispatch never switch a relay both
\* on and off in a cycle, as long as the cache of the cycle lasts: bump and heater
\* then see what the snapshot saw, and not what the cascade has just done.
OneDirection == ~relayView.slow => ups \cap downs = {}

\* While the house has no surplus of its own (what export there is, running
\* consumers apart, is within the tolerance), nothing but the cold heater is switched on.
NeverStartsShort ==
    [][relayView'.house >= -Tolerance => ups' \ {Heater} \subseteq ups]_relayVars

Calm == ~disturbed /\ relayView.need = 0 /\ ~relayView.cold

\* The relays end up as the surplus is.  A house that has none any more ends up with every relay
\* off, also with the rate limiter used up, and in cycles in which late data silence the engine;
\* then, unless a consumer without a relay runs: the dispatch spends all its switches on that one.
\* A surplus that all consumers together do not use up, with full batteries, ends up with every
\* relay on, those whose start the dispatch refuses included.
RelaysFollow ==
    /\ <>[](/\ Calm /\ relayView.house >= -Tolerance
            /\ relayView.late => seen \subseteq Wired) => <>[](on \cap Wired = {})
    /\ <>[](/\ Calm /\ relayView.full /\ ~relayView.late
            /\ relayView.house + Draw[Consumer] < -Tolerance) => <>[](Wired \subseteq on)
=============================================================================
