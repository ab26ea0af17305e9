------------------------------ MODULE Planning ------------------------------
(***************************************************************************)
(* When main.py has a plan made, what core/plan_executor.py and            *)
(* core/planner.py make of it, and how _execute_plan of main.py carries    *)
(* out the night plan and forgets it.                                      *)
(*                                                                         *)
(* A step of the clock is an hour, with any number of cycles in each, also *)
(* none: without a snapshot a cycle ends before all of this.  The 48 h     *)
(* text for the dashboard and the evening plan, which nothing reads, are   *)
(* left out.                                                               *)
(***************************************************************************)
EXTENDS Integers

CONSTANTS
    PlanHours,                              \* PlannerConfig.plan_hours
    NightStartHour, NightEndHour, Midday, Evening,  \* night_start_hour, night_end_hour,
                                            \* daylight_end_hour, and evening_h
    PvReplanPct,                            \* pv_replan_threshold
    EvTarget, EvBattery, EvEfficiency, MaxJump, EvKw,      \* EvKw in 100 W
    PvHigh, GridMaxSoc, GridMaxKw, BatCap, BatEfficiency, PvSharePct,
    Forecast, EvSoc, BatSoc    \* what a snapshot may say (%, kWh)

Hour == 0..23

ASSUME PlanningAssumption ==
    /\ PlanHours \subseteq Hour
    /\ NightStartHour \in PlanHours /\ {NightEndHour, Midday, Evening} \subseteq Hour \ {NightStartHour}
    /\ NightEndHour < NightStartHour          \* validate_night_window
    /\ {PvReplanPct, MaxJump, PvHigh, PvSharePct} \subseteq Nat
    /\ {EvBattery, EvEfficiency, EvKw, GridMaxKw, BatCap, BatEfficiency} \subseteq Nat \ {0}
    /\ EvTarget \in 0..100 /\ GridMaxSoc \in 0..100
    /\ Forecast \subseteq Nat /\ EvSoc \subseteq 0..100 /\ BatSoc \subseteq 0..100

VARIABLES
    hour,           \* the clock
    lastPlanHour,   \* _last_plan_hour
    lastPv,         \* _last_pv_tomorrow
    button,         \* the input_boolean that asks for a plan
    nightPlan,      \* active_night_plan
    evStarts, batRequests,    \* what _execute_plan did in the last cycle
    cycled,         \* history: a cycle has run in this hour
    missed          \* history: an hour went by without one, or a plan was refused

planVars == <<hour, lastPlanHour, lastPv, button, nightPlan, evStarts, batRequests,
              cycled, missed>>

NoPlan == [evNeed |-> -1]
NightPlan == [evNeed : Nat, evSkip : BOOLEAN, evStart : Int, evStop : Int,
              batNeed : Nat, batStart : Int, batStop : Int]

PlanningTypeOK ==
    /\ hour \in Hour /\ lastPlanHour \in Hour \cup {-1}
    /\ lastPv \in Forecast \cup {-1} /\ button \in BOOLEAN
    /\ nightPlan \in NightPlan \cup {NoPlan}
    /\ evStarts \in BOOLEAN /\ batRequests \in BOOLEAN
    /\ cycled \in BOOLEAN /\ missed \in BOOLEAN

PlanningInit ==
    /\ hour \in Hour /\ lastPlanHour = -1 /\ lastPv = -1 /\ button \in BOOLEAN
    /\ nightPlan = NoPlan /\ evStarts = FALSE /\ batRequests = FALSE
    /\ cycled = FALSE /\ missed = FALSE

------------------------------------------------------------------------------
(* generate_night_plan.                                                    *)

SmallerNum(m, n) == IF m < n THEN m ELSE n
LargerNum(m, n) == IF m > n THEN m ELSE n

\* The SoC the car is to gain: with little sun no more than one jump.
EvGap(soc, pv) ==
    LET gap == LargerNum(EvTarget - soc, 0)
    IN  IF pv <= PvHigh THEN SmallerNum(gap, MaxJump) ELSE gap

EvHours(soc, pv) == (EvGap(soc, pv) * EvBattery * 10) \div (EvEfficiency * EvKw)

\* The energy the batteries are to gain, beyond what the sun will give.
BatNeed(soc, pv) ==
    IF pv > PvHigh THEN 0
    ELSE LargerNum((GridMaxSoc - soc) * BatCap * 100 - pv * PvSharePct * BatEfficiency, 0)

BatHours(soc, pv) == BatNeed(soc, pv) \div (BatEfficiency * 100 * GridMaxKw)

\* Hours of the clock are compared as numbers.
PlanOf(connected, evSoc, batSoc, pv) ==
    LET batStart == LargerNum(NightEndHour - BatHours(batSoc, pv) - 1, NightStartHour)
        skip == pv > PvHigh
    IN  [evNeed |-> IF connected THEN EvGap(evSoc, pv) ELSE 0,
         evSkip |-> ~connected,
         evStart |-> NightStartHour,
         evStop |-> SmallerNum(NightStartHour
                                 + (IF connected THEN EvHours(evSoc, pv) ELSE 0) + 1, batStart),
         batNeed |-> BatNeed(batSoc, pv),
         batStart |-> IF skip THEN 0 ELSE batStart,
         batStop |-> IF skip THEN 0 ELSE NightEndHour]

------------------------------------------------------------------------------
(* A cycle.                                                                *)

\* SystemSnapshot.is_night.
IsNightHour == hour >= NightStartHour \/ hour < NightEndHour

Scheduled == hour \in PlanHours /\ hour # lastPlanHour
PvChanged(pv) ==
    lastPv > 0 /\ (IF pv > lastPv THEN pv - lastPv ELSE lastPv - pv) * 100 > PvReplanPct * lastPv
Startup == lastPlanHour = -1

\* Mutant: a plan that is forced at another hour is none for the night.
MakesAtItsHour(forced, frozen) == ~frozen /\ hour = NightStartHour

\* generate: a night plan at its hour, or by force at an hour without a plan of its own;
\* nothing while the guards are at ALARM or FREEZE.
MakesNightPlan(forced, frozen) ==
    /\ ~frozen
    /\ hour = NightStartHour \/ (forced /\ hour \notin {Evening, NightEndHour, Midday})

\* _execute_plan.
StartsEv(plan, connected, charging, soc) ==
    /\ plan # NoPlan /\ IsNightHour
    /\ plan.evStart <= hour /\ hour < plan.evStop
    /\ ~plan.evSkip /\ connected /\ soc < 100 /\ ~charging

RequestsCharge(plan, soc) ==
    /\ plan # NoPlan /\ IsNightHour
    /\ plan.batStart <= hour /\ hour < plan.batStop
    /\ plan.batNeed > 0 /\ soc < GridMaxSoc

ClearsPlan(plan) == plan # NoPlan /\ ~IsNightHour /\ hour >= 6

\* The hour counts as planned before the plan is made, and also if none is.
PlanCycle(pv, frozen, connected, charging, evSoc, batSoc) ==
    LET forced == Startup \/ button
        triggered == Scheduled \/ PvChanged(pv) \/ forced
        makes == triggered /\ MakesNightPlan(forced, frozen)
        plan == IF makes THEN PlanOf(connected, evSoc, batSoc, pv) ELSE nightPlan
    IN  /\ lastPv' = pv
        /\ lastPlanHour' = IF triggered THEN hour ELSE lastPlanHour
        /\ button' \in {FALSE, button}
        /\ evStarts' = StartsEv(plan, connected, charging, evSoc)
        /\ batRequests' = RequestsCharge(plan, batSoc)
        /\ nightPlan' = IF ClearsPlan(plan) THEN NoPlan ELSE plan
        /\ cycled' = TRUE
        /\ missed' = IF triggered /\ (makes \/ (hour \in PlanHours /\ ~IsNightHour))
                     THEN FALSE ELSE missed \/ (triggered /\ frozen)
        /\ UNCHANGED hour

PlanCycles ==
    \E pv \in Forecast, frozen \in BOOLEAN, connected \in BOOLEAN, charging \in BOOLEAN,
       evSoc \in EvSoc, batSoc \in BatSoc :
          PlanCycle(pv, frozen, connected, charging, evSoc, batSoc)

\* The hour is over; _check_force_replan will find the button pressed.
NextHour ==
    /\ hour' = (hour + 1) % 24
    /\ button' = TRUE \/ UNCHANGED button
    /\ cycled' = FALSE /\ missed' = (missed \/ ~cycled)
    /\ UNCHANGED <<lastPlanHour, lastPv, nightPlan, evStarts, batRequests>>

PlanningRestart ==
    /\ lastPlanHour' = -1 /\ lastPv' = -1 /\ nightPlan' = NoPlan /\ cycled' = FALSE
    /\ UNCHANGED <<hour, button, evStarts, batRequests, missed>>

PlanningNext == PlanCycles \/ NextHour \/ PlanningRestart

PlanningSpec == PlanningInit /\ [][PlanningNext]_planVars

------------------------------------------------------------------------------
(* Properties.                                                             *)

\* A night in which, and before which, every hour has had a cycle, and the guards let plans
\* be made, has a night plan from its first cycle to its last: across restarts, and
\* whatever plans forecast and button asked for in other hours.
PlannedAtNight == cycled /\ ~missed /\ IsNightHour => nightPlan # NoPlan

\* A plan that gives the car energy has an hour of the night in which _execute_plan would start
\* it. ("EV scheduled first (22:00->), battery closer to 06:00.", planner.py, and "Execute active
\* night/evening plan actions.", main.py.)
CarHasItsHours ==
    nightPlan # NoPlan /\ nightPlan.evNeed > 0 =>
        \E h \in Hour : /\ h >= NightStartHour \/ h < NightEndHour
                       /\ nightPlan.evStart <= h /\ h < nightPlan.evStop
=============================================================================
