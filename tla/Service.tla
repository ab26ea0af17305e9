------------------------------- MODULE Service -------------------------------
(***************************************************************************)
(* main.py around the engine: the service that systemd starts, the cycle   *)
(* it repeats, the override a user asks for through two helpers of Home    *)
(* Assistant, and what others learn of a cycle: the dashboard and the      *)
(* export limits, /health (health.py), and Slack (notifications/slack.py). *)
(*                                                                         *)
(* Every request to Home Assistant is a step, before and after which the   *)
(* user may touch the helpers, the sun may set and Home Assistant may go.  *)
(* The engine is what it is to the others: it follows the override, or     *)
(* takes any scenario, or keeps the old one when the data is too old.      *)
(***************************************************************************)
EXTENDS Naturals

CONSTANTS
    Scenarios,       \* the names that Scenario(...) knows
    Started,         \* control.start_scenario
    HealthDefault,   \* HealthStatus.scenario before the first cycle
    SelectOptions,   \* what the select helper may hold
    EveningHour,     \* ellevio.night_start_hour
    Days             \* the hours and the PV power that may come

Away == "none"

ASSUME ServiceAssumption ==
    /\ Started \in Scenarios /\ HealthDefault \in Scenarios
    /\ Away \notin Scenarios
    /\ EveningHour \in 0..24
    /\ Days \subseteq [hour : 0..23, sun : BOOLEAN]

VARIABLES
    env,       \* Home Assistant (up, slow or down), the two helpers, the day
    doing,     \* what the service does next
    running,   \* _running
    daySeen,   \* of the snapshot
    stale,     \* the snapshot is too old when the engine gets it (G7)
    manual,    \* _manual_override
    scenario,  \* cycle_result.scenario, the one of the machine
    shown,     \* the scenario sensor on the dashboard
    limit,     \* the export limits are open
    health,    \* what /health answers
    lastTold,  \* _last_scenario
    heard,     \* history: the scenario of the last Slack message, Away after a loss
    touched    \* history: a helper was touched between the first read of it and the engine

outputs == <<shown, limit, health, lastTold, heard>>
serviceVars == <<env, doing, running, daySeen, stale, manual, scenario, outputs,
                 touched>>

World == [ha : {"up", "slow", "down"}, enabled : BOOLEAN, choice : SelectOptions, day : Days]

Up == {"collect", "enabled", "choice", "engine", "dashboard", "export", "status", "slack",
       "sleep"}

ServiceTypeOK ==
    /\ env \in World
    /\ doing \in Up \cup {"failed", "stopped"}
    /\ running \in BOOLEAN /\ stale \in BOOLEAN
    /\ touched \in BOOLEAN /\ limit \in BOOLEAN
    /\ daySeen \in Days
    /\ {manual, lastTold, heard} \subseteq Scenarios \cup {Away}
    /\ {scenario, shown} \subseteq Scenarios
    /\ health \in [scenario : Scenarios, connected : BOOLEAN]

\* Between two cycles there is no snapshot.
AnyDay == CHOOSE d \in Days : TRUE

\* What /health answers before the first cycle.
NoHealth == [scenario |-> HealthDefault, connected |-> TRUE]

ServiceInit ==
    /\ env \in World
    /\ doing = "collect" /\ running = TRUE
    /\ daySeen = AnyDay /\ stale = FALSE
    /\ manual = Away /\ scenario = Started /\ lastTold = Away /\ health = NoHealth
    /\ shown = Started /\ limit \in BOOLEAN
    /\ heard = Away /\ touched = FALSE

Reachable == env.ha # "down"

------------------------------------------------------------------------------
(* The cycle.                                                              *)

Go(from, to) == doing = from /\ doing' = to /\ UNCHANGED <<env, running>>

\* Without an answer of Home Assistant the cycle is over.
Collect ==
    /\ Go("collect", IF Reachable THEN "enabled" ELSE "sleep")
    /\ daySeen' = IF Reachable THEN env.day ELSE AnyDay
    /\ stale' = (env.ha = "slow")
    /\ UNCHANGED <<manual, scenario, outputs, touched>>

\* Mutant: the override is left alone when it is not enabled.
ReadEnabledOnly ==
    /\ Go("enabled", IF Reachable /\ env.enabled THEN "choice" ELSE "engine")
    /\ UNCHANGED <<daySeen, stale, manual, scenario, outputs, touched>>

\* A read that fails gives None, which is not "on".
ReadEnabled ==
    /\ Go("enabled", IF Reachable /\ env.enabled THEN "choice" ELSE "engine")
    /\ manual' = IF Reachable /\ env.enabled THEN manual ELSE Away
    /\ UNCHANGED <<daySeen, stale, scenario, outputs, touched>>

\* "Auto", "unavailable", a name that is no scenario or no answer: no override.
ReadChoice ==
    /\ Go("choice", "engine")
    /\ manual' = IF Reachable /\ env.choice \in Scenarios THEN env.choice ELSE Away
    /\ UNCHANGED <<daySeen, stale, scenario, outputs, touched>>

Engine ==
    /\ Go("engine", "dashboard")
    /\ scenario' \in IF stale THEN {scenario}
                     ELSE IF manual # Away THEN {manual} ELSE Scenarios
    /\ stale' = FALSE /\ touched' = FALSE
    /\ UNCHANGED <<daySeen, manual, outputs>>

\* Mutant: only a transition is written.
DashboardOnChange ==
    /\ Go("dashboard", "export")
    /\ shown' = IF Reachable /\ scenario # lastTold THEN scenario ELSE shown
    /\ UNCHANGED <<daySeen, stale, manual, scenario, limit, health, lastTold, heard,
                   touched>>

\* Every sensor and text that _write_dashboard_state writes tells the same cycle.
Dashboard ==
    /\ Go("dashboard", "export")
    /\ shown' = IF Reachable THEN scenario ELSE shown
    /\ UNCHANGED <<daySeen, stale, manual, scenario, limit, health, lastTold, heard,
                   touched>>

Producing == daySeen.sun

\* Mutant: nobody closes them on a dark day.
ExportLimitByHour ==
    /\ Go("export", "status")
    /\ limit' = CASE ~Reachable -> limit
                  [] Reachable /\ daySeen.hour < EveningHour -> (limit \/ Producing)
                  [] Reachable /\ daySeen.hour >= EveningHour -> FALSE
    /\ daySeen' = AnyDay
    /\ UNCHANGED <<stale, manual, scenario, shown, health, lastTold, heard,
                   touched>>

ExportLimit ==
    /\ Go("export", "status")
    /\ limit' = CASE ~Reachable -> limit
                  [] Reachable /\ Producing /\ daySeen.hour < EveningHour -> TRUE
                  [] Reachable /\ (daySeen.hour >= EveningHour \/ ~Producing) -> FALSE
    /\ daySeen' = AnyDay
    /\ UNCHANGED <<stale, manual, scenario, shown, health, lastTold, heard,
                   touched>>

\* Without ha_connected there was no snapshot, and the cycle did not get this far.
Status ==
    /\ Go("status", "slack")
    /\ health' = [scenario |-> scenario, connected |-> TRUE]
    /\ UNCHANGED <<daySeen, stale, manual, scenario, shown, limit, lastTold, heard,
                   touched>>

\* notify: never raises; nobody looks at what it returns.
Notify(s) == heard' \in {s, Away}

\* Mutant: only a transition is remembered.
SlackRemembersFirst ==
    /\ Go("slack", "sleep")
    /\ IF lastTold \notin {Away, scenario} THEN Notify(scenario) ELSE UNCHANGED heard
    /\ lastTold' = IF lastTold = Away THEN scenario ELSE lastTold
    /\ UNCHANGED <<daySeen, stale, manual, scenario, shown, limit, health, touched>>

\* The transition is told if there was one since the last cycle that got here.
Slack ==
    /\ Go("slack", "sleep")
    /\ IF lastTold \notin {Away, scenario} THEN Notify(scenario) ELSE UNCHANGED heard
    /\ lastTold' = scenario
    /\ UNCHANGED <<daySeen, stale, manual, scenario, shown, limit, health, touched>>

\* asyncio.sleep, and the test of the loop.
Sleep ==
    /\ Go("sleep", IF running THEN "collect" ELSE "stopped")
    /\ UNCHANGED <<daySeen, stale, manual, scenario, outputs, touched>>

Cycles == \/ Collect \/ ReadEnabled \/ ReadChoice \/ Engine \/ Dashboard \/ ExportLimit
          \/ Status \/ Slack \/ Sleep

------------------------------------------------------------------------------
(* Starting and stopping.                                                  *)

\* SIGTERM and SIGINT: the cycle under way is finished first.
Stop ==
    /\ doing \in Up /\ running' = FALSE
    /\ UNCHANGED <<env, doing, daySeen, stale, manual, scenario, outputs, touched>>

\* The process dies, of an exception that a cycle lets through or otherwise.
Crash ==
    /\ doing \in Up
    /\ doing' = IF running THEN "failed" ELSE "stopped"
    /\ stale' = FALSE /\ daySeen' = AnyDay /\ touched' = FALSE
    /\ UNCHANGED <<env, running, manual, scenario, outputs>>

\* start() of a new process.  The transition the restart makes is not told.
StartService(from) ==
    /\ doing = from /\ doing' = "collect" /\ running' = TRUE
    /\ UNCHANGED <<stale, touched>>
    /\ manual' = Away /\ scenario' = Started /\ lastTold' = Away /\ health' = NoHealth
    /\ heard' = Away
    /\ UNCHANGED <<env, daySeen, shown, limit>>

\* systemd: Restart=on-failure.
SystemdRestart == StartService("failed")

\* A person starts it again.
OperatorStart == StartService("stopped")

------------------------------------------------------------------------------
\* Somebody touches a helper, or the hour or the weather changes, or
\* Home Assistant comes and goes.
WorldChanges ==
    /\ \/ \E h \in {"up", "slow", "down"} : env' = [env EXCEPT !.ha = h]
       \/ \E b \in BOOLEAN : env' = [env EXCEPT !.enabled = b]
       \/ \E c \in SelectOptions : env' = [env EXCEPT !.choice = c]
       \/ \E d \in Days : env' = [env EXCEPT !.day = d]
    /\ env' # env
    /\ touched' = \/ touched
                  \/ /\ doing \in {"choice", "engine"}
                     /\ <<env.enabled, env.choice>>' # <<env.enabled, env.choice>>
    /\ UNCHANGED <<doing, running, daySeen, stale, manual, scenario, outputs>>

ServiceLoop == Cycles \/ SystemdRestart

ServiceNext == ServiceLoop \/ Stop \/ Crash \/ OperatorStart \/ WorldChanges

ServiceSpec == ServiceInit /\ [][ServiceNext]_serviceVars

\* Every request has a timeout, and systemd starts what has failed.
FairService == ServiceSpec /\ WF_serviceVars(ServiceLoop)

------------------------------------------------------------------------------
(* Properties.                                                             *)

\* The engine never follows an override that nobody asks for: what it is about to
\* follow is enabled and selected, unless a helper was touched since the first of the
\* two reads.  One that was switched off while cycles were skipped does not survive.
OverrideWasAsked ==
    (doing = "engine" /\ manual # Away /\ ~touched) => (env.enabled /\ env.choice = manual)

\* What Slack heard last is what the house does: at the end of a cycle, skipped ones
\* and ones with old data included, the last message names the scenario in force, unless a
\* message was lost or the service started anew since.
SlackIsCurrent == doing = "sleep" => heard \in {Away, scenario}

\* No stop, and crashes that end.
StaysUp == <>[]running /\ <>[][~Crash]_serviceVars

\* An override that stays selected is followed in the end, and the dashboard and
\* /health say so, whatever restarts, outages and changes of mind came before.
OverrideFollowed ==
    StaysUp =>
        \A s \in Scenarios :
            <>[](env.ha = "up" /\ env.enabled /\ env.choice = s) =>
                <>[](scenario = s /\ shown = s /\ health.scenario = s)

\* The export limits end up open in a sunny day and closed otherwise, whatever
\* write was lost before.
LimitFollowsSun ==
    (StaysUp /\ <>[](env.ha # "down")) =>
        \A d \in Days :
            <>[](env.day = d) => <>[](limit = (d.sun /\ d.hour < EveningHour))
=============================================================================
