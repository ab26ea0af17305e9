------------------------------ MODULE MCRecords ------------------------------
(***************************************************************************)
(* For TLC: the client of Home Assistant, the sessions, the peaks of the   *)
(* tariff, the planning and the plan of the day, side by side.  One of     *)
(* them runs, from any of its initial states, the others stay in one of    *)
(* theirs.                                                                 *)
(***************************************************************************)
EXTENDS HomeAssistant, Sessions, Tariff, Planning, DayPlan

VARIABLE part

recordsVars == <<part, haVars, sessionsVars, tariffVars, planVars, dayVars>>

Part == {"client", "sessions", "tariff", "planning", "day"}

\* The control task, and another one that only reads and calls services.
MCCalls == [t \in Task |-> IF t = "control" THEN {"warm", "batch", "set"} ELSE {"batch", "service"}]

\* Export, little import and much.
MCImport == {-2, 1, 3}

\* The batteries of config/site.yaml, and two devices.
MCPack == <<"large", "small">>
MCPackCap == [b \in {"large", "small"} |-> IF b = "small" THEN 50 ELSE 150]
MCMaxCharge == [b \in {"large", "small"} |-> 50]
MCDevice == <<4, 20>>

\* An hour without enough PV for the house, a good one, and one whose p10 is above its p50.
MCEstimate == {[p10 |-> 5, p50 |-> 10], [p10 |-> 60, p50 |-> 80], [p10 |-> 150, p50 |-> 140]}

RecordsInit ==
    /\ part \in Part
    /\ part # "sessions" =>
         seen = [mode |-> [b \in Battery |-> "charge_battery"], charging |-> FALSE, sun |-> 0]
    /\ part # "tariff" => clock = 1
    /\ part # "planning" => hour = 0 /\ button = FALSE
    /\ part # "day" =>
         /\ bands = Flat(180) /\ plugged = FALSE
         /\ lacked = [pack |-> [b \in ToSet(Pack) |-> 0], car |-> 0]
    /\ HaInit /\ SessionsInit /\ TariffInit /\ PlanningInit /\ DayInit

Runs(p) ==
    /\ part = p /\ UNCHANGED part
    /\ IF p = "client" THEN TRUE ELSE UNCHANGED haVars
    /\ IF p = "sessions" THEN TRUE ELSE UNCHANGED sessionsVars
    /\ IF p = "tariff" THEN TRUE ELSE UNCHANGED tariffVars
    /\ IF p = "planning" THEN TRUE ELSE UNCHANGED planVars
    /\ IF p = "day" THEN TRUE ELSE UNCHANGED dayVars

RecordsNext ==
    \/ Runs("client") /\ HaNext
    \/ Runs("sessions") /\ SessionsNext
    \/ Runs("tariff") /\ TariffNext
    \/ Runs("planning") /\ PlanningNext
    \/ Runs("day") /\ DayNext

RecordsSpec == RecordsInit /\ [][RecordsNext]_recordsVars

\* The types of the five.
RecordsTypeOK == HaTypeOK /\ SessionsTypeOK /\ TariffTypeOK /\ PlanningTypeOK /\ DayTypeOK
=============================================================================
