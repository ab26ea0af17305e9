---------------------------- MODULE StateMachine ----------------------------
(***************************************************************************)
(* core/state_machine.py: the nine scenarios and how one follows another.  *)
(* One step is one control cycle: the manual override is read, a snapshot  *)
(* taken, and evaluate() and transition_to() are run on it.  The hour of   *)
(* the next snapshot is free: cycles are skipped while Home Assistant does *)
(* not answer, and the service may be down for hours.                      *)
(*                                                                         *)
(* A snapshot is what the conditions look at:                              *)
(*   hour, soc                  local hour, mean SoC of the batteries (%)  *)
(*   pvToday, pvTomorrow        is the forecast above pv_high_threshold?   *)
(*                              (pv_medium_threshold is the same number)   *)
(*   plugged, evBelow           EV connected; its SoC below the target     *)
(*   cheap                      price below grid_charge_price_threshold    *)
(*   pv, exporting              PV power (W); export above the surplus     *)
(*                              threshold                                  *)
(***************************************************************************)
EXTENDS Naturals, Sequences

CONSTANTS
    StartScenario,              \* control.start_scenario
    MinDwell,                   \* scenario_transition_s, in cycles
    MorningStart, MorningEnd, ForenoonEnd, MiddayEnd, EveningEnd,  \* hours
    Floor,                      \* normal_floor_pct
    MorningMin,                 \* morning_min_soc_pct
    EveningMargin,              \* evening_min_soc_above_floor_pct
    SurplusEntry, SurplusExit,  \* surplus_entry_soc_pct, surplus_exit_soc_pct
    SurplusPv, SurplusExitPv,   \* surplus_pv_min_w, surplus_exit_pv_min_w
    GridChargeMax,              \* grid_charge_max_soc_pct
    Snapshots,                  \* what the sensors may say
    Overrides                   \* what the user may ask for

Night == {"NIGHT_HIGH_PV", "NIGHT_LOW_PV", "NIGHT_GRID_CHARGE", "NIGHT_EV"}

Scenario == Night \cup {"MORNING_DISCHARGE", "FORENOON_PV_EV", "PV_SURPLUS_DAY",
                        "EVENING_DISCHARGE", "PV_SURPLUS"}

Snapshot == [hour : 0..23, soc : 0..100, pvToday : BOOLEAN, pvTomorrow : BOOLEAN,
             plugged : BOOLEAN, evBelow : BOOLEAN, cheap : BOOLEAN,
             pv : Nat, exporting : BOOLEAN]

ASSUME ScenarioAssumption ==
    /\ StartScenario \in Scenario
    /\ MinDwell \in Nat \ {0}
    /\ Snapshots \subseteq Snapshot /\ Snapshots # {}
    /\ Overrides \subseteq Scenario

ASSUME ThresholdAssumption ==
    /\ {MorningStart, MorningEnd, ForenoonEnd, MiddayEnd, EveningEnd, Floor, MorningMin,
        EveningMargin, SurplusEntry, SurplusExit, SurplusPv, SurplusExitPv,
        GridChargeMax} \subseteq Nat
    /\ MorningStart < MorningEnd /\ MorningEnd < ForenoonEnd
    /\ ForenoonEnd < MiddayEnd /\ MiddayEnd < EveningEnd
    /\ Floor <= MorningMin
    /\ SurplusExit <= SurplusEntry /\ SurplusExitPv <= SurplusPv

VARIABLES
    current,    \* state.current
    dwell,      \* state.dwell_s at the next cycle, counted in cycles
    override,   \* _manual_override, "none" if unset
    snap        \* the snapshot of the last cycle

vars == <<current, dwell, override, snap>>

TypeOK ==
    /\ current \in Scenario
    /\ dwell \in 1..MinDwell
    /\ override \in Overrides \cup {"none"}
    /\ snap \in Snapshots

Init ==
    /\ current = StartScenario
    /\ dwell = 1
    /\ override = "none"
    /\ snap \in Snapshots

------------------------------------------------------------------------------
(* Conditions.                                                             *)

Between(h, from, to) == from <= h /\ h < to

IsNight(x) == x.hour >= EveningEnd \/ x.hour < MorningStart

NeedsEnergy(x) == x.plugged /\ x.evBelow

CriticallyLow(x) == x.soc <= Floor + EveningMargin

\* _check_entry.
Entry(s, x) ==
    CASE s = "MORNING_DISCHARGE" ->
            Between(x.hour, MorningStart, MorningEnd) /\ x.pvToday /\ x.soc > MorningMin
      [] s = "FORENOON_PV_EV" ->
            Between(x.hour, MorningStart, ForenoonEnd) /\ x.pvToday /\ NeedsEnergy(x)
      [] s = "PV_SURPLUS_DAY" ->
            Between(x.hour, ForenoonEnd, MiddayEnd) \/ CriticallyLow(x)
      [] s = "EVENING_DISCHARGE" ->
            Between(x.hour, MiddayEnd, EveningEnd) /\ ~CriticallyLow(x)
      [] s = "NIGHT_HIGH_PV" -> IsNight(x) /\ x.pvTomorrow
      [] s = "NIGHT_LOW_PV"  -> IsNight(x) /\ ~x.pvTomorrow
      [] s = "NIGHT_GRID_CHARGE" ->
            IsNight(x) /\ ~NeedsEnergy(x) /\ x.soc < GridChargeMax /\ x.cheap
      [] s = "PV_SURPLUS" ->
            x.soc >= SurplusEntry /\ x.pv > SurplusPv /\ x.exporting
      [] s = "NIGHT_EV" -> IsNight(x) /\ NeedsEnergy(x)

\* Mutant: the day begins an hour early.
DayFromFive(x) == Between(x.hour, MorningStart - 1, EveningEnd)

\* _exit_night.
IsDay(x) == Between(x.hour, MorningStart, EveningEnd)

OutsideMidday(x) == x.hour >= MiddayEnd \/ x.hour < ForenoonEnd

\* _should_exit.
Exit(s, x) ==
    CASE s = "MORNING_DISCHARGE" -> x.hour >= MorningEnd \/ x.soc <= Floor
      [] s = "FORENOON_PV_EV"    -> x.hour >= ForenoonEnd \/ ~NeedsEnergy(x)
      [] s = "PV_SURPLUS_DAY"    -> OutsideMidday(x)
      [] s = "EVENING_DISCHARGE" -> ~Between(x.hour, MiddayEnd, EveningEnd) \/ CriticallyLow(x)
      [] s \in {"NIGHT_HIGH_PV", "NIGHT_LOW_PV"} -> IsDay(x)
      [] s = "NIGHT_GRID_CHARGE" -> IsDay(x) \/ x.soc >= GridChargeMax
      [] s = "PV_SURPLUS"        -> x.soc < SurplusExit \/ x.pv < SurplusExitPv
      [] s = "NIGHT_EV"          -> IsDay(x) \/ ~NeedsEnergy(x)

------------------------------------------------------------------------------
(* Transitions.                                                            *)

\* _TRANSITION_MATRIX.
Allowed ==
    [MORNING_DISCHARGE |-> {"FORENOON_PV_EV", "PV_SURPLUS_DAY", "PV_SURPLUS"},
     FORENOON_PV_EV    |-> {"PV_SURPLUS_DAY", "PV_SURPLUS"},
     PV_SURPLUS_DAY    |-> {"EVENING_DISCHARGE", "PV_SURPLUS", "NIGHT_EV"},
     EVENING_DISCHARGE |-> {"NIGHT_HIGH_PV", "NIGHT_LOW_PV", "NIGHT_EV"},
     NIGHT_HIGH_PV     |-> {"MORNING_DISCHARGE", "NIGHT_GRID_CHARGE", "NIGHT_EV"},
     NIGHT_LOW_PV      |-> {"MORNING_DISCHARGE", "NIGHT_GRID_CHARGE", "NIGHT_EV"},
     NIGHT_GRID_CHARGE |-> {"MORNING_DISCHARGE", "NIGHT_EV"},
     NIGHT_EV          |-> {"MORNING_DISCHARGE", "NIGHT_GRID_CHARGE", "NIGHT_HIGH_PV",
                            "NIGHT_LOW_PV"},
     PV_SURPLUS        |-> {"FORENOON_PV_EV", "PV_SURPLUS_DAY", "EVENING_DISCHARGE"}]

\* _SCENARIO_PRIORITY, highest first.
Priority == <<"NIGHT_EV", "MORNING_DISCHARGE", "FORENOON_PV_EV", "PV_SURPLUS_DAY",
              "EVENING_DISCHARGE", "NIGHT_HIGH_PV", "NIGHT_LOW_PV", "NIGHT_GRID_CHARGE",
              "PV_SURPLUS">>

\* Mutant: the list lacks NIGHT_EV, and next() falls back on None.
FirstOfListed(T) ==
    IF T = {"NIGHT_EV"} THEN "none"
    ELSE Priority[CHOOSE i \in 2..9 :
                     Priority[i] \in T /\ \A j \in 2..9 : j < i => Priority[j] \notin T]

FirstOf(T) ==
    Priority[CHOOSE i \in 1..9 :
                Priority[i] \in T /\ \A j \in 1..9 : j < i => Priority[j] \notin T]

Enterable(s, x) == {t \in Scenario \ {s} : Entry(t, x)}

\* Mutant: before M1, a scenario without an allowed successor was kept.
TargetByMatrix(s, x) ==
    LET allowed == Enterable(s, x) \cap Allowed[s]
    IN  IF allowed # {} THEN FirstOf(allowed) ELSE s

\* evaluate: the first allowed scenario that may be entered, whether the
\* current one is over or not; when it is over and the matrix offers nothing,
\* the first one of all (the catchall M1).
Target(s, x) ==
    LET allowed == Enterable(s, x) \cap Allowed[s]
    IN  CASE allowed # {} -> FirstOf(allowed)
          [] allowed = {} /\ Exit(s, x) /\ Enterable(s, x) # {} -> FirstOf(Enterable(s, x))
          [] OTHER -> s

Longer(n) == IF n < MinDwell THEN n + 1 ELSE MinDwell

\* transition_to, when s is another scenario than the current one.
Enter(s) ==
    /\ current' = s
    /\ dwell' = IF s = current THEN Longer(dwell) ELSE 1

\* The override wins over the matrix and the dwell time.
Override ==
    /\ override' \in Overrides
    /\ snap' \in Snapshots
    /\ Enter(override')

TooSoon ==
    /\ override' = "none"
    /\ snap' \in Snapshots
    /\ dwell < MinDwell
    /\ Enter(current)

Evaluate ==
    /\ override' = "none"
    /\ snap' \in Snapshots
    /\ dwell >= MinDwell
    /\ Enter(Target(current, snap'))

\* A cycle without a snapshot, or one that ends in FREEZE.
Skip ==
    /\ dwell' = Longer(dwell)
    /\ UNCHANGED <<current, override, snap>>

Restart ==
    /\ current' = StartScenario
    /\ dwell' = 1
    /\ override' = "none"
    /\ UNCHANGED snap

Cycle == Override \/ TooSoon \/ Evaluate

Next == Cycle \/ Skip \/ Restart

Spec == Init /\ [][Next]_vars

\* Home Assistant answers again and again, and then the cycle is run.
FairSpec == Spec /\ WF_vars(Cycle)

------------------------------------------------------------------------------
(* Properties.                                                             *)

\* The entry and the exit conditions agree: a scenario that evaluate() picks is
\* not one that it would leave on the same snapshot.  The exception is
\* PV_SURPLUS_DAY, which a low battery enters at any hour.
NoBounce ==
    [][(Evaluate /\ current' \notin {current, "PV_SURPLUS_DAY"}) =>
          ~Exit(current', snap')]_vars

\* From some time on no override is set and no restart comes.
Undisturbed == <>[](override = "none") /\ <>[][~Restart]_vars

\* From any scenario, after any outage or override, the machine arrives at a scenario of the
\* hour and stays with those: in the middle of the day a midday scenario; in the evening, with
\* the batteries above the floor, EVENING_DISCHARGE; in a dark night the night scenarios, across
\* midnight too, only that one of the morning which an override or an outage left behind may
\* last until its own hour comes.
HourReached ==
    Undisturbed =>
        /\ <>[]Between(snap.hour, ForenoonEnd, MiddayEnd) =>
             <>[](current \in {"PV_SURPLUS_DAY", "PV_SURPLUS"})
        /\ <>[]Entry("EVENING_DISCHARGE", snap) => <>[](current = "EVENING_DISCHARGE")
        /\ <>[](IsNight(snap) /\ snap.pv < SurplusExitPv) =>
             <>[](\/ current \in Night
                  \/ current \in {"MORNING_DISCHARGE", "FORENOON_PV_EV"} /\ snap.hour < MorningStart)

------------------------------------------------------------------------------
(* A claim of the repository that the code does not keep.                  *)

\* core/state_machine.py:346 "Take precedence over NIGHT_HIGH_PV / NIGHT_LOW_PV /
\* NIGHT_GRID_CHARGE when EV needs charging": while an EV needs energy all night,
\* the machine settles in NIGHT_EV.
NightEvSettles ==
    (Undisturbed /\ <>[]Entry("NIGHT_EV", snap)) => <>[](current = "NIGHT_EV")
=============================================================================
