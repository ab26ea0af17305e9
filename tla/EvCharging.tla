----------------------------- MODULE EvCharging -----------------------------
(***************************************************************************)
(* The EV charger and the four parts of a control cycle that command it,   *)
(* in the order in which they do:                                          *)
(*                                                                         *)
(*   idle  --Sense-->       the snapshot (main.py)                         *)
(*   guard --Guard-->       G3 stops the EV in a breach (core/guards.py)   *)
(*   budget--Budget-->      by day (core/budget.py)                        *)
(*   night --NightEv-->     in scenario NIGHT_EV (ev_night_controller.py)   *)
(*   ev    --Controller-->  EVController, after the engine (core/          *)
(*                          ev_controller.py, main.py: _evaluate_ev)       *)
(*                                                                         *)
(* Each keeps a memory of its own of what it told the charger; none is     *)
(* told of the commands of the others.  The charger keeps its two          *)
(* registers across a restart of the service, the memories do not survive. *)
(* The writes of one part are one step, and they land.                     *)
(*                                                                         *)
(* Numbers that are only compared with thresholds are sorted into classes: *)
(*   grid      grid power: "export" above ramp_headroom_w, "import" above  *)
(*             -stop_headroom_w, "slight" import above the tolerance of    *)
(*             the budget only, or "even"                                  *)
(*   load      weighted load against the tak of the night controller:      *)
(*             "low", in the "band" between its margins, "high"            *)
(*   headroom  under the dynamic tak, as EVController sees it: "ample"     *)
(*             (a ramp up fits), "tight", "over" (below stop_headroom_w),  *)
(*             "far" (below emergency_headroom_w)                          *)
(***************************************************************************)
EXTENDS Integers

CONSTANTS
    MinA,               \* the min_amps of charger, budget and controllers alike
    MaxA,               \* ev_charger.max_amps: the adapter clamps to MinA..MaxA
    StartA, NightMax,   \* night_ev.start_amps, night_ev.max_amps
    BudgetMax,          \* budget.ev_max_amps
    UpHold, DownHold,   \* ev_ramp_up_hold_cycles, ev_ramp_down_hold_cycles
    NightPause,         \* night_ev.ramp_interval_s, in cycles
    RampPause,          \* EVControllerConfig.step_interval_s, in cycles
    TopStep,            \* the last of EVControllerConfig.steps
    Views               \* what a snapshot may say

\* A SoC, if the car is awake: "almost" is within _SOC_FULL_MARGIN_PCT of the target.
Reading == {"below", "almost", "target"}

View == [hour : {"forenoon", "afternoon", "night"}, plugged : BOOLEAN,
         takes : BOOLEAN, soc : Reading \cup {"unknown"}, breach : BOOLEAN,
         late : BOOLEAN, nightEv : BOOLEAN, surplus : BOOLEAN, support : BOOLEAN,
         grid : {"export", "even", "slight", "import"},
         load : {"low", "band", "high"},
         headroom : {"ample", "tight", "over", "far"}]

ASSUME AmpsAssumption ==
    /\ {MinA, MaxA, StartA, NightMax, BudgetMax, TopStep} \subseteq Nat
    /\ 0 < MinA /\ MinA <= MaxA
    /\ MinA <= StartA /\ StartA <= NightMax /\ MinA <= BudgetMax

ASSUME PausesAssumption ==
    /\ {UpHold, DownHold, NightPause, RampPause} \subseteq Nat
    /\ Views \subseteq View

VARIABLES
    enabled, amps,          \* the charger: is_enabled and the dynamic current
    pc, view,               \* the phase of the cycle and its snapshot
    wasOn, wasAmps,         \* the charger as that snapshot saw it
    intended, budgetAmps,   \* BudgetState.intended_ev_enabled, ev_current_amps
    exports, imports,       \* BudgetState.consecutive_{export,import}_cycles
    nightAmps, nightAge,    \* NightEVState.current_amps, time since last_ramp_ts
    wasConnected, lastSoc,  \* EVController._was_connected, _last_known_soc
    rampAge                 \* time since EVTimers.record_ramp

charger == <<enabled, amps>>
snapshot == <<view, wasOn, wasAmps>>
budget == <<intended, budgetAmps, exports, imports>>
night == <<nightAmps, nightAge>>
controller == <<wasConnected, lastSoc, rampAge>>
vars == <<charger, pc, snapshot, budget, night, controller>>

TypeOK ==
    /\ enabled \in BOOLEAN /\ amps \in MinA..MaxA
    /\ pc \in {"idle", "guard", "budget", "night", "ev"}
    /\ view \in Views /\ wasOn \in BOOLEAN /\ wasAmps \in MinA..MaxA
    /\ intended \in BOOLEAN /\ budgetAmps \in 0..BudgetMax
    /\ exports \in 0..UpHold /\ imports \in 0..DownHold
    /\ nightAmps \in 0..NightMax /\ nightAge \in 0..NightPause
    /\ wasConnected \in BOOLEAN /\ lastSoc \in Reading \cup {"none"}
    /\ rampAge \in 0..RampPause

Bounded(n, top) == IF n < top THEN n + 1 ELSE top

\* A service that has just started: no memory, and the guess that the car is
\* connected.
Init ==
    /\ enabled \in BOOLEAN /\ amps \in MinA..MaxA
    /\ pc = "idle"
    /\ view \in Views /\ wasOn = enabled /\ wasAmps = amps
    /\ intended = FALSE /\ budgetAmps = 0 /\ exports = 0 /\ imports = 0
    /\ nightAmps = 0 /\ nightAge = NightPause
    /\ wasConnected = TRUE /\ lastSoc = "none" /\ rampAge = RampPause

------------------------------------------------------------------------------
(* What the snapshot says.                                                 *)

\* A disabled charger reports "disconnected"; main.py takes it for connected.
Connected == view.plugged \/ ~wasOn

Charging == wasOn /\ view.plugged /\ view.takes

IsNight == view.hour = "night"

Sense ==
    /\ pc = "idle"
    /\ view' \in Views /\ wasOn' = enabled /\ wasAmps' = amps
    /\ nightAge' = Bounded(nightAge, NightPause)
    /\ rampAge' = Bounded(rampAge, RampPause)
    /\ pc' = "guard"
    /\ UNCHANGED <<charger, budget, nightAmps, wasConnected, lastSoc>>

\* EaseeAdapter.set_current.
Clamped(a) == IF a < MinA THEN MinA ELSE IF a > MaxA THEN MaxA ELSE a

------------------------------------------------------------------------------
(* The engine: G3, budget, night controller.                               *)

\* G3 stops the EV; late data end run_cycle after the guards.
Guard ==
    /\ pc = "guard"
    /\ enabled' = (enabled /\ ~view.breach)
    /\ pc' = IF view.late THEN "ev" ELSE "budget"
    /\ UNCHANGED <<amps, snapshot, budget, night, controller>>

\* _allocate_ev_with_ramp after e cycles of export and i of import in a row.
\* Mutant: no upper end.
RampUnbounded(e, i) ==
    CASE ~(budgetAmps > 0 /\ Charging) -> IF view.surplus THEN MinA ELSE 0
      [] i >= DownHold /\ budgetAmps > MinA /\ Charging -> budgetAmps - 1
      [] OTHER -> IF e >= UpHold THEN budgetAmps + 1 ELSE budgetAmps

Ramp(e, i) ==
    CASE ~(budgetAmps > 0 /\ Charging) -> IF view.surplus THEN MinA ELSE 0
      [] i >= DownHold /\ budgetAmps > MinA /\ Charging -> budgetAmps - 1
      [] OTHER -> IF e >= UpHold /\ budgetAmps < BudgetMax THEN budgetAmps + 1
                                                            ELSE budgetAmps

\* ev_wants_charge and the branches of the day; support: bat_can_support_ev or
\* all batteries full.
MayCharge ==
    /\ Connected /\ view.soc # "target"
    /\ view.hour = "forenoon" \/ view.support

\* ev_target: at night the budget has none, and forgets the one of the day.
\* Mutant: it returns early and does not.
EvTargetByDay(e, i) ==
    CASE IsNight -> budgetAmps
      [] ~IsNight -> IF MayCharge THEN Ramp(e, i) ELSE 0

EvTarget(e, i) == IF ~IsNight /\ MayCharge THEN Ramp(e, i) ELSE 0

\* START and STOP when the intent changes, SET when the target does; by day only.
\* The counters are compared with >=, so they count no further than the holds.
Budget ==
    /\ pc = "budget"
    /\ exports' = IF view.grid = "export" THEN Bounded(exports, UpHold) ELSE 0
    /\ imports' = IF view.grid \in {"slight", "import"} THEN Bounded(imports, DownHold)
                                                        ELSE 0
    /\ budgetAmps' = EvTarget(exports', imports')
    /\ IF IsNight
       THEN UNCHANGED <<charger, intended>>
       ELSE /\ intended' = (budgetAmps' > 0)
            /\ enabled' = IF intended' = intended THEN enabled ELSE intended'
            /\ amps' = IF intended' /\ budgetAmps' # budgetAmps THEN Clamped(budgetAmps')
                                                                ELSE amps
    /\ pc' = "night"
    /\ UNCHANGED <<snapshot, night, controller>>

\* _at_or_above_target, and ev_night_controller.evaluate: one action for each of
\* its returns.
AtTarget == view.soc \in {"almost", "target"}

NightStop ==
    /\ ~IsNight \/ (Connected /\ AtTarget)
    /\ enabled' = (enabled /\ ~Charging /\ nightAmps = 0)
    /\ nightAmps' = 0
    /\ UNCHANGED amps

NightUnplugged ==
    /\ IsNight /\ ~Connected
    /\ nightAmps' = 0
    /\ UNCHANGED charger

NightWanted == IsNight /\ Connected /\ ~AtTarget

\* Mutant: what was started before is started again.
NightStartAgain ==
    /\ NightWanted /\ ~Charging
    /\ enabled' = TRUE /\ amps' = Clamped(StartA)
    /\ nightAmps' = StartA

NightStart ==
    /\ NightWanted /\ ~Charging /\ nightAmps = 0
    /\ enabled' = TRUE /\ amps' = Clamped(StartA)
    /\ nightAmps' = StartA

NightRamp ==
    /\ NightWanted /\ (Charging \/ nightAmps > 0) /\ nightAge >= NightPause
    /\ \/ view.load = "high" /\ nightAmps > MinA /\ nightAmps' = nightAmps - 1
       \/ view.load = "low" /\ nightAmps < NightMax /\ nightAmps' = nightAmps + 1
    /\ amps' = Clamped(nightAmps')
    /\ UNCHANGED enabled

NightHold ==
    /\ NightWanted /\ (Charging \/ nightAmps > 0)
    /\ \/ nightAge < NightPause
       \/ view.load = "band"
       \/ view.load = "high" /\ nightAmps <= MinA
       \/ view.load = "low" /\ nightAmps >= NightMax
    /\ UNCHANGED <<charger, nightAmps>>

NightEv ==
    /\ pc = "night"
    /\ IF view.nightEv
       THEN /\ NightStop \/ NightUnplugged \/ NightStart \/ NightRamp \/ NightHold
            /\ nightAge' = IF nightAmps' = nightAmps THEN nightAge ELSE 0
       ELSE UNCHANGED <<charger, night>>
    /\ pc' = "ev"
    /\ UNCHANGED <<snapshot, budget, controller>>

------------------------------------------------------------------------------
(* main.py: _evaluate_ev.                                                  *)

\* _resolve_soc: a sleeping car has the last SoC for soc_stale_max_s (not
\* counted here), then DEFAULT_SOC_FALLBACK_PCT, which is below the target.
Soc == IF view.soc # "unknown" THEN {view.soc} ELSE {lastSoc, "below"} \ {"none"}

\* CONNECT_TRIGGER.  START never comes: its headroom is disabled in main.py.
Triggered(soc) ==
    /\ Connected /\ ~wasConnected /\ ~Charging
    /\ soc # "target"
    /\ IsNight \/ view.grid = "export"

CanRamp == rampAge >= RampPause

\* Mutants: the rule that the EV never charges from the grid by day is gone;
\* the target is left to the other controllers.
StoppedByHeadroom(soc) ==
    /\ Charging
    /\ \/ soc = "target"
       \/ view.headroom = "far"
       \/ view.headroom = "over" /\ wasAmps <= MinA /\ CanRamp

StoppedByGrid(soc) ==
    /\ Charging
    /\ \/ ~IsNight /\ view.grid = "import"
       \/ view.headroom = "far"
       \/ view.headroom = "over" /\ wasAmps <= MinA /\ CanRamp

\* STOP and EMERGENCY_CUT: at the target, importing by day, far over the tak,
\* or over it at the lowest current.
Stopped(soc) ==
    /\ Charging
    /\ \/ soc = "target"
       \/ ~IsNight /\ view.grid = "import"
       \/ view.headroom = "far"
       \/ view.headroom = "over" /\ wasAmps <= MinA /\ CanRamp

\* SET_CURRENT: main.py does not execute it, the pause starts all the same.
Ramped(soc) ==
    /\ Charging /\ ~Stopped(soc) /\ CanRamp
    /\ \/ view.headroom = "ample" /\ wasAmps < TopStep
       \/ view.headroom = "over" /\ wasAmps > MinA

Controller ==
    /\ pc = "ev"
    /\ \E soc \in Soc :
          /\ enabled' = ((enabled \/ Triggered(soc)) /\ ~Stopped(soc))
          /\ rampAge' = IF Ramped(soc) THEN 0 ELSE rampAge
    /\ lastSoc' = IF view.soc = "unknown" THEN lastSoc ELSE view.soc
    /\ wasConnected' = Connected
    /\ pc' = "idle"
    /\ UNCHANGED <<amps, snapshot, budget, night>>

------------------------------------------------------------------------------
(* The cycles.                                                             *)

\* Only the charger remembers anything across a restart.
Restart ==
    /\ intended' = FALSE /\ budgetAmps' = 0 /\ exports' = 0 /\ imports' = 0
    /\ nightAmps' = 0 /\ nightAge' = NightPause
    /\ wasConnected' = TRUE /\ lastSoc' = "none" /\ rampAge' = RampPause
    /\ pc' = "idle"
    /\ UNCHANGED <<charger, snapshot>>

Cycle == Sense \/ Guard \/ Budget \/ NightEv \/ Controller

Next == Cycle \/ Restart

Spec == Init /\ [][Next]_vars

\* The event loop runs cycle after cycle.
FairSpec == Spec /\ WF_vars(Cycle)

------------------------------------------------------------------------------
(* Properties.                                                             *)

\* What the budget believes it wrote last is what the charger is set to, across
\* nights in which somebody else ramped it and restarts that forgot it: else the
\* budget would leave out a SET_EV_CURRENT it thinks redundant (PLAT-1740).
BudgetAmpsTrue == budgetAmps > 0 => amps = Clamped(budgetAmps)

\* From some time on the service is not restarted.
Undisturbed == <>[][~Restart]_vars

\* A car that stays at its target is charged no more, whoever had started it,
\* by day and by night, on fresh data or late.
StopsAtTarget ==
    (Undisturbed /\ <>[](view.soc = "target")) => <>[]~Charging

\* By day, without a surplus, a grid that goes on importing ends the charging,
\* the charging handed over from the night too: the budget alone ramps down to
\* min_amps and stays there.
NoGridByDay ==
    (Undisturbed /\ <>[](~IsNight /\ view.grid = "import" /\ ~view.surplus)) =>
        <>[]~Charging

\* In a breach that lasts the charger ends up disabled: the controllers that run
\* after G3 in each cycle do not start it again for ever.
BreachWins ==
    (Undisturbed /\ <>[](IsNight /\ view.breach /\ view.plugged /\ view.soc = "below")) =>
        <>[]~enabled

------------------------------------------------------------------------------
(* A claim of the repository that the code does not keep.                  *)

\* core/ev_night_controller.py:11 "Start kl 22:00 ALLTID @ 6A om EV plugged + SoC <
\* target": through a quiet night in NIGHT_EV such a car ends up being charged.
ChargesAtNight ==
    (Undisturbed
     /\ <>[](/\ IsNight /\ view.nightEv /\ ~view.late /\ ~view.breach
             /\ view.plugged /\ view.takes /\ view.soc = "below"
             /\ view.load = "low" /\ view.headroom = "ample")) =>
        <>[]enabled
=============================================================================
