------------------------------ MODULE ZeroGrid ------------------------------
(***************************************************************************)
(* The closed loop that keeps the grid at 0 W: core/zero_grid.py, what     *)
(* core/budget.py puts before and after it (median of the last readings,   *)
(* core/grid_tuner.py, the guard against flips of the mode), and the       *)
(* inverters, whose power is the next measurement.                         *)
(*                                                                         *)
(* Power is in W, positive for import and for discharge.  A fraction is    *)
(* cut off where the code calls int(): the arithmetic before it is exact.  *)
(* A cycle measures, plans, has the executor write the limits and ask for  *)
(* the modes, and has the manager take each request a step further.  Time  *)
(* is counted in cycles, and every call of a cycle comes before the next   *)
(* measurement (ModeChange.tla has the calls of the protocol one by one,   *)
(* ControlCycle.tla all the writers of a cycle).                           *)
(***************************************************************************)
EXTENDS Integers, FiniteSetsExt, SequencesExt

CONSTANTS
    Battery, Rank,              \* the batteries and their order in the configuration
    Cap,                        \* cap_kwh
    MaxCharge, MaxDischarge,    \* bat_default_max_{charge,discharge}_w
    SocMin, SocBuffer, SocMax, SocTop,    \* SocTop: 100 %
    ZgDeadband, GainTenths,       \* _DEAD_BAND_W, _CORRECTION_GAIN
    Spread, NeedBased,          \* bat_aggressive_spread_pct, bat_need_based_enabled
    Smoothing,                  \* grid_smoothing_window
    Tiers, Correction,          \* tiers_w (a set) and the corrections_w of each
    TunerSettings,              \* what grid_tuner.enabled may be
    Rolling, Stability,         \* rolling_window_s in cycles, mode_change_stability_w
    ClearWait, StandbyWait, SetWait, VerifyWait,    \* ModeChangeConfig, in cycles
    ModeCooldown,               \* mode_change_cooldown_s, in cycles
    House, MaxDisturbances      \* load minus PV; how often load or SoC change

Charge == "charge_battery"
Discharge == "discharge_pv"
Standby == "battery_standby"
EmsMode == {Charge, Discharge, Standby}

ASSUME ZeroGridAssumption ==
    /\ IsFiniteSet(Battery)
    /\ Rank \in [Battery -> Nat] /\ \A b, c \in Battery : b # c => Rank[b] # Rank[c]
    /\ Cap \in [Battery -> Nat \ {0}]
    /\ {MaxCharge, MaxDischarge, SocMin, SocBuffer, SocMax, SocTop, GainTenths, Spread,
        Stability, ClearWait, StandbyWait, SetWait, VerifyWait, ModeCooldown} \subseteq Nat
    /\ {ZgDeadband, Smoothing, Rolling} \subseteq Nat \ {0}
    /\ SocMin + SocBuffer < SocMax /\ SocMax <= SocTop
    /\ ZgDeadband <= MaxCharge /\ ZgDeadband <= MaxDischarge
    /\ Tiers \subseteq Nat /\ Correction \in [Tiers -> Nat]
    /\ NeedBased \in BOOLEAN /\ TunerSettings \subseteq BOOLEAN /\ House \subseteq Int
    /\ MaxDisturbances \in Nat

VARIABLES
    tuner,      \* grid_tuner.enabled, which never changes
    zgPhase,    \* of the cycle: "measure", "plan", "execute", "process"
    house,      \* load minus PV
    soc, mode, limit,   \* of each battery: mode and limit are its registers
    goal, step, waited, \* of its request: target, state, cycles spent in that
    rested,     \* cycles since the executor had a change of mode accepted
    raw, history,   \* the grid reading, BudgetState.grid_history_w
    rolling,    \* GridRollingState.history
    plan,       \* ZeroGridPlan: modes and limits_w
    disturbances    \* history: how often load or SoC have changed

changes == <<goal, step, waited, rested>>
registers == <<mode, limit, changes>>
readings == <<house, soc, raw, history, rolling, disturbances>>
zgVars == <<tuner, zgPhase, registers, readings, plan>>

ZgPhase == {"measure", "plan", "execute", "process"}

\* "rest": no request, or one that is complete.
Step == {"rest", "idle", "clearing", "standby_wait", "setting_target", "verifying"}

MaxLimit == IF MaxCharge > MaxDischarge THEN MaxCharge ELSE MaxDischarge

ZgTypeOK ==
    /\ tuner \in BOOLEAN /\ zgPhase \in ZgPhase
    /\ house \in House /\ raw \in Int
    /\ soc \in [Battery -> 0..SocTop]
    /\ mode \in [Battery -> EmsMode] /\ goal \in [Battery -> EmsMode]
    /\ limit \in [Battery -> 0..MaxLimit]
    /\ step \in [Battery -> Step] /\ waited \in [Battery -> Nat]
    /\ rested \in [Battery -> 0..ModeCooldown]
    /\ plan \in [Battery -> [mode : EmsMode, limit : 0..MaxLimit]]
    /\ history \in Seq(Int) /\ Len(history) <= Smoothing
    /\ rolling \in Seq(Int) /\ Len(rolling) <= Rolling
    /\ disturbances \in 0..MaxDisturbances

ZgInit ==
    /\ tuner \in TunerSettings
    /\ zgPhase = "measure" /\ house \in House /\ raw = 0
    /\ soc \in [Battery -> 0..SocTop]
    /\ mode = [b \in Battery |-> Standby] /\ goal = mode
    /\ limit = [b \in Battery |-> 0]
    /\ step = [b \in Battery |-> "rest"] /\ waited = [b \in Battery |-> 0]
    /\ rested = [b \in Battery |-> ModeCooldown]
    /\ plan = [b \in Battery |-> [mode |-> Standby, limit |-> 0]]
    /\ history = <<>> /\ rolling = <<>> /\ disturbances = 0

------------------------------------------------------------------------------
(* The measurement.                                                        *)

\* bat_powers.
PowerOf(b) == CASE mode[b] = Charge -> -limit[b]
                [] mode[b] = Discharge -> limit[b]
                [] mode[b] = Standby -> 0

Net(S) == SumFunction([b \in S |-> PowerOf(b)])

\* The grid meter, with the batteries as they run.
GridNow == house - Net(Battery)

\* The last n of a history to which a reading was appended.
Pushed(h, reading, n) == LET s == Append(h, reading)
                         IN  IF Len(s) > n THEN Tail(s) ELSE s

Measured ==
    /\ zgPhase = "measure" /\ zgPhase' = "plan"
    /\ raw' = house' - Net(Battery)
    /\ history' = Pushed(history, raw', Smoothing)
    /\ rolling' = Pushed(rolling, raw', Rolling)
    /\ UNCHANGED <<tuner, registers, plan>>

\* A cycle in which neither load nor SoC changes so much that it shows.
Measure == UNCHANGED <<house, soc, disturbances>> /\ Measured

Movable == {b \in Battery : \/ PowerOf(b) > 0 /\ soc[b] > 0
                            \/ PowerOf(b) < 0 /\ soc[b] < SocTop}

\* Load and PV change, and the batteries that ran have lost or gained a point.
MeasureChange ==
    /\ disturbances < MaxDisturbances /\ disturbances' = disturbances + 1
    /\ house' \in House
    /\ \E moved \in SUBSET Movable :
         soc' = [b \in Battery |-> IF b \notin moved THEN soc[b]
                                   ELSE IF PowerOf(b) > 0 THEN soc[b] - 1 ELSE soc[b] + 1]
    /\ Measured

------------------------------------------------------------------------------
(* plan_zero_grid.                                                         *)

Magnitude(n) == IF n < 0 THEN -n ELSE n
SmallerOf(m, n) == IF m < n THEN m ELSE n

\* Median of the window, sorted(window)[n // 2]: at most that many readings are below it.
Smoothed ==
    LET half == Len(history) \div 2
    IN  CHOOSE x \in ToSet(history) :
            /\ Cardinality({i \in DOMAIN history : history[i] < x}) <= half
            /\ Cardinality({i \in DOMAIN history : history[i] <= x}) > half

\* The batteries of the normal path; those below the floor are force-charged.
Normal == {b \in Battery : soc[b] >= SocMin}

\* Mutant: twice the full correction.
TargetNetTwice ==
    10 * Net(Normal) + IF Magnitude(Smoothed) < ZgDeadband THEN 0 ELSE 20 * Smoothed

\* _target_net_w, in tenths of a W.
TargetNet ==
    10 * Net(Normal) + IF Magnitude(Smoothed) < ZgDeadband THEN 0 ELSE GainTenths * Smoothed

\* The place of b among the normal batteries sorted by SoC; the sort is stable.
Place(b) == Cardinality({c \in Normal : \/ soc[c] < soc[b]
                                         \/ (soc[c] = soc[b] /\ Rank[c] < Rank[b])})

Half == LET n == Cardinality(Normal) IN IF n < 2 THEN 1 ELSE n \div 2

\* The half that goes first: the emptier one to charge, the fuller one to discharge.
Primary(charging) ==
    {b \in Normal : IF charging THEN Place(b) < Half ELSE Place(b) >= Cardinality(Normal) - Half}

Need(b, charging) ==
    CASE ~NeedBased -> Cap[b]
      [] NeedBased /\ charging -> (SocTop - soc[b]) * Cap[b]
      [] NeedBased /\ ~charging -> soc[b] * Cap[b]

\* By need, by capacity if nobody has a need.
Weight(b, charging) ==
    IF \A c \in Normal : Need(c, charging) = 0 THEN Cap[b] ELSE Need(b, charging)

\* What each of S gets of an amount in tenths: they have the same maximum.
Share(S, tenths, max) == SmallerOf(tenths, 10 * max * Cardinality(S)) \div (10 * Cardinality(S))

Uneven == \E c, d \in Normal : soc[c] - soc[d] > Spread

\* _distribute: the size of the share of b; all have the same sign.
Allocated(b, tenths, charging, max) ==
    LET first == Primary(charging)
        overflow == tenths - SmallerOf(tenths, 10 * max * Cardinality(first))
    IN  CASE ~Uneven ->
               (tenths * Weight(b, charging))
                   \div (10 * SumFunction([c \in Normal |-> Weight(c, charging)]))
          [] Uneven /\ b \in first -> Share(first, tenths, max)
          [] Uneven /\ b \notin first -> Share(Normal \ first, overflow, max)

\* Mutant: without the buffer.
MayRunToFloor(b, charging) == IF charging THEN soc[b] < SocMax ELSE soc[b] > SocMin

\* _clamp_for_soc.
MayRun(b, charging) == IF charging THEN soc[b] < SocMax ELSE soc[b] > SocMin + SocBuffer

\* _plan_for_net of the clamped share.
PlanFor(b, target) ==
    LET charging == target < 0
        max == IF charging THEN MaxCharge ELSE MaxDischarge
        share == SmallerOf(Allocated(b, Magnitude(target), charging, max), max)
    IN  CASE b \notin Normal -> [mode |-> Charge, limit |-> MaxCharge]
          [] b \in Normal /\ MayRun(b, charging) /\ share >= ZgDeadband ->
               [mode |-> IF charging THEN Charge ELSE Discharge, limit |-> share]
          [] OTHER -> [mode |-> Standby, limit |-> 0]

Plan ==
    /\ zgPhase = "plan" /\ zgPhase' = "execute"
    /\ plan' = LET target == TargetNet IN [b \in Battery |-> PlanFor(b, target)]
    /\ UNCHANGED <<tuner, registers, readings>>

------------------------------------------------------------------------------
(* What the budget makes of the plan, and the manager of the budget.       *)

\* tune_grid_delta, of the raw grid power.
TuneDelta ==
    LET reached == {t \in Tiers : Magnitude(raw) >= t}
        size == IF reached = {} \/ ~tuner THEN 0 ELSE Correction[Max(reached)]
    IN  IF raw > 0 THEN size ELSE -size

\* The batteries that run have an equal part of it; // rounds down.
LimitFor(b) ==
    LET delta == TuneDelta \div Cardinality({c \in Battery : plan[c].mode # Standby})
        max == IF plan[b].mode = Charge THEN MaxCharge ELSE MaxDischarge
        new == IF plan[b].mode = Charge THEN plan[b].limit - delta ELSE plan[b].limit + delta
    IN  IF plan[b].mode = Standby \/ TuneDelta = 0 THEN plan[b].limit
        ELSE IF new < 0 THEN 0 ELSE SmallerOf(new, max)

\* _apply_mode_change_guard: while the average of the window is close to 0 a flip
\* keeps the old mode; the limit of the new one is sent all the same.
TargetFor(b) ==
    IF /\ tuner
       /\ Magnitude(FoldSeq(+, 0, rolling)) < Stability * Len(rolling)
       /\ plan[b].mode # mode[b] /\ Standby \notin {plan[b].mode, mode[b]}
    THEN mode[b] ELSE plan[b].mode

\* request_change is refused from CLEARING to VERIFYING, a command within the cooldown dropped.
Asked == {b \in Normal : /\ TargetFor(b) # mode[b]
                         /\ step[b] = "rest" /\ rested[b] >= ModeCooldown}

\* The limit is written in every cycle, a mode asked for when it differs; recovery replaces
\* whatever is under way.
Execute ==
    /\ zgPhase = "execute" /\ zgPhase' = "process"
    /\ limit' = [b \in Battery |-> LimitFor(b)]
    /\ goal' = [b \in Battery |-> CASE b \notin Normal -> Charge
                                    [] b \in Asked -> TargetFor(b)
                                    [] OTHER -> goal[b]]
    /\ step' = [b \in Battery |-> IF b \in Normal \ Asked THEN step[b] ELSE "idle"]
    /\ rested' = [b \in Battery |-> IF b \in Asked THEN 0 ELSE rested[b]]
    /\ UNCHANGED <<tuner, mode, waited, readings, plan>>

Wait(s) == CASE s = "clearing" -> ClearWait
             [] s = "standby_wait" -> StandbyWait
             [] s = "setting_target" -> SetWait
             [] s = "verifying" -> VerifyWait
             [] OTHER -> 0

\* The step after s on the way to the mode m: a charge skips clearing and standby.
After(s, m) == CASE s = "idle" -> IF m = Charge THEN "setting_target" ELSE "clearing"
                 [] s = "clearing" -> "standby_wait"
                 [] s = "standby_wait" -> "setting_target"
                 [] s = "setting_target" -> "verifying"
                 [] OTHER -> "rest"

\* A step comes that many cycles after the one before it, the first in the cycle of the request.
Arrives(b) == step[b] # "rest" /\ waited[b] + 1 >= Wait(step[b])

Reaches(b, s) == Arrives(b) /\ After(step[b], goal[b]) = s

\* process(): the old mode runs until standby, or the target, replaces it, at whatever limit was
\* written; the limit is 0 after PREPARE and after SET TARGET, but a recovery charges at full
\* power (fast_charging).
Process ==
    /\ zgPhase = "process" /\ zgPhase' = "measure"
    /\ step' = [b \in Battery |-> IF Arrives(b) THEN After(step[b], goal[b]) ELSE step[b]]
    /\ waited' = [b \in Battery |-> IF Arrives(b) \/ step[b] = "rest" THEN 0 ELSE waited[b] + 1]
    /\ mode' = [b \in Battery |-> CASE Reaches(b, "standby_wait") -> Standby
                                    [] Reaches(b, "setting_target") -> goal[b]
                                    [] OTHER -> mode[b]]
    /\ limit' = [b \in Battery |->
                   CASE b \notin Normal -> MaxCharge
                     [] b \in Normal /\ (Reaches(b, "clearing") \/ Reaches(b, "setting_target")) -> 0
                     [] OTHER -> limit[b]]
    /\ rested' = [b \in Battery |-> SmallerOf(rested[b] + 1, ModeCooldown)]
    /\ UNCHANGED <<tuner, goal, readings, plan>>

ZgLoop == Measure \/ Plan \/ Execute \/ Process

ZgNext == ZgLoop \/ MeasureChange

ZeroGridSpec == ZgInit /\ [][ZgNext]_zgVars

------------------------------------------------------------------------------
(* Properties.                                                             *)

\* From one cycle to the next a battery discharges above the buffer, or at least at the floor
\* and then because it is to charge and the old mode has not been replaced yet.
FloorKept ==
    zgPhase = "measure" =>
        \A b \in Battery : PowerOf(b) > 0 =>
            \/ soc[b] > SocMin + SocBuffer
            \/ soc[b] >= SocMin /\ plan[b].mode = Charge

\* The imbalance the loop may be left with: what falls into the dead bands of the batteries, or,
\* with the tuner, the largest correction, which it makes to and fro.
Residue == IF tuner THEN Max({Correction[t] : t \in Tiers})
                    ELSE (10 * ZgDeadband * Cardinality(Battery)) \div GainTenths

\* The grid is within that, and no battery charges from another one.
Settled ==
    /\ Magnitude(GridNow) <= Residue
    /\ \A b, c \in Normal : ~(PowerOf(b) > 0 /\ PowerOf(c) < 0)

Able == \A b \in Battery : soc[b] > SocMin + SocBuffer /\ soc[b] < SocMax

\* The loop through median, gain, dead band, tuner, slow modes and inverters does not diverge,
\* whatever mode and limit each battery had when the last change of the load came, as long as
\* every battery may both charge and discharge: without the tuner it comes to rest, with it the
\* grid swings to and fro within the largest correction.
Settles == <>[]Able => <>[]Settled
=============================================================================
