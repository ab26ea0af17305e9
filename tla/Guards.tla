------------------------------- MODULE Guards -------------------------------
(***************************************************************************)
(* core/guards.py: GridGuard.evaluate, the veto layer, as operators over   *)
(* one snapshot.  A battery of the snapshot is a record                    *)
(*                                                                         *)
(*   mode, limit, fc   the registers of its inverter                       *)
(*   soc, temp, soh    state of charge (%), cell temperature and health    *)
(*   pv                its PV input makes more than g0_min_pv_power_w      *)
(*   charging          its power is below g0_charging_power_threshold_w    *)
(*                                                                         *)
(* and the site is a record                                                *)
(*                                                                         *)
(*   grid              the weighted hourly average against the effective   *)
(*                     tak: "ok", "warning", "breach" or "critical"        *)
(*   gridCharge        the scenario is NIGHT_GRID_CHARGE                   *)
(*   late              the data is older than stale_threshold_s            *)
(*                                                                         *)
(* G5 counts record_mode_change() calls and nothing calls it; G7 needs a   *)
(* cycle without Home Assistant, and main.py starts none: both are silent. *)
(* Commands for the EV charger and the consumers are left out here.        *)
(***************************************************************************)
EXTENDS Naturals, Sequences, SequencesExt

CONSTANTS
    NormalFloor, ColdFloor, FreezeFloor,    \* g1_soc_floor
    WornRaise, BadRaise,                    \* soh_warn_raise_pct, soh_crit_raise_pct
    Hysteresis,                             \* hysteresis_pct
    EmergencyLimit                          \* _G3_EMERGENCY_POWER_LIMIT_W

ASSUME FloorsAssumption ==
    /\ {NormalFloor, ColdFloor, FreezeFloor, WornRaise, BadRaise,
        Hysteresis, EmergencyLimit} \subseteq Nat
    /\ NormalFloor <= ColdFloor /\ ColdFloor <= FreezeFloor

------------------------------------------------------------------------------
(* Commands.                                                               *)

SetMode(b, m)  == [type |-> "mode",  target |-> b, mode |-> m, watts |-> 0, on |-> FALSE]
SetLimit(b, w) == [type |-> "limit", target |-> b, mode |-> "", watts |-> w, on |-> FALSE]
SetFast(b, on) == [type |-> "fast",  target |-> b, mode |-> "", watts |-> 0, on |-> on]

When(p, cs) == IF p THEN cs ELSE <<>>

\* The commands Op(b) of every battery b, in the order of the snapshot.
ForEach(order, Op(_)) == FlattenSeq([i \in DOMAIN order |-> Op(order[i])])

------------------------------------------------------------------------------

EffectiveMinSoc(s) ==
    [warm |-> NormalFloor, cold |-> ColdFloor, freezing |-> FreezeFloor][s.temp]
      + [good |-> 0, worn |-> WornRaise, bad |-> BadRaise][s.soh]

\* G0, conditions A, B and C.
LimitWithoutPv(s) == s.mode = "charge_pv" /\ s.limit > 0 /\ ~s.pv
LimitAtFloor(s)   == s.limit > 0 /\ s.soc <= EffectiveMinSoc(s) + 1
GridCharging(s)   == s.charging /\ s.mode \notin {"charge_pv", "import_ac"} /\ ~s.pv

G0Fires(s, site) ==
    ~site.gridCharge /\ (LimitWithoutPv(s) \/ LimitAtFloor(s) \/ GridCharging(s))

G0(b, s, site) ==
    When(~site.gridCharge,
         When(LimitWithoutPv(s), <<SetLimit(b, 0)>>)
      \o When(LimitAtFloor(s),   <<SetLimit(b, 0)>>)
      \o When(GridCharging(s),   <<SetLimit(b, 0), SetFast(b, FALSE),
                                   SetMode(b, "battery_standby")>>))

\* G1: who is at the floor now.  A battery stays there until it has risen
\* above the floor by more than the hysteresis.
AtFloor(before, S) ==
    {b \in DOMAIN S : S[b].soc <= EffectiveMinSoc(S[b])}
      \cup {b \in before : S[b].soc <= EffectiveMinSoc(S[b]) + Hysteresis}

G1(b, floored) == When(b \in floored, <<SetMode(b, "charge_pv")>>)

\* G2: INV-3 does not hold on the inverter.
Conflict(s) == s.fc /\ s.mode = "discharge_pv"

G2(b, s) == When(Conflict(s), <<SetFast(b, FALSE)>>)

\* G3: above the tak every battery is told to discharge, far above it at the
\* emergency limit.
OverTak(site) == site.grid \in {"breach", "critical"}

G3Mode(b, site) == When(OverTak(site), <<SetMode(b, "discharge_pv")>>)

G3Limit(b, site) == When(site.grid = "critical", <<SetLimit(b, EmergencyLimit)>>)

G4(b, s) == When(s.temp = "freezing", <<SetMode(b, "battery_standby")>>)

\* evaluate: the guards in the order of their priority, each for every battery.
GuardCommands(order, S, site, floored) ==
       ForEach(order, LAMBDA b : G0(b, S[b], site))
    \o ForEach(order, LAMBDA b : G1(b, floored))
    \o ForEach(order, LAMBDA b : G2(b, S[b]))
    \o ForEach(order, LAMBDA b : G3Mode(b, site))
    \o ForEach(order, LAMBDA b : G3Limit(b, site))
    \o ForEach(order, LAMBDA b : G4(b, S[b]))

\* G6: the cycle ends after the guards.
Frozen(site) == site.late
=============================================================================
