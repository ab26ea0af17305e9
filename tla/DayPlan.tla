------------------------------- MODULE DayPlan -------------------------------
(***************************************************************************)
(* The plan of the day (core/day_planner.py, core/day_plan.py), which      *)
(* main.py makes from the hourly forecast of Solcast, or from a flat one   *)
(* of its own, and shows on the dashboard: hour by hour, the PV that the   *)
(* house leaves goes to the batteries, the car, the devices and the grid.  *)
(*                                                                         *)
(* A unit of power is 100 W, one of energy 100 Wh; shares are rounded down *)
(* to them.  The SoC of a battery or car is what it lacks to its target,   *)
(* with the losses of charging.                                            *)
(***************************************************************************)
EXTENDS Integers, Sequences, SequencesExt

CONSTANTS
    WindowStart, WindowEnd,      \* the hours of the plan
    MorningStart, MorningEnd,    \* morning_discharge_start_h, morning_discharge_end_h
    NoonStart, NoonEnd,          \* midday_charge_start_h, midday_charge_end_h
    Baseload, SafetyMargin,      \* baseload_kw, fm_discharge_safety_margin_kwh
    Pack, PackCap, MaxCharge,    \* the batteries in the order of the config
    AmpPower, MinAmps, MaxAmps,  \* of the charger
    Device,                      \* powers of the devices in the order of priority
    Estimate, Totals,            \* what Solcast may say of an hour, and of a day
    PackGap, CarGap              \* what a battery, and the car, may lack

Window == WindowStart..(WindowEnd - 1)
Band == [p10 : Nat, p50 : Nat]

ASSUME DayPlanAssumption ==
    /\ WindowStart \in Nat /\ WindowEnd \in Nat /\ WindowStart < WindowEnd
    /\ NoonStart \in Window /\ NoonEnd \in NoonStart..WindowEnd
    /\ {Baseload, SafetyMargin, MorningStart, MorningEnd} \subseteq Nat
    /\ Pack \in Seq(ToSet(Pack))
    /\ PackCap \in [ToSet(Pack) -> Nat \ {0}] /\ MaxCharge \in [ToSet(Pack) -> Nat]
    /\ {AmpPower, MinAmps, MaxAmps} \subseteq Nat \ {0} /\ MinAmps <= MaxAmps
    /\ Device \in Seq(Nat) /\ Estimate \subseteq Band
    /\ Totals \subseteq Nat /\ PackGap \subseteq Nat /\ CarGap \subseteq Nat

VARIABLES
    bands,       \* pv_hourly
    lacked,      \* what each battery, and the car, lacks when the plan is made
    plugged,     \* cfg.ev.connected
    planHour,    \* the hour that is planned next
    lacks,       \* bat_soc, ev_soc_pct: the same, projected to the start of that hour
    slots,       \* the slots made so far
    outcome      \* what generate_day_plan came to

dayVars == <<bands, lacked, plugged, planHour, lacks, slots, outcome>>

HourSlot == [pv : Nat, house : Nat, bat : Nat, ev : Nat, dispatch : Nat, export : Nat]
Lack == [pack : [ToSet(Pack) -> Nat], car : Nat]

DayTypeOK ==
    /\ bands \in [Window -> Band]
    /\ lacked \in Lack /\ lacks \in Lack /\ plugged \in BOOLEAN
    /\ planHour \in WindowStart..WindowEnd
    /\ slots \in [WindowStart..(planHour - 1) -> HourSlot]
    /\ outcome \in {"planning", "plan", "error"}

------------------------------------------------------------------------------
\* Bad data: p10 is never above p50.
Clamped(raw) == [raw EXCEPT !.p10 = IF @ > raw.p50 THEN raw.p50 ELSE @]

\* Without Solcast: the total over 12 hours, in each hour of the window; p10 is 70 %.
Flat(total) == [h \in Window |-> [p50 |-> total \div 12, p10 |-> (7 * (total \div 12)) \div 10]]

DayInit ==
    /\ bands \in {[h \in Window |-> Clamped(raw[h])] : raw \in [Window -> Estimate]}
                 \cup {Flat(total) : total \in Totals}
    /\ lacked \in [pack : [ToSet(Pack) -> PackGap], car : CarGap]
    /\ plugged \in BOOLEAN
    /\ planHour = WindowStart /\ lacks = lacked /\ slots = <<>> /\ outcome = "planning"

\* can_discharge_fm: the cautious estimate of midday refills the batteries.
CanDischarge ==
    LET pv == SumFunction([h \in NoonStart..(NoonEnd - 1) |-> bands[h].p10])
    IN  /\ Pack # <<>>
        /\ pv - Baseload * (NoonEnd - NoonStart)
             > SumFunction(lacked.pack) + SafetyMargin

\* HourSlot.__post_init__ raises a ValueError for any other slot.
Balanced(slot) == slot.pv = slot.bat + slot.ev + slot.dispatch + slot.house + slot.export

\* The slot of this hour; an error ends the plan.
Put(slot, next) ==
    /\ outcome = "planning" /\ planHour < WindowEnd
    /\ IF Balanced(slot)
       THEN slots' = [h \in WindowStart..planHour |-> IF h = planHour THEN slot ELSE slots[h]]
            /\ planHour' = planHour + 1 /\ lacks' = next /\ UNCHANGED outcome
       ELSE outcome' = "error" /\ UNCHANGED <<planHour, slots, lacks>>
    /\ UNCHANGED <<bands, lacked, plugged>>

Pv == bands[planHour].p50
IsMorning == MorningStart <= planHour /\ planHour < MorningEnd

\* A morning that may discharge: the batteries cover the house, which the slot counts as
\* load without counting them.  (Then the batteries would be discharged: no plan gets so far.)
DeficitHour ==
    /\ outcome = "planning" /\ planHour < WindowEnd /\ Pv < Baseload
    /\ Put([pv |-> Pv, bat |-> 0, ev |-> 0, dispatch |-> 0, export |-> 0,
            house |-> IF CanDischarge /\ IsMorning THEN Baseload ELSE Pv], lacks)

Least(S) == CHOOSE x \in S : \A y \in S : x <= y

\* Mutant: what a battery lacks does not limit it.
ChargedUnbounded(cap, acc, b) ==
    LET w == Least({(acc.rest * PackCap[b]) \div cap, MaxCharge[b]})
    IN  [rest |-> acc.rest - w, pack |-> [acc.pack EXCEPT ![b] = @ - w]]

\* Mutant: it does not, and the SoC ends at the target.
ChargedPast(cap, acc, b) ==
    LET w == Least({(acc.rest * PackCap[b]) \div cap, MaxCharge[b]})
    IN  [rest |-> acc.rest - w,
         pack |-> [acc.pack EXCEPT ![b] = IF @ > w THEN @ - w ELSE 0]]

\* One battery of the loop of _allocate_batteries: its share of what the ones before left.
Charged(cap, acc, b) ==
    LET w == Least({(acc.rest * PackCap[b]) \div cap, MaxCharge[b], acc.pack[b]})
    IN  [rest |-> acc.rest - w, pack |-> [acc.pack EXCEPT ![b] = @ - w]]

AllocateBatteries(surplus) ==
    LET chargeable == {b \in ToSet(Pack) : lacks.pack[b] > 0}
        cap == SumFunctionOnSet(PackCap, chargeable)
    IN  FoldLeft(LAMBDA acc, b : IF b \in chargeable THEN Charged(cap, acc, b) ELSE acc,
                 [rest |-> surplus, pack |-> lacks.pack], Pack)

\* Mutant: the car is given its minimum also when less is left.
CarPowerAtLeast(rest) ==
    IF plugged /\ lacks.car > 0 /\ rest >= AmpPower
    THEN AmpPower * (IF rest \div AmpPower > MaxAmps THEN MaxAmps
                     ELSE IF rest \div AmpPower < MinAmps THEN MinAmps ELSE rest \div AmpPower)
    ELSE 0

\* Whole amps between the minimum and the maximum of the charger.
CarPower(rest) ==
    IF plugged /\ lacks.car > 0 /\ rest >= MinAmps * AmpPower
    THEN AmpPower * Least({rest \div AmpPower, MaxAmps})
    ELSE 0

DispatchPower(rest) ==
    FoldLeft(LAMBDA used, power : IF rest - used >= power THEN used + power ELSE used, 0, Device)

SurplusHour ==
    /\ outcome = "planning" /\ planHour < WindowEnd /\ Pv >= Baseload
    /\ LET charged == AllocateBatteries(Pv - Baseload)
           ev == CarPower(charged.rest)
           dispatch == DispatchPower(charged.rest - ev)
           rest == charged.rest - ev - dispatch
       IN  Put([pv |-> Pv, house |-> Baseload, bat |-> Pv - Baseload - charged.rest, ev |-> ev,
                dispatch |-> dispatch, export |-> IF rest > 0 THEN rest ELSE 0],
               [pack |-> charged.pack, car |-> IF lacks.car > ev THEN lacks.car - ev ELSE 0])

DayPlanned ==
    /\ outcome = "planning" /\ planHour = WindowEnd
    /\ outcome' = "plan"
    /\ UNCHANGED <<bands, lacked, plugged, planHour, lacks, slots>>

DayNext == DeficitHour \/ SurplusHour \/ DayPlanned

DaySpec == DayInit /\ [][DayNext]_dayVars

------------------------------------------------------------------------------
(* Properties.                                                             *)

Planned == WindowStart..(planHour - 1)
InPlan(part(_)) == SumFunction([h \in Planned |-> part(slots[h])])

\* Whatever the caps, the shares and the amps round to, the power of a surplus hour adds up:
\* the only hour that makes the plan fail is a morning hour in which the batteries discharge.
OnlyDischargeFails ==
    outcome = "error" => CanDischarge /\ IsMorning /\ Pv < Baseload

\* The slots charge the batteries with exactly what their projected SoC gains, and the car with
\* less than one hour more than it lacks, and not at all when it is not there.
ProjectionIsPlan ==
    /\ InPlan(LAMBDA s : s.bat)
         = SumFunction([b \in ToSet(Pack) |-> lacked.pack[b] - lacks.pack[b]])
    /\ InPlan(LAMBDA s : s.ev) < IF plugged /\ lacked.car > 0
                                 THEN lacked.car + MaxAmps * AmpPower ELSE 1

\* The plan of a day can be made.
EveryDayHasPlan == outcome # "error"
=============================================================================
