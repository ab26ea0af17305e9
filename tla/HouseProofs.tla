----------------------------- MODULE HouseProofs -----------------------------
(***************************************************************************)
(* Theorems about Relays.tla and ZeroGrid.tla, for any consumers, powers   *)
(* and priorities, any batteries, loads and states of charge, and about    *)
(* MCHouse.tla, which runs them beside the charger of EvCharging.tla.      *)
(***************************************************************************)
EXTENDS MCHouse, EvChargingProofs, DataLemmas

------------------------------------------------------------------------------
(* Relays: the orders of the consumers.                                    *)

\* Of the consumers still to come one is first in the order of starting.
LEMMA FirstUpIn ==
    ASSUME NEW S \in SUBSET Consumer, S # {}
    PROVE  FirstUp(S) \in S
<1> DEFINE T == {Priority[c] : c \in S}
<1>1. T \in SUBSET Nat /\ T # {}
  BY RelaysAssumption
<1>2. PICK n \in T : \A m \in T : n <= m
  BY <1>1, LeastNumber
<1>3. \E c \in S : \A d \in S : Priority[c] <= Priority[d]
  BY <1>2
<1> QED BY <1>3 DEF FirstUp

\* And one in the order of shedding.
LEMMA FirstDownIn ==
    ASSUME NEW S \in SUBSET Consumer, S # {}
    PROVE  FirstDown(S) \in S
<1>1. IsFiniteSet(S) /\ Shed \in [Consumer -> Nat]
  BY RelaysAssumption, FS_Subset
<1>2. PICK c \in S : \A d \in S : Shed[d] <= Shed[c]
  BY <1>1, Greatest
<1>3. \A d \in S : Shed[c] >= Shed[d]
  BY <1>1, <1>2
<1> QED BY <1>3 DEF FirstDown

------------------------------------------------------------------------------
(* Relays: types.                                                          *)

\* What of a snapshot is a number.
LEMMA ViewTyped ==
    ASSUME RelaysTypeOK
    PROVE  relayView.house \in Int /\ relayView.need \in Nat /\ Draw[seen] \in Nat /\ Grid \in Int
BY RelaysAssumption DEF RelaysTypeOK, RelaysView, Grid

\* A switch that is recorded leaves the rate limiter one.
LEMMA RecordTyped ==
    ASSUME RelaysTypeOK, RecordSwitch
    PROVE  slot' \in [1..MaxSwitches -> 0..Free] /\ doubled' \in 0..DoubledFor
<1> DEFINE i == CHOOSE j \in 1..MaxSwitches : slot[j] = Free
           used == [slot EXCEPT ![i] = 0]
<1>1. slot' = used /\ doubled' \in {doubled, DoubledFor}
  BY DEF RecordSwitch
<1>2. 0 \in 0..Free /\ DoubledFor \in 0..DoubledFor
  BY RelaysAssumption DEF Free
<1>3. slot \in [1..MaxSwitches -> 0..Free] /\ doubled \in 0..DoubledFor
  BY DEF RelaysTypeOK
<1>4. used \in [1..MaxSwitches -> 0..Free]
  <2> HIDE DEF i
  <2> QED BY <1>2, <1>3
<1> QED BY <1>1, <1>2, <1>3, <1>4

\* A service starts with typed memories.
LEMMA RelaysTypeInit ==
    ASSUME RelaysInit
    PROVE  RelaysTypeOK
<1>1. Cooldown \in 0..Cooldown /\ Free \in 0..Free /\ 0 \in 0..Sustained /\ 0 \in 0..DoubledFor
  BY RelaysAssumption DEF Free
<1>2. since \in [Consumer -> 0..Cooldown] /\ slot \in [1..MaxSwitches -> 0..Free]
  BY <1>1 DEF RelaysInit, Rest, Idle
<1>3. gridExports \in 0..Sustained /\ doubled \in 0..DoubledFor /\ room \in Int
  BY <1>1 DEF RelaysInit
<1>4. relayPhase \in RelayPhase /\ relayView \in Weather /\ disturbed \in BOOLEAN
  BY DEF RelaysInit, RelayPhase
<1>5. /\ on = {} /\ seen = {} /\ cached = {} /\ left = {} /\ active = {}
      /\ ups = {} /\ downs = {}
  BY DEF RelaysInit
<1> QED BY <1>2, <1>3, <1>4, <1>5 DEF RelaysTypeOK

\* Every part of the cycle, and a crash, keeps the types.
LEMMA RelaysTypeStep ==
    ASSUME RelaysTypeOK, [RelaysNext]_relayVars
    PROVE  RelaysTypeOK'
<1> USE DEF RelaysTypeOK
<1>0. /\ Wired \subseteq Relay /\ Relay \subseteq Consumer
      /\ Cooldown \in Nat /\ Sustained \in Nat /\ Window \in Nat /\ DoubledFor \in Nat
  BY RelaysAssumption
<1>1. CASE CollectRelays
  BY <1>0, <1>1 DEF CollectRelays, memory, loop, RelayPhase
<1>2. CASE GuardShed
  <2>1. relayView.need \in Nat
    BY ViewTyped
  <2> QED BY <1>0, <1>2, <2>1 DEF GuardShed, memory, RelayPhase, TurnOff
<1>3. CASE Cascade
  <2>1. gridExports' \in 0..Sustained
    <3>1. Grid \in Int /\ Tolerance \in Nat
      BY ViewTyped, RelaysAssumption
    <3> QED BY <1>0, <1>3, <3>1 DEF Cascade
  <2>2. ASSUME NEW c PROVE [since EXCEPT ![c] = 0] \in [Consumer -> 0..Cooldown]
    <3>1. 0 \in 0..Cooldown /\ since \in [Consumer -> 0..Cooldown]
      BY <1>0
    <3> QED BY <3>1
  <2>3. since' \in [Consumer -> 0..Cooldown]
    BY <1>3, <2>2 DEF Cascade
  <2>5. on' \subseteq Consumer /\ ups' \subseteq Relay /\ downs' \subseteq Relay
    <3>1. \E c : TurnOn({c} \cap Wired) \/ TurnOff({c} \cap Wired) \/ Untouched
      BY <1>3 DEF Cascade
    <3> QED BY <1>0, <3>1 DEF TurnOn, TurnOff, Untouched
  <2>4. cached' \subseteq Relay
    BY <1>3 DEF Cascade, Expired
  <2> QED BY <1>3, <2>1, <2>3, <2>4, <2>5 DEF Cascade, loop, RelayPhase
<1>4. CASE Bump
  <2> DEFINE c == FirstUp(left)
  <2>1. left # {} /\ left' = left \ {c}
    BY <1>4 DEF Bump
  <2>2. c \in Consumer
    BY <2>1, FirstUpIn
  <2>3. Draw[{c}] \in Nat
    BY <2>2, RelaysAssumption
  <2>4. /\ room' \in Int /\ on' \subseteq Consumer
        /\ ups' \subseteq Relay /\ downs' \subseteq Relay
    BY <1>4, <2>3 DEF Bump, TurnOff, Untouched
  <2> QED BY <1>4, <2>1, <2>4 DEF Bump, memory
<1>5. CASE BumpDone
  BY <1>5 DEF BumpDone, Untouched, memory, loop, RelayPhase
<1>6. CASE ColdHeater
  BY <1>0, <1>6 DEF ColdHeater, TurnOn, Untouched, memory, loop, RelayPhase
<1>7. CASE StartDispatch
  <2>1. Surplus \in Int /\ DoubledDeadband \in Nat /\ StartDeadband \in Nat
    BY ViewTyped, RelaysAssumption, SMTT(20) DEF Surplus
  <2>2. room' \in Int
    BY <1>7, <2>1 DEF StartDispatch
  <2> QED BY <1>7, <2>2 DEF StartDispatch, Untouched, memory, RelayPhase
<1>8. CASE Escalate
  <2> DEFINE c == FirstUp(left)
  <2>1. left # {} /\ left' = left \ {c}
    BY <1>8 DEF Escalate
  <2>2. c \in Consumer
    BY <2>1, FirstUpIn
  <2>3. Draw[{c}] \in Nat
    BY <2>2, RelaysAssumption
  <2>4. room' \in Int
    <3>1. room' \in {room, room - Draw[{c}]}
      BY <1>8 DEF Escalate
    <3> QED BY <2>3, <3>1
  <2>5. \/ SwitchOn(c) /\ active' = active \cup {c} /\ RecordSwitch
        \/ Untouched /\ UNCHANGED <<active, slot, doubled>>
    BY <1>8 DEF Escalate
  <2>6. /\ active' \subseteq Consumer /\ on' \subseteq Consumer
        /\ ups' \subseteq Relay /\ downs' \subseteq Relay
    BY <1>0, <2>2, <2>5 DEF SwitchOn, TurnOn, Untouched
  <2>7. slot' \in [1..MaxSwitches -> 0..Free] /\ doubled' \in 0..DoubledFor
    BY <2>5, RecordTyped
  <2> QED BY <1>8, <2>1, <2>4, <2>6, <2>7 DEF Escalate
<1>9. CASE DeEscalate
  <2> DEFINE c == FirstDown(left)
  <2>1. left # {} /\ left' = left \ {c}
    BY <1>9 DEF DeEscalate
  <2>2. \/ SwitchOff(c) /\ RecordSwitch
        \/ Untouched /\ UNCHANGED <<slot, doubled>>
    BY <1>9 DEF DeEscalate
  <2>3. on' \subseteq Consumer /\ ups' \subseteq Relay /\ downs' \subseteq Relay
    BY <2>2 DEF SwitchOff, TurnOff, Untouched
  <2>4. slot' \in [1..MaxSwitches -> 0..Free] /\ doubled' \in 0..DoubledFor
    BY <2>2, RecordTyped
  <2> QED BY <1>9, <2>1, <2>3, <2>4 DEF DeEscalate
<1>10. CASE RelaysSleep
  <2>1. since' \in [Consumer -> 0..Cooldown]
    BY <1>0, <1>10 DEF RelaysSleep
  <2>2. slot' \in [1..MaxSwitches -> 0..Free]
    BY <1>0, <1>10 DEF RelaysSleep, Free
  <2>3. doubled' \in 0..DoubledFor
    BY <1>0, <1>10 DEF RelaysSleep
  <2> QED BY <1>10, <2>1, <2>2, <2>3 DEF RelaysSleep, Untouched, RelayPhase
<1>11. CASE RelaysCrash
  BY <1>0, <1>11 DEF RelaysCrash, Untouched, RelayPhase, Rest, Idle, Free
<1>12. CASE UNCHANGED relayVars
  BY <1>12 DEF relayVars, memory, loop
<1> QED BY <1>1, <1>2, <1>3, <1>4, <1>5, <1>6, <1>7, <1>8, <1>9, <1>10, <1>11, <1>12
        DEF RelaysNext, RelaysLoop

\* The relays, the memories of cascade and dispatch and the loops keep their types.
THEOREM RelaysTyped == RelaysSpec => []RelaysTypeOK
<1>1. RelaysTypeOK /\ [RelaysNext]_relayVars => RelaysTypeOK'
  BY RelaysTypeStep
<1> QED BY <1>1, RelaysTypeInit, PTL DEF RelaysSpec

------------------------------------------------------------------------------
(* Relays: one direction.                                                  *)

\* While the cache of the cycle lasts it is the snapshot, and what was switched on is
\* what the snapshot saw off, what was switched off what it saw on.
OneWay ==
    ~relayView.slow =>
        /\ relayPhase # "sleep" => cached = seen \cap Relay
        /\ ups \cap seen = {} /\ downs \subseteq seen

\* No part of the cycle switches against the snapshot.
LEMMA OneWayStep ==
    ASSUME RelaysTypeOK, OneWay, "all" \notin Wired, [RelaysNext]_relayVars
    PROVE  OneWay'
<1> USE DEF OneWay
<1>0. Wired \subseteq Relay /\ Relay \subseteq Consumer /\ left \subseteq Consumer
  BY RelaysAssumption DEF RelaysTypeOK
<1>1. CASE CollectRelays
  BY <1>1 DEF CollectRelays
<1>2. CASE GuardShed
  <2>1. relayPhase # "sleep" /\ {c \in Wired : c = "all"} = {}
    BY <1>2 DEF GuardShed
  <2> QED BY <1>2, <2>1 DEF GuardShed, TurnOff
<1>3. CASE Cascade
  <2>0. relayPhase # "sleep" /\ UNCHANGED <<relayView, seen>>
    BY <1>3 DEF Cascade
  <2>1. ~relayView.slow => cached' = cached
    BY <1>3 DEF Cascade, Expired
  <2> DEFINE up == IF Grid < -Tolerance /\ gridExports' >= Sustained /\ relayView.full
                   THEN Rested(Consumer \ seen) ELSE {}
             down == IF Grid > Tolerance THEN Rested(seen) ELSE {}
  <2>2. up \subseteq Consumer \ seen /\ down \subseteq seen /\ seen \subseteq Consumer
    BY DEF Rested, RelaysTypeOK
  <2>3. \/ up # {} /\ TurnOn({FirstUp(up)} \cap Wired)
        \/ down # {} /\ TurnOff({FirstDown(down)} \cap Wired)
        \/ Untouched
    BY <1>3 DEF Cascade
  <2>4. up # {} => FirstUp(up) \notin seen
    <3> HIDE DEF up
    <3> QED BY <2>2, FirstUpIn
  <2>5. down # {} => FirstDown(down) \in seen
    <3> HIDE DEF down
    <3> QED BY <2>2, FirstDownIn
  <2> HIDE DEF up, down
  <2> QED BY <2>0, <2>1, <2>3, <2>4, <2>5 DEF TurnOn, TurnOff, Untouched
<1>4. CASE Bump
  <2>1. /\ relayPhase # "sleep" /\ UNCHANGED <<relayPhase, relayView, seen, cached>>
        /\ \/ FirstUp(left) \in cached /\ TurnOff({FirstUp(left)})
           \/ Untouched
    BY <1>4 DEF Bump
  <2> QED BY <2>1 DEF TurnOff, Untouched
<1>5. CASE BumpDone
  BY <1>5 DEF BumpDone, Untouched
<1>6. CASE ColdHeater
  BY <1>6 DEF ColdHeater, TurnOn, Untouched
<1>7. CASE StartDispatch
  BY <1>7 DEF StartDispatch, Untouched
<1>8. CASE Escalate
  <2>1. /\ relayPhase # "sleep" /\ UNCHANGED <<relayPhase, relayView, seen, cached>>
        /\ \/ FirstUp(left) \notin seen /\ SwitchOn(FirstUp(left))
           \/ Untouched
    BY <1>8 DEF Escalate
  <2> QED BY <2>1 DEF SwitchOn, TurnOn, Untouched
<1>9. CASE DeEscalate
  <2>1. /\ relayPhase # "sleep" /\ UNCHANGED <<relayPhase, relayView, seen, cached>>
        /\ \/ FirstDown(left) \in seen /\ SwitchOff(FirstDown(left))
           \/ Untouched
    BY <1>9 DEF DeEscalate
  <2> QED BY <2>1 DEF SwitchOff, TurnOff, Untouched
<1>10. CASE RelaysSleep
  BY <1>10 DEF RelaysSleep, Untouched
<1>11. CASE RelaysCrash
  BY <1>11 DEF RelaysCrash, Untouched
<1>12. CASE UNCHANGED relayVars
  BY <1>12 DEF relayVars
<1> QED BY <1>1, <1>2, <1>3, <1>4, <1>5, <1>6, <1>7, <1>8, <1>9, <1>10, <1>11, <1>12
        DEF RelaysNext, RelaysLoop

\* For any consumers and orders, crashes and hands on the relays included, as long as
\* no wired consumer is called "all": cascade, bump, heater and dispatch agree on a
\* direction for each relay in every cycle whose cache outlives its engine.
THEOREM OneDirectionHolds ==
    ASSUME "all" \notin Wired
    PROVE  RelaysSpec => []OneDirection
<1>1. RelaysInit => OneWay
  BY DEF RelaysInit, OneWay
<1>2. RelaysTypeOK /\ OneWay /\ [RelaysNext]_relayVars => OneWay'
  BY OneWayStep
<1>3. OneWay => OneDirection
  BY DEF OneWay, OneDirection
<1> QED BY <1>1, <1>2, <1>3, RelaysTyped, PTL DEF RelaysSpec

------------------------------------------------------------------------------
(* Relays: nothing starts without a surplus.                               *)

\* The dispatch escalates on a surplus of the house itself.
InSurplus == relayPhase = "switch" => relayView.house < -Tolerance

\* It decides on a surplus beyond StopBelow, and keeps to its snapshot.
LEMMA SurplusStep ==
    ASSUME RelaysTypeOK, InSurplus, [RelaysNext]_relayVars
    PROVE  InSurplus'
<1>1. CASE StartDispatch
  <2>1. /\ relayView.house \in Int /\ Draw[seen] \in Nat /\ Tolerance \in Nat
        /\ StopBelow \in Int /\ StopBelow > Tolerance
    BY ViewTyped, RelaysAssumption
  <2>2. relayView' = relayView /\ (relayPhase' = "switch" => ~(Surplus < StopBelow))
    BY <1>1 DEF StartDispatch
  <2> QED BY <2>1, <2>2 DEF InSurplus, Surplus, Grid
<1>2. CASE Escalate
  BY <1>2 DEF Escalate, InSurplus
<1>3. CASE UNCHANGED relayVars
  BY <1>3 DEF relayVars, InSurplus
<1>4. CASE RelaysCrash \/ CollectRelays \/ GuardShed \/ Cascade \/ BumpDone \/ ColdHeater
           \/ RelaysSleep
  BY <1>4 DEF InSurplus, RelaysCrash, CollectRelays, GuardShed, Cascade, BumpDone, ColdHeater,
              RelaysSleep
<1>5. CASE Bump \/ DeEscalate
  BY <1>5 DEF InSurplus, Bump, DeEscalate
<1> QED BY <1>1, <1>2, <1>3, <1>4, <1>5 DEF RelaysNext, RelaysLoop

\* Cascade and escalation are all that switch on besides the heater.
LEMMA ShortStep ==
    ASSUME RelaysTypeOK, InSurplus, RelaysNext, relayView'.house >= -Tolerance
    PROVE  ups' \ {Heater} \subseteq ups
<1>1. CASE Cascade
  <2>1. /\ relayView.house \in Int /\ Draw[seen] \in Nat /\ Tolerance \in Nat
    BY ViewTyped, RelaysAssumption
  <2>2. relayView' = relayView
    BY <1>1 DEF Cascade
  <2>3. ~(Grid < -Tolerance)
    BY <2>1, <2>2 DEF Grid
  <2>4. ups' = ups
    BY <1>1, <2>3 DEF Cascade, TurnOff, Untouched
  <2> QED BY <2>4
<1>2. CASE Escalate
  <2>1. /\ relayView.house \in Int /\ Tolerance \in Nat /\ relayView' = relayView
        /\ relayPhase = "switch"
    BY <1>2, ViewTyped, RelaysAssumption DEF Escalate
  <2> QED BY <2>1 DEF InSurplus
<1>3. CASE ColdHeater
  BY <1>3 DEF ColdHeater, TurnOn, Untouched
<1>4. CASE CollectRelays
  BY <1>4 DEF CollectRelays
<1>5. CASE GuardShed \/ Bump \/ BumpDone \/ StartDispatch \/ DeEscalate \/ RelaysSleep \/ RelaysCrash
  <2>1. ups' = ups
    BY <1>5 DEF GuardShed, Bump, BumpDone, StartDispatch, DeEscalate, RelaysSleep, RelaysCrash,
                Untouched, TurnOff, SwitchOff
  <2> QED BY <2>1
<1> QED BY <1>1, <1>2, <1>3, <1>4, <1>5 DEF RelaysNext, RelaysLoop

\* For any consumers, powers and thresholds with StopBelow above the tolerance: neither
\* the cascade nor the dispatch switches a consumer on in a house whose export, running
\* consumers apart, is within the tolerance.
THEOREM StartsInSurplus == RelaysSpec => NeverStartsShort
<1> DEFINE Allowed == relayView'.house >= -Tolerance => ups' \ {Heater} \subseteq ups
<1>1. RelaysInit => InSurplus
  BY DEF RelaysInit, InSurplus
<1>2. RelaysTypeOK /\ InSurplus /\ [RelaysNext]_relayVars => InSurplus'
  BY SurplusStep
<1>3. RelaysTypeOK /\ InSurplus /\ [RelaysNext]_relayVars => [Allowed]_relayVars
  BY ShortStep
<1> QED BY <1>1, <1>2, <1>3, RelaysTyped, PTL DEF RelaysSpec, NeverStartsShort

------------------------------------------------------------------------------
(* ZeroGrid: the floor.                                                    *)

\* What of the types the floor depends on.
FloorTyped ==
    /\ zgPhase \in ZgPhase /\ soc \in [Battery -> Int]
    /\ mode \in [Battery -> EmsMode] /\ limit \in [Battery -> Int]
    /\ goal \in [Battery -> EmsMode] /\ step \in [Battery -> Step] /\ waited \in [Battery -> Nat]

\* The plan of this cycle belongs to the SoC of this cycle.
PlanHeld(b) ==
    /\ plan[b].mode = Discharge => soc[b] > SocMin + SocBuffer
    /\ plan[b].mode = Standby => plan[b].limit = 0
    /\ plan[b].mode \in EmsMode

\* A battery below the floor has a recovery on its way that takes effect in this cycle, and one
\* that is to stand by has no limit to run at any longer, whatever its mode.
LimitHeld(b) ==
    /\ b \notin Normal => goal[b] = Charge /\ step[b] = "idle"
    /\ b \in Normal /\ plan[b].mode = Standby => limit[b] = 0

RunHeld(b) == PowerOf(b) > 0 => \/ soc[b] > SocMin + SocBuffer
                                \/ soc[b] >= SocMin /\ plan[b].mode = Charge

FloorInv ==
    /\ FloorTyped
    /\ zgPhase \in {"execute", "process"} => \A b \in Battery : PlanHeld(b)
    /\ zgPhase = "process" => \A b \in Battery : LimitHeld(b)
    /\ zgPhase = "measure" => \A b \in Battery : RunHeld(b)

\* All batteries start in standby.
LEMMA FloorInit == ZgInit => FloorInv
<1> SUFFICES ASSUME ZgInit PROVE FloorInv
  OBVIOUS
<1>1. FloorTyped /\ zgPhase = "measure"
  BY ZeroGridAssumption DEF ZgInit, FloorTyped, ZgPhase, Step, EmsMode
<1>2. ASSUME NEW b \in Battery PROVE RunHeld(b)
  <2>1. PowerOf(b) = 0
    BY DEF ZgInit, PowerOf, Standby, Charge, Discharge
  <2> QED BY <2>1 DEF RunHeld
<1> QED BY <1>1, <1>2 DEF FloorInv

\* A measurement, however much it drains, is answered before the cycle ends.
LEMMA FloorMeasure ==
    ASSUME FloorInv, Measure \/ MeasureChange
    PROVE  FloorInv'
<1>1. /\ FloorTyped /\ zgPhase' = "plan" /\ UNCHANGED <<mode, limit, goal, step, waited>>
  BY DEF FloorInv, Measure, MeasureChange, Measured, registers, changes
<1>2. soc' \in [Battery -> Int]
  <2>1. CASE Measure
    BY <1>1, <2>1 DEF Measure, FloorTyped
  <2>2. CASE MeasureChange
    <3>1. PICK moved \in SUBSET Movable :
            soc' = [b \in Battery |-> IF b \notin moved THEN soc[b]
                                      ELSE IF PowerOf(b) > 0 THEN soc[b] - 1 ELSE soc[b] + 1]
      BY <2>2 DEF MeasureChange
    <3> HIDE DEF PowerOf
    <3> QED BY <1>1, <3>1 DEF FloorTyped
  <2> QED BY <2>1, <2>2
<1>3. FloorTyped'
  BY <1>1, <1>2 DEF FloorTyped, ZgPhase
<1> QED BY <1>1, <1>3 DEF FloorInv

\* The plan discharges above the buffer only, and standing by it has no limit.
LEMMA FloorPlan ==
    ASSUME FloorInv, Plan
    PROVE  FloorInv'
<1>0. /\ FloorTyped /\ zgPhase = "plan" /\ zgPhase' = "execute"
      /\ UNCHANGED <<soc, mode, limit, goal, step, waited>>
  BY DEF FloorInv, Plan, registers, changes, readings
<1>1. \A b \in Battery : plan'[b] = PlanFor(b, TargetNet)
  BY DEF Plan
<1>2. ASSUME NEW b \in Battery PROVE PlanHeld(b)'
  <2> DEFINE charging == TargetNet < 0
             share == SmallerOf(Allocated(b, Magnitude(TargetNet), charging,
                                          IF charging THEN MaxCharge ELSE MaxDischarge),
                                IF charging THEN MaxCharge ELSE MaxDischarge)
             runs == b \in Normal /\ MayRun(b, charging) /\ share >= ZgDeadband
  <2>1. plan'[b] = CASE b \notin Normal -> [mode |-> Charge, limit |-> MaxCharge]
                     [] runs -> [mode |-> IF charging THEN Charge ELSE Discharge, limit |-> share]
                     [] OTHER -> [mode |-> Standby, limit |-> 0]
    BY <1>1 DEF PlanFor
  <2>2. runs /\ ~charging => soc[b] > SocMin + SocBuffer
    BY DEF MayRun
  <2>3. runs => b \in Normal
    OBVIOUS
  <2> HIDE DEF runs, share, charging
  <2>4. \/ plan'[b].mode = Charge
        \/ plan'[b].mode = Standby /\ plan'[b].limit = 0
        \/ plan'[b].mode = Discharge /\ runs /\ ~charging
    <3>1. CASE b \notin Normal
      BY <2>1, <2>3, <3>1
    <3>2. CASE runs
      BY <2>1, <2>3, <3>2
    <3>3. CASE b \in Normal /\ ~runs
      BY <2>1, <3>3
    <3> QED BY <3>1, <3>2, <3>3
  <2> QED BY <1>0, <2>2, <2>4 DEF PlanHeld, EmsMode, Charge, Discharge, Standby
<1>3. FloorTyped'
  BY <1>0 DEF FloorTyped, ZgPhase
<1> QED BY <1>0, <1>2, <1>3 DEF FloorInv

\* The executor writes the limit of the plan at once and asks for its mode where it may.
LEMMA FloorExecute ==
    ASSUME FloorInv, Execute, \A b \in Battery : LimitFor(b) \in Int
    PROVE  FloorInv'
<1>0. /\ FloorTyped /\ zgPhase = "execute" /\ zgPhase' = "process"
      /\ \A b \in Battery : PlanHeld(b)
      /\ UNCHANGED <<soc, mode, waited, plan>>
      /\ Normal' = Normal
  BY DEF FloorInv, Execute, readings, Normal
<1>1. /\ limit' = [b \in Battery |-> LimitFor(b)]
      /\ goal' = [b \in Battery |-> CASE b \notin Normal -> Charge
                                      [] b \in Asked -> TargetFor(b)
                                      [] OTHER -> goal[b]]
      /\ step' = [b \in Battery |-> IF b \in Normal \ Asked THEN step[b] ELSE "idle"]
  BY DEF Execute
<1>2. ASSUME NEW b \in Battery PROVE goal'[b] \in EmsMode /\ step'[b] \in Step
  <2>1. mode[b] \in EmsMode /\ goal[b] \in EmsMode /\ step[b] \in Step /\ plan[b].mode \in EmsMode
    BY <1>0 DEF FloorTyped, PlanHeld
  <2>2. TargetFor(b) \in EmsMode /\ Charge \in EmsMode
    BY <2>1 DEF TargetFor, EmsMode
  <2> QED BY <1>1, <2>1, <2>2 DEF Asked, Step
<1>3. FloorTyped'
  <2>1. limit' \in [Battery -> Int] /\ goal' \in [Battery -> EmsMode] /\ step' \in [Battery -> Step]
    BY <1>1, <1>2
  <2> QED BY <1>0, <2>1 DEF FloorTyped, ZgPhase
<1>4. ASSUME NEW b \in Battery PROVE PlanHeld(b)' /\ LimitHeld(b)'
  <2>1. PlanHeld(b)'
    BY <1>0 DEF PlanHeld
  <2>2. b \notin Normal => goal'[b] = Charge /\ step'[b] = "idle"
    BY <1>1 DEF Asked
  <2>3. plan[b].mode = Standby => limit'[b] = 0
    BY <1>0, <1>1 DEF LimitFor, PlanHeld
  <2> QED BY <1>0, <2>1, <2>2, <2>3 DEF LimitHeld
<1> QED BY <1>0, <1>3, <1>4 DEF FloorInv

\* The manager lets the old mode run on for as long as it clears and waits, but not a battery
\* below the floor: that one charges from now on.
LEMMA FloorProcess ==
    ASSUME FloorInv, Process
    PROVE  FloorInv'
<1>0. /\ FloorTyped /\ zgPhase = "process" /\ zgPhase' = "measure"
      /\ \A b \in Battery : PlanHeld(b) /\ LimitHeld(b)
      /\ UNCHANGED <<soc, goal, plan>> /\ MaxCharge \in Nat
  BY ZeroGridAssumption DEF FloorInv, Process, readings
<1>1. /\ step' = [b \in Battery |-> IF Arrives(b) THEN After(step[b], goal[b]) ELSE step[b]]
      /\ waited' = [b \in Battery |-> IF Arrives(b) \/ step[b] = "rest" THEN 0 ELSE waited[b] + 1]
      /\ mode' = [b \in Battery |-> CASE Reaches(b, "standby_wait") -> Standby
                                      [] Reaches(b, "setting_target") -> goal[b]
                                      [] OTHER -> mode[b]]
      /\ limit' = [b \in Battery |->
                     CASE b \notin Normal -> MaxCharge
                       [] b \in Normal /\ (Reaches(b, "clearing") \/ Reaches(b, "setting_target")) -> 0
                       [] OTHER -> limit[b]]
  BY DEF Process
<1>2. FloorTyped'
  <2>1. ASSUME NEW b \in Battery
        PROVE  /\ step'[b] \in Step /\ waited'[b] \in Nat
               /\ mode'[b] \in EmsMode /\ limit'[b] \in Int
    <3>1. /\ step[b] \in Step /\ waited[b] \in Nat /\ mode[b] \in EmsMode /\ limit[b] \in Int
          /\ goal[b] \in EmsMode
      BY <1>0 DEF FloorTyped
    <3>2. After(step[b], goal[b]) \in Step
      BY DEF After, Step
    <3>3. step'[b] \in Step /\ waited'[b] \in Nat
      BY <1>1, <3>1, <3>2
    <3>4. Standby \in EmsMode
      BY DEF EmsMode
    <3>5. mode'[b] \in EmsMode
      BY <1>1, <3>1, <3>4
    <3>6. limit'[b] \in Int
      BY <1>0, <1>1, <3>1
    <3> QED BY <3>3, <3>5, <3>6
  <2>2. /\ step' \in [Battery -> Step] /\ waited' \in [Battery -> Nat]
        /\ mode' \in [Battery -> EmsMode] /\ limit' \in [Battery -> Int]
    BY <1>1, <2>1
  <2> QED BY <1>0, <2>2 DEF FloorTyped, ZgPhase
<1>3. ASSUME NEW b \in Battery PROVE RunHeld(b)'
  <2>0. /\ soc[b] \in Int /\ PlanHeld(b) /\ LimitHeld(b) /\ waited[b] \in Nat
        /\ mode'[b] \in EmsMode
    BY <1>0, <1>2 DEF FloorTyped
  <2>1. CASE b \notin Normal
    <3>1. goal[b] = Charge /\ step[b] = "idle"
      BY <2>0, <2>1 DEF LimitHeld
    <3>2. Reaches(b, "setting_target") /\ ~Reaches(b, "standby_wait")
      BY <2>0, <3>1 DEF Reaches, Arrives, Wait, After
    <3>3. mode'[b] = Charge /\ limit'[b] = MaxCharge
      BY <1>1, <2>1, <3>1, <3>2
    <3>4. PowerOf(b)' = -MaxCharge
      BY <3>3 DEF PowerOf, Charge, Discharge, Standby
    <3> QED BY <1>0, <3>4 DEF RunHeld
  <2>2. CASE b \in Normal
    <3>1. limit'[b] = 0 \/ limit'[b] = limit[b]
      BY <1>1, <2>2
    <3>2. plan[b].mode = Standby => limit'[b] = 0
      BY <2>0, <2>2, <3>1 DEF LimitHeld
    <3>3. limit'[b] = 0 => ~(PowerOf(b)' > 0)
      BY <2>0 DEF PowerOf, EmsMode, Charge, Discharge, Standby
    <3>4. soc[b] >= SocMin
      BY <2>2 DEF Normal
    <3>5. \/ plan[b].mode = Standby
          \/ plan[b].mode = Charge
          \/ soc[b] > SocMin + SocBuffer
      BY <2>0 DEF PlanHeld, EmsMode
    <3> QED BY <1>0, <3>2, <3>3, <3>4, <3>5 DEF RunHeld
  <2> QED BY <2>1, <2>2
<1> QED BY <1>0, <1>2, <1>3 DEF FloorInv

------------------------------------------------------------------------------
(* ZeroGrid: types.                                                        *)

\* Quotients by a positive number.
LEMMA Quotients ==
    ASSUME NEW m \in Int, NEW d \in Nat, d > 0
    PROVE  m \div d \in Int
OBVIOUS

\* The constants, one at a time.
LEMMA ZgConstants ==
    /\ IsFiniteSet(Battery) /\ Cap \in [Battery -> Nat \ {0}]
    /\ MaxCharge \in Nat /\ MaxDischarge \in Nat /\ SocTop \in Nat /\ GainTenths \in Nat
    /\ MaxLimit \in Nat /\ MaxCharge <= MaxLimit /\ MaxDischarge <= MaxLimit
    /\ ZgDeadband \in Nat /\ ZgDeadband > 0 /\ Smoothing \in Nat /\ Smoothing > 0
    /\ Rolling \in Nat /\ Rolling > 0 /\ ModeCooldown \in Nat /\ SocMin \in Nat
    /\ Tiers \subseteq Nat /\ Correction \in [Tiers -> Nat] /\ House \subseteq Int
    /\ NeedBased \in BOOLEAN /\ TunerSettings \subseteq BOOLEAN /\ MaxDisturbances \in Nat
BY ZeroGridAssumption DEF MaxLimit

\* The batteries of a part are finitely many.
LEMMA BatteriesFinite ==
    ASSUME NEW S \in SUBSET Battery
    PROVE  IsFiniteSet(S) /\ Cardinality(S) \in Nat /\ (S # {} => Cardinality(S) > 0)
<1>1. IsFiniteSet(S)
  BY ZgConstants, FS_Subset
<1>2. Cardinality(S) \in Nat /\ (Cardinality(S) = 0 <=> S = {})
  BY <1>1, FS_CardinalityType, FS_EmptySet
<1> QED BY <1>1, <1>2

\* The power of a battery and of some of them.
LEMMA NetType ==
    ASSUME ZgTypeOK, NEW S \in SUBSET Battery
    PROVE  /\ \A b \in Battery : PowerOf(b) \in Int
           /\ Net(S) \in Int
<1>1. \A b \in Battery : PowerOf(b) \in Int
  <2> SUFFICES ASSUME NEW b \in Battery PROVE PowerOf(b) \in Int
    OBVIOUS
  <2>1. mode[b] \in {Charge, Discharge, Standby} /\ limit[b] \in 0..MaxLimit
    BY DEF ZgTypeOK, EmsMode
  <2>2. limit[b] \in Int /\ -limit[b] \in Int
    BY <2>1, ZgConstants
  <2> QED BY <2>1, <2>2 DEF PowerOf, Charge, Discharge, Standby
<1> DEFINE f == [b \in S |-> PowerOf(b)]
<1>2. IsFiniteSet(S) /\ \A b \in S : f[b] \in Int
  BY <1>1, BatteriesFinite
<1>3. Net(S) = SumFunctionOnSet(f, S)
  BY DEF Net, SumFunction
<1> HIDE DEF f
<1> QED BY <1>1, <1>2, <1>3, SumInt

\* A window with one reading more.
LEMMA PushedType ==
    ASSUME NEW h \in Seq(Int), NEW x \in Int, NEW n \in Nat, n > 0, Len(h) <= n
    PROVE  Pushed(h, x, n) \in Seq(Int) /\ Len(Pushed(h, x, n)) <= n /\ Len(Pushed(h, x, n)) > 0
<1> DEFINE s == Append(h, x)
<1>1. s \in Seq(Int) /\ Len(s) = Len(h) + 1 /\ Len(h) \in Nat /\ s # <<>>
  OBVIOUS
<1> HIDE DEF s
<1>2. Tail(s) \in Seq(Int) /\ Len(Tail(s)) = Len(s) - 1
  BY <1>1
<1>3. Pushed(h, x, n) = IF Len(s) > n THEN Tail(s) ELSE s
  BY DEF Pushed, s
<1> QED BY <1>1, <1>2, <1>3

\* The target is a number.
LEMMA TargetType ==
    ASSUME ZgTypeOK, Len(history) > 0
    PROVE  TargetNet \in Int
<1>1. Smoothed \in Int
  <2>1. history \in Seq(Int)
    BY DEF ZgTypeOK
  <2>2. \E x \in ToSet(history) :
           /\ Cardinality({i \in DOMAIN history : history[i] < x}) <= Len(history) \div 2
           /\ Cardinality({i \in DOMAIN history : history[i] <= x}) > Len(history) \div 2
    BY <2>1, MedianExists
  <2>3. Smoothed \in ToSet(history)
    BY <2>2 DEF Smoothed
  <2> QED BY <2>1, <2>3 DEF ToSet
<1>2. Net(Normal) \in Int
  BY NetType DEF Normal
<1> QED BY <1>1, <1>2, ZgConstants DEF TargetNet

\* The share of a battery is a number: whoever has a share is one of those it is divided by.
LEMMA AllocatedType ==
    ASSUME ZgTypeOK, NEW b \in Normal, NEW tenths \in Nat, NEW charging \in BOOLEAN,
           NEW max \in Nat
    PROVE  Allocated(b, tenths, charging, max) \in Int
<1> DEFINE first == Primary(charging)
           overflow == tenths - SmallerOf(tenths, 10 * max * Cardinality(first))
           weights == [c \in Normal |-> Weight(c, charging)]
<1>1. Normal \in SUBSET Battery /\ first \in SUBSET Battery /\ b \in Battery
  BY DEF Normal, Primary
<1>2. /\ soc \in [Battery -> 0..SocTop] /\ SocTop \in Nat /\ Cap \in [Battery -> Nat \ {0}]
      /\ NeedBased \in BOOLEAN
  BY ZgConstants DEF ZgTypeOK
<1>3. \A c \in Battery : Need(c, charging) \in Nat
  <2> SUFFICES ASSUME NEW c \in Battery PROVE Need(c, charging) \in Nat
    OBVIOUS
  <2>1. soc[c] \in Nat /\ SocTop - soc[c] \in Nat /\ Cap[c] \in Nat
    BY <1>2
  <2>2. soc[c] * Cap[c] \in Nat /\ (SocTop - soc[c]) * Cap[c] \in Nat
    BY <2>1
  <2> QED BY <1>2, <2>1, <2>2 DEF Need
<1>4. \A c \in Normal : weights[c] = Weight(c, charging) /\ weights[c] \in Nat
  BY <1>1, <1>2, <1>3 DEF Weight
<1>5. \E c \in Normal : weights[c] > 0
  <2>1. CASE \A c \in Normal : Need(c, charging) = 0
    BY <1>1, <1>2, <1>4, <2>1 DEF Weight
  <2>2. CASE ~(\A c \in Normal : Need(c, charging) = 0)
    BY <1>1, <1>3, <1>4, <2>2 DEF Weight
  <2> QED BY <2>1, <2>2
<1>6. IsFiniteSet(Normal)
  BY <1>1, BatteriesFinite
<1>7. SumFunction(weights) = SumFunctionOnSet(weights, Normal)
  BY DEF SumFunction
<1> HIDE DEF weights
<1>8. SumFunction(weights) \in Nat /\ SumFunction(weights) > 0
  <2>1. /\ SumFunctionOnSet(weights, Normal) \in Nat
        /\ \A c \in Normal : weights[c] <= SumFunctionOnSet(weights, Normal)
    BY <1>4, <1>6, SumNat
  <2> QED BY <1>4, <1>5, <1>7, <2>1
<1>9. \A S \in SUBSET Battery : \A t \in Int :
        S # {} => Share(S, t, max) \in Int
  <2> SUFFICES ASSUME NEW S \in SUBSET Battery, NEW t \in Int, S # {} PROVE Share(S, t, max) \in Int
    OBVIOUS
  <2> DEFINE n == Cardinality(S)
             most == SmallerOf(t, 10 * max * n)
  <2>1. n \in Nat /\ n > 0
    BY BatteriesFinite
  <2> HIDE DEF n
  <2>2. 10 * max * n \in Int /\ 10 * n \in Nat /\ 10 * n > 0
    BY <2>1
  <2>3. most \in Int
    BY <2>2 DEF SmallerOf
  <2> HIDE DEF most
  <2>4. most \div (10 * n) \in Int
    BY <2>2, <2>3, Quotients
  <2> QED BY <2>4 DEF Share, most, n
<1>10. overflow \in Int
  <2> DEFINE n == Cardinality(first)
  <2>1. n \in Nat
    BY <1>1, BatteriesFinite
  <2> HIDE DEF n
  <2>2. 10 * max * n \in Int
    BY <2>1
  <2> QED BY <2>2 DEF SmallerOf, n
<1>11. CASE ~Uneven
  <2> DEFINE w == Weight(b, charging)
             sum == SumFunction(weights)
  <2>1. w \in Nat
    BY <1>4
  <2> HIDE DEF w
  <2>2. tenths * w \in Int /\ sum \in Nat /\ sum > 0
    BY <1>8, <2>1
  <2> HIDE DEF sum
  <2>3. 10 * sum \in Nat /\ 10 * sum > 0
    BY <2>2
  <2>4. (tenths * w) \div (10 * sum) \in Int
    BY <2>2, <2>3, Quotients
  <2> QED BY <1>11, <2>4 DEF Allocated, w, sum, weights
<1>12. CASE Uneven /\ b \in first
  <2>1. Share(first, tenths, max) \in Int
    BY <1>1, <1>9, <1>12
  <2> QED BY <1>12, <2>1 DEF Allocated
<1>13. CASE Uneven /\ b \notin first
  <2>1. Share(Normal \ first, overflow, max) \in Int
    <3>1. Normal \ first \in SUBSET Battery /\ Normal \ first # {}
      BY <1>1, <1>13
    <3> HIDE DEF overflow, first
    <3> QED BY <1>9, <1>10, <3>1
  <2> QED BY <1>13, <2>1 DEF Allocated
<1> QED BY <1>11, <1>12, <1>13

\* What is planned for a battery.
LEMMA PlanForType ==
    ASSUME ZgTypeOK, NEW target \in Int, NEW b \in Battery
    PROVE  PlanFor(b, target) \in [mode : EmsMode, limit : 0..MaxLimit]
<1> DEFINE charging == target < 0
           max == IF charging THEN MaxCharge ELSE MaxDischarge
           share == SmallerOf(Allocated(b, Magnitude(target), charging, max), max)
           runs == b \in Normal /\ MayRun(b, charging) /\ share >= ZgDeadband
<1>1. PlanFor(b, target) = CASE b \notin Normal -> [mode |-> Charge, limit |-> MaxCharge]
                             [] runs -> [mode |-> IF charging THEN Charge ELSE Discharge, limit |-> share]
                             [] OTHER -> [mode |-> Standby, limit |-> 0]
  BY DEF PlanFor
<1>2. /\ charging \in BOOLEAN /\ max \in Nat /\ max <= MaxLimit /\ Magnitude(target) \in Nat
      /\ MaxCharge \in 0..MaxLimit /\ MaxLimit \in Nat /\ ZgDeadband \in Nat
  BY ZgConstants DEF Magnitude
<1>3. runs => share \in 0..MaxLimit
  <2> SUFFICES ASSUME runs PROVE share \in 0..MaxLimit
    OBVIOUS
  <2> HIDE DEF max, charging
  <2> DEFINE given == Allocated(b, Magnitude(target), charging, max)
  <2>1. given \in Int
    BY <1>2, AllocatedType
  <2>2. share = SmallerOf(given, max) /\ share >= ZgDeadband
    OBVIOUS
  <2> HIDE DEF given, share
  <2> QED BY <1>2, <2>1, <2>2 DEF SmallerOf
<1>4. runs => b \in Normal
  OBVIOUS
<1> HIDE DEF runs, share, charging
<1>5. CASE b \notin Normal
  BY <1>1, <1>2, <1>4, <1>5 DEF EmsMode
<1>6. CASE runs
  BY <1>1, <1>3, <1>4, <1>6 DEF EmsMode
<1>7. CASE b \in Normal /\ ~runs
  BY <1>1, <1>2, <1>7 DEF EmsMode
<1> QED BY <1>5, <1>6, <1>7

\* The correction of the tuner is a number.
LEMMA TuneType ==
    ASSUME ZgTypeOK
    PROVE  TuneDelta \in Int
<1> DEFINE reached == {t \in Tiers : Magnitude(raw) >= t}
           size == IF reached = {} \/ ~tuner THEN 0 ELSE Correction[Max(reached)]
<1>1. raw \in Int /\ Magnitude(raw) \in Nat
  BY DEF ZgTypeOK, Magnitude
<1>2. reached # {} => Max(reached) \in Tiers
  <2> SUFFICES ASSUME reached # {} PROVE Max(reached) \in Tiers
    OBVIOUS
  <2> DEFINE m == Magnitude(raw)
             id == [t \in Nat |-> t]
  <2> HIDE DEF m
  <2>0. m \in Nat /\ \A t \in reached : t \in Nat /\ m >= t
    BY <1>1, ZgConstants DEF m
  <2>1. reached \in SUBSET (0..m) /\ reached \in SUBSET Nat
    <3> HIDE DEF reached
    <3> QED BY <2>0
  <2>2. IsFiniteSet(0..m)
    BY <1>1, FS_Interval DEF m
  <2> HIDE DEF reached
  <2>3. IsFiniteSet(reached)
    BY <2>1, <2>2, FS_Subset
  <2>4. id \in [Nat -> Nat]
    OBVIOUS
  <2>5. PICK n \in reached : \A t \in reached : id[t] <= id[n]
    BY <2>1, <2>3, <2>4, Greatest
  <2>6. \A t \in reached : n >= t
    BY <2>1, <2>5
  <2>7. Max(reached) \in reached
    BY <2>6 DEF Max
  <2> QED BY <2>7 DEF reached
<1> HIDE DEF reached
<1>3. size \in Nat
  BY <1>2, ZgConstants
<1> HIDE DEF size
<1>4. TuneDelta = IF raw > 0 THEN size ELSE -size
  BY DEF TuneDelta, size, reached
<1> QED BY <1>3, <1>4

\* The limit that is written is one the inverter takes.
LEMMA LimitForType ==
    ASSUME ZgTypeOK, NEW b \in Battery
    PROVE  LimitFor(b) \in 0..MaxLimit
<1> DEFINE running == {c \in Battery : plan[c].mode # Standby}
           delta == TuneDelta \div Cardinality(running)
           max == IF plan[b].mode = Charge THEN MaxCharge ELSE MaxDischarge
           new == IF plan[b].mode = Charge THEN plan[b].limit - delta ELSE plan[b].limit + delta
<1>1. plan[b].mode \in EmsMode /\ plan[b].limit \in 0..MaxLimit
  BY DEF ZgTypeOK
<1>2. CASE plan[b].mode = Standby \/ TuneDelta = 0
  BY <1>1, <1>2 DEF LimitFor
<1>3. CASE ~(plan[b].mode = Standby \/ TuneDelta = 0)
  <2>1. running \in SUBSET Battery /\ running # {}
    BY <1>3
  <2>2. LimitFor(b) = IF new < 0 THEN 0 ELSE SmallerOf(new, max)
    BY <1>3 DEF LimitFor
  <2> HIDE DEF running
  <2>3. delta \in Int
    <3>1. Cardinality(running) \in Nat /\ Cardinality(running) > 0
      BY <2>1, BatteriesFinite
    <3> QED BY <3>1, TuneType, Quotients
  <2> HIDE DEF delta
  <2>4. new \in Int /\ max \in Nat /\ max <= MaxLimit /\ MaxLimit \in Nat
    BY <1>1, <2>3, ZgConstants
  <2> HIDE DEF new, max
  <2> QED BY <2>2, <2>4 DEF SmallerOf
<1> QED BY <1>2, <1>3

\* The types, and a reading to plan with.
ZgInv == ZgTypeOK /\ (zgPhase = "plan" => Len(history) > 0)

\* It begins so.
LEMMA ZgStarts == ZgInit => ZgInv
<1> SUFFICES ASSUME ZgInit PROVE ZgInv
  OBVIOUS
<1>1. <<>> \in Seq(Int) /\ Len(<<>>) = 0
  OBVIOUS
<1>2. /\ limit \in [Battery -> 0..MaxLimit] /\ waited \in [Battery -> Nat]
      /\ step \in [Battery -> Step] /\ rested \in [Battery -> 0..ModeCooldown]
      /\ plan \in [Battery -> [mode : EmsMode, limit : 0..MaxLimit]]
      /\ mode \in [Battery -> EmsMode] /\ goal \in [Battery -> EmsMode]
  BY ZgConstants DEF ZgInit, EmsMode, Step
<1>3. Len(history) <= Smoothing /\ Len(rolling) <= Rolling
  BY <1>1, ZgConstants DEF ZgInit
<1>4. tuner \in BOOLEAN /\ disturbances \in 0..MaxDisturbances /\ zgPhase \in ZgPhase
  BY ZgConstants DEF ZgInit, ZgPhase
<1> QED BY <1>1, <1>2, <1>3, <1>4 DEF ZgInv, ZgTypeOK, ZgInit

\* Every step keeps it.
LEMMA ZgStep == ZgInv /\ [ZgNext]_zgVars => ZgInv'
<1> SUFFICES ASSUME ZgInv, [ZgNext]_zgVars PROVE ZgInv'
  OBVIOUS
<1>0. ZgTypeOK
  BY DEF ZgInv
<1>1. ASSUME Measured, UNCHANGED <<house, soc, disturbances>> \/ MeasureChange PROVE ZgInv'
  <2>1. /\ zgPhase' = "plan"
        /\ raw' = house' - Net(Battery)
        /\ history' = Pushed(history, raw', Smoothing)
        /\ rolling' = Pushed(rolling, raw', Rolling)
        /\ UNCHANGED <<tuner, mode, limit, goal, step, waited, rested, plan>>
    BY <1>1 DEF Measured, registers, changes
  <2>2. house' \in House /\ disturbances' \in 0..MaxDisturbances
    BY <1>0, <1>1, ZgConstants DEF ZgTypeOK, MeasureChange
  <2>3. soc' \in [Battery -> 0..SocTop]
    <3>1. CASE UNCHANGED <<house, soc, disturbances>>
      BY <1>0, <3>1 DEF ZgTypeOK
    <3>2. CASE MeasureChange
      <4>1. PICK moved \in SUBSET Movable :
              soc' = [b \in Battery |-> IF b \notin moved THEN soc[b]
                                        ELSE IF PowerOf(b) > 0 THEN soc[b] - 1 ELSE soc[b] + 1]
        BY <3>2 DEF MeasureChange
      <4>2. ASSUME NEW b \in Battery PROVE soc'[b] \in 0..SocTop
        <5>1. soc[b] \in 0..SocTop /\ SocTop \in Nat /\ PowerOf(b) \in Int
          BY <1>0, ZgConstants, NetType DEF ZgTypeOK
        <5>2. b \in moved => (PowerOf(b) > 0 /\ soc[b] > 0) \/ (PowerOf(b) < 0 /\ soc[b] < SocTop)
          BY <4>1 DEF Movable
        <5>3. soc'[b] = IF b \notin moved THEN soc[b]
                        ELSE IF PowerOf(b) > 0 THEN soc[b] - 1 ELSE soc[b] + 1
          BY <4>1
        <5> QED BY <5>1, <5>2, <5>3
      <4> QED BY <4>1, <4>2
    <3> QED BY <1>1, <3>1, <3>2
  <2>4. raw' \in Int
    <3>1. Net(Battery) \in Int /\ house' \in Int
      BY <1>0, <2>2, NetType, ZgConstants
    <3> QED BY <2>1, <3>1
  <2>5. /\ history' \in Seq(Int) /\ Len(history') <= Smoothing /\ Len(history') > 0
        /\ rolling' \in Seq(Int) /\ Len(rolling') <= Rolling
    <3>1. /\ history \in Seq(Int) /\ Len(history) <= Smoothing
          /\ rolling \in Seq(Int) /\ Len(rolling) <= Rolling
      BY <1>0 DEF ZgTypeOK
    <3> QED BY <2>1, <2>4, <3>1, PushedType, ZgConstants
  <2> QED BY <1>0, <2>1, <2>2, <2>3, <2>4, <2>5 DEF ZgInv, ZgTypeOK, ZgPhase
<1>2. CASE Measure
  BY <1>1, <1>2 DEF Measure
<1>3. CASE MeasureChange
  BY <1>1, <1>3 DEF MeasureChange
<1>4. CASE Plan
  <2>1. /\ zgPhase = "plan" /\ zgPhase' = "execute"
        /\ plan' = [b \in Battery |-> PlanFor(b, TargetNet)]
        /\ UNCHANGED <<tuner, mode, limit, goal, step, waited, rested,
                       house, soc, raw, history, rolling, disturbances>>
    BY <1>4 DEF Plan, registers, changes, readings
  <2>2. TargetNet \in Int
    BY <1>0, <2>1, TargetType DEF ZgInv
  <2>3. plan' \in [Battery -> [mode : EmsMode, limit : 0..MaxLimit]]
    <3>1. \A b \in Battery : PlanFor(b, TargetNet) \in [mode : EmsMode, limit : 0..MaxLimit]
      BY <1>0, <2>2, PlanForType
    <3> QED BY <2>1, <3>1
  <2> QED BY <1>0, <2>1, <2>3 DEF ZgInv, ZgTypeOK, ZgPhase
<1>5. CASE Execute
  <2>1. /\ zgPhase' = "process"
        /\ UNCHANGED <<tuner, mode, waited, plan, house, soc, raw, history, rolling, disturbances>>
        /\ limit' = [b \in Battery |-> LimitFor(b)]
        /\ goal' = [b \in Battery |-> CASE b \notin Normal -> Charge
                                        [] b \in Asked -> TargetFor(b)
                                        [] OTHER -> goal[b]]
        /\ step' = [b \in Battery |-> IF b \in Normal \ Asked THEN step[b] ELSE "idle"]
        /\ rested' = [b \in Battery |-> IF b \in Asked THEN 0 ELSE rested[b]]
    BY <1>5 DEF Execute, readings
  <2>2. limit' \in [Battery -> 0..MaxLimit]
    <3>1. \A b \in Battery : LimitFor(b) \in 0..MaxLimit
      BY <1>0, LimitForType
    <3> QED BY <2>1, <3>1
  <2>3. ASSUME NEW b \in Battery
        PROVE  goal'[b] \in EmsMode /\ step'[b] \in Step /\ rested'[b] \in 0..ModeCooldown
    <3>1. /\ goal[b] \in EmsMode /\ mode[b] \in EmsMode /\ plan[b].mode \in EmsMode
          /\ step[b] \in Step /\ rested[b] \in 0..ModeCooldown /\ ModeCooldown \in Nat
      BY <1>0, ZgConstants DEF ZgTypeOK
    <3>2. TargetFor(b) \in EmsMode /\ Charge \in EmsMode
      BY <3>1 DEF TargetFor, EmsMode
    <3>3. goal'[b] \in EmsMode
      BY <2>1, <3>1, <3>2 DEF Asked
    <3>4. step'[b] \in Step
      BY <2>1, <3>1 DEF Step
    <3>5. rested'[b] \in 0..ModeCooldown
      BY <2>1, <3>1
    <3> QED BY <3>3, <3>4, <3>5
  <2>4. /\ goal' \in [Battery -> EmsMode] /\ step' \in [Battery -> Step]
        /\ rested' \in [Battery -> 0..ModeCooldown]
    BY <2>1, <2>3
  <2> QED BY <1>0, <2>1, <2>2, <2>4 DEF ZgInv, ZgTypeOK, ZgPhase
<1>6. CASE Process
  <2>1. /\ zgPhase' = "measure"
        /\ UNCHANGED <<tuner, goal, plan, house, soc, raw, history, rolling, disturbances>>
        /\ step' = [b \in Battery |-> IF Arrives(b) THEN After(step[b], goal[b]) ELSE step[b]]
        /\ waited' = [b \in Battery |-> IF Arrives(b) \/ step[b] = "rest" THEN 0 ELSE waited[b] + 1]
        /\ mode' = [b \in Battery |-> CASE Reaches(b, "standby_wait") -> Standby
                                        [] Reaches(b, "setting_target") -> goal[b]
                                        [] OTHER -> mode[b]]
        /\ limit' = [b \in Battery |->
                       CASE b \notin Normal -> MaxCharge
                         [] b \in Normal /\ (Reaches(b, "clearing") \/ Reaches(b, "setting_target")) -> 0
                         [] OTHER -> limit[b]]
        /\ rested' = [b \in Battery |-> SmallerOf(rested[b] + 1, ModeCooldown)]
    BY <1>6 DEF Process, readings
  <2>2. ASSUME NEW b \in Battery
        PROVE  /\ step'[b] \in Step /\ waited'[b] \in Nat /\ mode'[b] \in EmsMode
               /\ limit'[b] \in 0..MaxLimit /\ rested'[b] \in 0..ModeCooldown
    <3>1. /\ step[b] \in Step /\ waited[b] \in Nat /\ mode[b] \in EmsMode /\ goal[b] \in EmsMode
          /\ limit[b] \in 0..MaxLimit /\ rested[b] \in 0..ModeCooldown
      BY <1>0 DEF ZgTypeOK
    <3>2. After(step[b], goal[b]) \in Step /\ Standby \in EmsMode
      BY DEF After, Step, EmsMode
    <3>3. step'[b] \in Step /\ waited'[b] \in Nat
      BY <2>1, <3>1, <3>2
    <3>4. mode'[b] \in EmsMode
      BY <2>1, <3>1, <3>2
    <3>5. MaxCharge \in 0..MaxLimit /\ 0 \in 0..MaxLimit
      BY ZgConstants
    <3>6. limit'[b] \in 0..MaxLimit
      BY <2>1, <3>1, <3>5
    <3>7. rested'[b] \in 0..ModeCooldown
      BY <2>1, <3>1, ZgConstants DEF SmallerOf
    <3> QED BY <3>3, <3>4, <3>6, <3>7
  <2>3. /\ step' \in [Battery -> Step] /\ waited' \in [Battery -> Nat]
        /\ mode' \in [Battery -> EmsMode] /\ limit' \in [Battery -> 0..MaxLimit]
        /\ rested' \in [Battery -> 0..ModeCooldown]
    BY <2>1, <2>2
  <2> QED BY <1>0, <2>1, <2>3 DEF ZgInv, ZgTypeOK, ZgPhase
<1>7. CASE UNCHANGED zgVars
  BY <1>0, <1>7 DEF zgVars, registers, changes, readings, ZgInv, ZgTypeOK
<1> QED BY <1>2, <1>3, <1>4, <1>5, <1>6, <1>7 DEF ZgNext, ZgLoop

\* The zero-grid loop stays in its types: no share, median, correction or limit is computed from
\* an empty window, an empty half or a need of 0, and none is beyond what the inverter takes.
THEOREM ZgTyped == ZeroGridSpec => []ZgTypeOK
<1>1. ZgInv => ZgTypeOK
  BY DEF ZgInv
<1> QED BY <1>1, ZgStarts, ZgStep, PTL DEF ZeroGridSpec

\* For any loads, powers, tiers, waits and cooldowns, with the tuner or without: from one
\* cycle to the next no battery discharges within the buffer unless the plan has it charge and
\* its old mode is still to be replaced, and none below the floor.
THEOREM FloorIsKept == ZeroGridSpec => []FloorKept
<1>1. ZgTypeOK /\ FloorInv /\ [ZgNext]_zgVars => FloorInv'
  <2> SUFFICES ASSUME ZgTypeOK, FloorInv, [ZgNext]_zgVars PROVE FloorInv'
    OBVIOUS
  <2>1. CASE UNCHANGED zgVars
    BY <2>1 DEF zgVars, registers, changes, readings, FloorInv, FloorTyped, PlanHeld, LimitHeld,
                RunHeld, Normal, PowerOf
  <2>2. \A b \in Battery : LimitFor(b) \in Int
    BY LimitForType, ZgConstants
  <2> QED BY <2>1, <2>2, FloorMeasure, FloorPlan, FloorExecute, FloorProcess DEF ZgNext, ZgLoop
<1>2. FloorInv => FloorKept
  BY DEF FloorInv, FloorKept, RunHeld
<1> QED BY <1>1, <1>2, FloorInit, ZgTyped, PTL DEF ZeroGridSpec

------------------------------------------------------------------------------
(* The three side by side.                                                 *)

\* MCHouse.tla runs the components as they are: what it does is what each of them does alone, so
\* that whatever holds of a component holds of the composition.
THEOREM HouseRunsParts == HouseSpec => Spec /\ RelaysSpec /\ ZeroGridSpec
<1>1. HouseInit => Init /\ RelaysInit /\ ZgInit
  BY DEF HouseInit
<1>2. [HouseNext]_houseVars => [Next]_vars /\ [RelaysNext]_relayVars /\ [ZgNext]_zgVars
  BY DEF HouseNext, houseVars, Runs
<1> QED BY <1>1, <1>2, PTL DEF HouseSpec, Spec, RelaysSpec, ZeroGridSpec

\* The car's charger, the consumers and the batteries keep their types, whichever of them runs.
THEOREM HouseTyped == HouseSpec => []HouseTypeOK
<1>1. TypeOK /\ RelaysTypeOK /\ ZgTypeOK => HouseTypeOK
  BY DEF HouseTypeOK
<1> QED BY <1>1, HouseRunsParts, EvTypeCorrect, RelaysTyped, ZgTyped, PTL
=============================================================================
