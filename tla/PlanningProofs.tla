--------------------------- MODULE PlanningProofs ---------------------------
(***************************************************************************)
(* The plans and the peaks.  Planning.tla: a night plan is made when it    *)
(* should be, and has windows without an hour.  DayPlan.tla: which hours   *)
(* can fail, and that the slots charge what the projection gains.          *)
(* Tariff.tla: the peaks kept are those of the hours closed.  All for any  *)
(* hours, batteries, forecasts, readings and numbers of peaks.             *)
(***************************************************************************)
EXTENDS Planning, DayPlan, Tariff, DataLemmas, TLAPS

\* What a cycle does with the night plan: nothing. (planner.py and _execute_plan of main.py say
\* otherwise: night_plan_idle.cfg has the counterexample, a plan without an hour for the car.)
NeverCarriedOut == ~evStarts /\ ~batRequests

\* The plan in force has two empty windows.
Empty(plan) == plan.evStop <= plan.evStart /\ plan.batStop <= plan.batStart

PlanningInv == /\ PlanningTypeOK
               /\ nightPlan # NoPlan => Empty(nightPlan)
               /\ NeverCarriedOut

------------------------------------------------------------------------------
\* LargerNum and SmallerNum: one of two numbers, and on the right side of both.
LEMMA Bounds ==
    ASSUME NEW m \in Int, NEW n \in Int
    PROVE  /\ LargerNum(m, n) \in Int /\ LargerNum(m, n) >= m /\ LargerNum(m, n) >= n
           /\ LargerNum(m, n) \in {m, n}
           /\ SmallerNum(m, n) \in Int /\ SmallerNum(m, n) <= m /\ SmallerNum(m, n) <= n
BY DEF LargerNum, SmallerNum

\* Products of natural numbers, and of positive ones.
LEMMA Products ==
    ASSUME NEW m \in Nat, NEW n \in Nat
    PROVE  m * n \in Nat /\ (m > 0 /\ n > 0 => m * n > 0)
OBVIOUS

\* The SoC a car is to gain is a natural number.
LEMMA EvGapType ==
    ASSUME NEW soc \in 0..100, NEW pv \in Nat
    PROVE  EvGap(soc, pv) \in Nat
BY PlanningAssumption DEF EvGap, LargerNum, SmallerNum, PlanningAssumption

\* The hours for it are a natural number.
LEMMA EvHoursType ==
    ASSUME NEW soc \in 0..100, NEW pv \in Nat
    PROVE  EvHours(soc, pv) \in Nat
<1> DEFINE need == EvGap(soc, pv) * EvBattery * 10
           rate == EvEfficiency * EvKw
<1>1. EvGap(soc, pv) \in Nat
  BY EvGapType
<1>2. /\ EvBattery \in Nat
      /\ EvEfficiency \in Nat /\ EvEfficiency > 0 /\ EvKw \in Nat /\ EvKw > 0
  BY PlanningAssumption DEF PlanningAssumption
<1>3. need \in Nat
  <2>1. EvGap(soc, pv) * EvBattery \in Nat
    BY <1>2, <1>1, Products
  <2> QED
    BY <2>1, Products
<1>4. rate \in Nat /\ rate > 0
  BY <1>2, Products
<1> HIDE DEF need, rate
<1>5. need \div rate \in Nat
  BY <1>3, <1>4
<1> QED
  BY <1>5 DEF EvHours, need, rate

\* So is the energy the batteries are to gain.
LEMMA BatNeedType ==
    ASSUME NEW soc \in 0..100, NEW pv \in Nat
    PROVE  BatNeed(soc, pv) \in Nat
<1> DEFINE lack == (GridMaxSoc - soc) * BatCap * 100 - pv * PvSharePct * BatEfficiency
<1>1. lack \in Int
  BY PlanningAssumption DEF PlanningAssumption
<1> HIDE DEF lack
<1>2. LargerNum(lack, 0) \in Nat
  BY <1>1 DEF LargerNum
<1> QED
  BY <1>2 DEF BatNeed, lack

\* The hours the batteries need are a number of hours.
LEMMA BatHoursType ==
    ASSUME NEW soc \in 0..100, NEW pv \in Nat
    PROVE  BatHours(soc, pv) \in Nat
<1> DEFINE rate == BatEfficiency * 100 * GridMaxKw
<1>1. /\ BatEfficiency \in Nat /\ BatEfficiency > 0
      /\ GridMaxKw \in Nat /\ GridMaxKw > 0
  BY PlanningAssumption DEF PlanningAssumption
<1>2. rate \in Nat /\ rate > 0
  <2>1. BatEfficiency * 100 \in Nat /\ BatEfficiency * 100 > 0
    BY <1>1
  <2> QED
    BY <1>1, <2>1, Products
<1>3. BatNeed(soc, pv) \in Nat
  BY BatNeedType
<1> HIDE DEF rate
<1>4. BatNeed(soc, pv) \div rate \in Nat
  BY <1>2, <1>3
<1> QED
  BY <1>4 DEF BatHours, rate

\* Every plan that is made is a night plan with empty windows: the night ends at a smaller
\* hour than it begins.
LEMMA PlansAreEmpty ==
    ASSUME NEW connected \in BOOLEAN, NEW evSoc \in 0..100, NEW batSoc \in 0..100, NEW pv \in Nat
    PROVE  /\ PlanOf(connected, evSoc, batSoc, pv) \in NightPlan
           /\ Empty(PlanOf(connected, evSoc, batSoc, pv))
<1> DEFINE before == NightEndHour - BatHours(batSoc, pv) - 1
           batStart == LargerNum(before, NightStartHour)
           evHours == IF connected THEN EvHours(evSoc, pv) ELSE 0
           evStop == SmallerNum(NightStartHour + evHours + 1, batStart)
           plan == PlanOf(connected, evSoc, batSoc, pv)
<1>1. NightStartHour \in Nat /\ NightEndHour \in Nat /\ NightEndHour < NightStartHour
  BY PlanningAssumption DEF PlanningAssumption, Hour
<1>2. before \in Int /\ before < NightStartHour
  <2>1. BatHours(batSoc, pv) \in Nat
    BY BatHoursType
  <2> QED
    BY <1>1, <2>1
<1>3. batStart = NightStartHour
  BY <1>1, <1>2 DEF LargerNum
<1>4. evHours \in Nat
  BY EvHoursType
<1>5. evStop \in Int /\ evStop <= NightStartHour
  BY <1>1, <1>3, <1>4 DEF SmallerNum
<1>6. plan = [evNeed |-> IF connected THEN EvGap(evSoc, pv) ELSE 0,
              evSkip |-> ~connected,
              evStart |-> NightStartHour,
              evStop |-> evStop,
              batNeed |-> BatNeed(batSoc, pv),
              batStart |-> IF pv > PvHigh THEN 0 ELSE batStart,
              batStop |-> IF pv > PvHigh THEN 0 ELSE NightEndHour]
  BY DEF PlanOf
<1> HIDE DEF before, batStart, evHours, evStop, plan
<1>7. (IF connected THEN EvGap(evSoc, pv) ELSE 0) \in Nat /\ BatNeed(batSoc, pv) \in Nat
  BY EvGapType, BatNeedType
<1>8. plan \in NightPlan
  BY <1>1, <1>3, <1>5, <1>6, <1>7 DEF NightPlan
<1>9. Empty(plan)
  BY <1>1, <1>3, <1>5, <1>6 DEF Empty
<1> QED
  BY <1>8, <1>9 DEF plan

\* No night plan is the absence of one.
LEMMA NoNightPlan == NoPlan \notin NightPlan
<1>1. \A p \in NightPlan : p.evNeed \in Nat
  BY DEF NightPlan
<1>2. NoPlan.evNeed = -1
  BY DEF NoPlan
<1> QED
  BY <1>1, <1>2

------------------------------------------------------------------------------
\* A service that starts has no plan.
LEMMA PlanningInvInit == PlanningInit => PlanningInv
BY DEF PlanningInit, PlanningInv, PlanningTypeOK, NeverCarriedOut

\* Every plan that is kept has been made as a night plan, or is none.
LEMMA PlanningInvNext == PlanningInv /\ [PlanningNext]_planVars => PlanningInv'
<1> SUFFICES ASSUME PlanningInv, [PlanningNext]_planVars PROVE PlanningInv'
  OBVIOUS
<1> USE DEF PlanningInv
<1>1. ASSUME PlanCycles PROVE PlanningInv'
  <2>1. PICK pv \in Forecast, frozen \in BOOLEAN, connected \in BOOLEAN, charging \in BOOLEAN,
             evSoc \in EvSoc, batSoc \in BatSoc :
                PlanCycle(pv, frozen, connected, charging, evSoc, batSoc)
    BY <1>1 DEF PlanCycles
  <2> DEFINE forced == Startup \/ button
             triggered == Scheduled \/ PvChanged(pv) \/ forced
             makes == triggered /\ MakesNightPlan(forced, frozen)
             made == PlanOf(connected, evSoc, batSoc, pv)
             plan == IF makes THEN made ELSE nightPlan
  <2>2. /\ lastPv' = pv
        /\ lastPlanHour' = IF triggered THEN hour ELSE lastPlanHour
        /\ button' \in {FALSE, button}
        /\ evStarts' = StartsEv(plan, connected, charging, evSoc)
        /\ batRequests' = RequestsCharge(plan, batSoc)
        /\ nightPlan' = IF ClearsPlan(plan) THEN NoPlan ELSE plan
        /\ cycled' = TRUE /\ hour' = hour
        /\ missed' = IF triggered /\ (makes \/ (hour \in PlanHours /\ ~IsNightHour))
                     THEN FALSE ELSE missed \/ (triggered /\ frozen)
    BY <2>1, Zenon DEF PlanCycle
  <2>3. pv \in Nat /\ evSoc \in 0..100 /\ batSoc \in 0..100
    BY PlanningAssumption DEF PlanningAssumption
  <2>4. made \in NightPlan /\ Empty(made)
    BY <2>3, PlansAreEmpty
  <2> HIDE DEF made, triggered, forced
  <2>5. plan \in NightPlan \cup {NoPlan} /\ (plan # NoPlan => Empty(plan))
    BY <2>4 DEF PlanningTypeOK
  <2> HIDE DEF plan, makes
  <2>6. missed' \in BOOLEAN /\ button' \in BOOLEAN
    BY <2>2, Zenon DEF PlanningTypeOK
  <2>7. hour \in Int /\ (plan # NoPlan => /\ plan.evStart \in Int /\ plan.evStop \in Int
                                          /\ plan.batStart \in Int /\ plan.batStop \in Int)
    BY <2>5 DEF PlanningTypeOK, NightPlan, Hour
  <2>8. ~StartsEv(plan, connected, charging, evSoc)
    BY <2>5, <2>7 DEF StartsEv, Empty
  <2>9. ~RequestsCharge(plan, batSoc)
    BY <2>5, <2>7 DEF RequestsCharge, Empty
  <2>10. NeverCarriedOut'
    BY <2>2, <2>8, <2>9 DEF NeverCarriedOut
  <2>11. nightPlan' \in NightPlan \cup {NoPlan} /\ (nightPlan' # NoPlan => Empty(nightPlan'))
    BY <2>2, <2>5
  <2>12. lastPlanHour' \in Hour \cup {-1} /\ lastPv' \in Forecast \cup {-1}
    BY <2>2 DEF PlanningTypeOK
  <2>13. evStarts' \in BOOLEAN /\ batRequests' \in BOOLEAN
    BY <2>2, Zenon DEF StartsEv, RequestsCharge
  <2>14. PlanningTypeOK'
    BY <2>2, <2>6, <2>11, <2>12, <2>13 DEF PlanningTypeOK
  <2> QED
    BY <2>10, <2>11, <2>14
<1>2. ASSUME NextHour PROVE PlanningInv'
  <2>1. hour' \in Hour
    BY <1>2 DEF NextHour, PlanningTypeOK, Hour
  <2>2. button' \in BOOLEAN /\ missed' \in BOOLEAN
    BY <1>2 DEF NextHour, PlanningTypeOK
  <2> QED
    BY <1>2, <2>1, <2>2 DEF NextHour, PlanningTypeOK, NeverCarriedOut
<1>3. ASSUME PlanningRestart PROVE PlanningInv'
  BY <1>3 DEF PlanningRestart, PlanningTypeOK, NeverCarriedOut
<1>4. ASSUME UNCHANGED planVars PROVE PlanningInv'
  BY <1>4 DEF planVars, PlanningTypeOK, NeverCarriedOut
<1> QED
  BY <1>1, <1>2, <1>3, <1>4 DEF PlanningNext

\* So in every reachable state no plan is carried out.
LEMMA PlanningInvariant == PlanningSpec => []PlanningInv
BY PlanningInvInit, PlanningInvNext, PTL DEF PlanningSpec

\* The type invariant of Planning.tla.
THEOREM PlanningTyped == PlanningSpec => []PlanningTypeOK
<1>1. PlanningInv => PlanningTypeOK
  BY DEF PlanningInv
<1> QED
  BY <1>1, PlanningInvariant, PTL

\* The defect that night_plan_idle shows is one of every configuration: whatever the hours of plan
\* and night, the sizes of car and batteries, the forecast and the restarts, _execute_plan never
\* starts the car and never has a battery charged.
THEOREM NothingIsCarriedOut == PlanningSpec => []NeverCarriedOut
<1>1. PlanningInv => NeverCarriedOut
  BY DEF PlanningInv
<1> QED
  BY <1>1, PlanningInvariant, PTL

------------------------------------------------------------------------------
(* There is a plan at night.                                               *)

DayHour == NightEndHour..(NightStartHour - 1)

\* What is known of the last hour that was planned while nothing was missed.  At night there is
\* a plan, or a restart has made the next cycle make one.  From a plan hour of the day on,
\* until the cycle that begins the night, the hour that counts as planned is another one
\* than the night's, so that one will be made then.
PlannedInv ==
    ~missed =>
        /\ IsNightHour /\ (cycled \/ hour # NightStartHour) =>
             nightPlan # NoPlan \/ (~cycled /\ lastPlanHour = -1)
        /\ hour = NightStartHour /\ ~cycled => lastPlanHour # NightStartHour
        /\ \A h \in PlanHours \cap DayHour :
             (h < hour \/ (h = hour /\ cycled)) /\ hour < NightStartHour =>
               lastPlanHour # NightStartHour

\* A cycle keeps it: at night it has a plan, makes one, or is refused.
LEMMA PlannedCycle ==
    ASSUME PlanningTypeOK, PlannedInv, {Midday, Evening} \subseteq DayHour, PlanCycles
    PROVE  PlannedInv'
<1>1. PICK pv \in Forecast, frozen \in BOOLEAN, connected \in BOOLEAN, charging \in BOOLEAN,
           evSoc \in EvSoc, batSoc \in BatSoc :
              PlanCycle(pv, frozen, connected, charging, evSoc, batSoc)
  BY DEF PlanCycles
<1> DEFINE forced == Startup \/ button
           triggered == Scheduled \/ PvChanged(pv) \/ forced
           makes == triggered /\ MakesNightPlan(forced, frozen)
           made == PlanOf(connected, evSoc, batSoc, pv)
           plan == IF makes THEN made ELSE nightPlan
<1>2. /\ lastPlanHour' = IF triggered THEN hour ELSE lastPlanHour
      /\ nightPlan' = IF ClearsPlan(plan) THEN NoPlan ELSE plan
      /\ cycled' = TRUE /\ hour' = hour
      /\ missed' = IF triggered /\ (makes \/ (hour \in PlanHours /\ ~IsNightHour))
                   THEN FALSE ELSE missed \/ (triggered /\ frozen)
  BY <1>1, Zenon DEF PlanCycle
<1>3. made # NoPlan
  <2>1. pv \in Nat /\ evSoc \in 0..100 /\ batSoc \in 0..100
    BY PlanningAssumption
  <2> QED BY <2>1, PlansAreEmpty, NoNightPlan
<1> HIDE DEF made
<1>4. SUFFICES ASSUME ~missed' PROVE PlannedInv'
  BY DEF PlannedInv
<1>5. /\ hour \in Int /\ NightStartHour \in Int /\ NightEndHour \in Int /\ 0 <= hour
      /\ NightEndHour < NightStartHour /\ NightStartHour \in PlanHours
      /\ NightStartHour \notin {Evening, NightEndHour, Midday}
  BY PlanningAssumption DEF PlanningTypeOK, Hour
<1>6. Startup => triggered /\ forced
  OBVIOUS
<1>7. Scheduled => triggered
  OBVIOUS
<1>8. MakesNightPlan(forced, frozen) <=>
        ~frozen /\ (hour = NightStartHour \/ (forced /\ hour \notin {Evening, NightEndHour, Midday}))
  BY DEF MakesNightPlan
<1>9. makes <=> triggered /\ MakesNightPlan(forced, frozen)
  OBVIOUS
<1>10. makes => plan = made
  OBVIOUS
<1>11. ~makes => plan = nightPlan
  OBVIOUS
<1> HIDE DEF forced, triggered, makes, plan
<1>12. missed /\ IsNightHour => makes
  BY <1>2, <1>4
<1>13. triggered /\ frozen /\ IsNightHour => makes
  BY <1>2, <1>4
<1>14. ASSUME IsNightHour PROVE nightPlan' # NoPlan
  <2>1. hour \notin {Evening, NightEndHour, Midday}
    BY <1>5, <1>14 DEF IsNightHour, DayHour
  <2>2. plan # NoPlan
    <3>1. CASE makes
      BY <3>1, <1>3, <1>10
    <3>2. CASE ~makes
      <4>1. ~missed /\ ~(triggered /\ frozen)
        BY <3>2, <1>12, <1>13, <1>14
      <4>2. ~Startup
        BY <3>2, <4>1, <2>1, <1>6, <1>8, <1>9
      <4>3. ~(Scheduled /\ hour = NightStartHour)
        BY <3>2, <4>1, <1>7, <1>8, <1>9
      <4>4. hour = NightStartHour => lastPlanHour = NightStartHour
        BY <4>3, <1>5 DEF Scheduled
      <4>5. cycled \/ hour # NightStartHour
        BY <4>1, <4>4 DEF PlannedInv
      <4>6. nightPlan # NoPlan
        BY <4>1, <4>2, <4>5, <1>14 DEF PlannedInv, Startup
      <4> QED BY <3>2, <4>6, <1>11
    <3> QED BY <3>1, <3>2
  <2>3. ~ClearsPlan(plan)
    BY <1>14 DEF ClearsPlan
  <2> QED BY <1>2, <2>2, <2>3
<1>15. ASSUME NEW h \in PlanHours \cap DayHour, h <= hour, hour < NightStartHour
       PROVE  lastPlanHour' # NightStartHour
  <2>1. h \in Int /\ NightEndHour <= h /\ ~IsNightHour
    BY <1>5, <1>15 DEF DayHour, IsNightHour
  <2>2. CASE triggered
    BY <1>2, <1>5, <1>15, <2>2
  <2>3. CASE ~triggered
    <3>1. ~missed /\ lastPlanHour' = lastPlanHour
      BY <1>2, <1>4, <2>3
    <3>2. CASE h < hour \/ cycled
      <4>1. h < hour \/ (h = hour /\ cycled)
        BY <1>5, <1>15, <2>1, <3>2
      <4> QED BY <1>15, <3>1, <4>1 DEF PlannedInv
    <3>3. CASE ~(h < hour)
      <4>1. h = hour
        BY <1>5, <1>15, <2>1, <3>3
      <4>2. lastPlanHour = hour
        BY <4>1, <2>3, <1>7, <1>15 DEF Scheduled
      <4> QED BY <4>2, <3>1, <1>5, <1>15
    <3> QED BY <3>2, <3>3
  <2> QED BY <2>2, <2>3
<1>16. \A h \in PlanHours \cap DayHour : h < hour' \/ (h = hour' /\ cycled') => h <= hour
  <2>1. \A h \in PlanHours \cap DayHour : h \in Int
    BY <1>5 DEF DayHour
  <2> QED BY <1>2, <1>5, <2>1
<1>17. IsNightHour' <=> IsNightHour
  BY <1>2 DEF IsNightHour
<1> QED BY <1>2, <1>14, <1>15, <1>16, <1>17 DEF PlannedInv

\* So does an hour that goes by: the one before the night has had its day's plan hour.
LEMMA PlannedHour ==
    ASSUME PlanningTypeOK, PlannedInv, PlanHours \cap DayHour # {}, NextHour
    PROVE  PlannedInv'
<1>1. /\ hour' = (hour + 1) % 24 /\ cycled' = FALSE /\ missed' = (missed \/ ~cycled)
      /\ UNCHANGED <<lastPlanHour, nightPlan>>
  BY DEF NextHour
<1>2. SUFFICES ASSUME ~missed' PROVE PlannedInv'
  BY DEF PlannedInv
<1>3. ~missed /\ cycled
  BY <1>1, <1>2
<1>4. /\ hour \in 0..23 /\ NightStartHour \in 0..23 /\ NightEndHour \in 0..23
      /\ NightEndHour < NightStartHour
  BY PlanningAssumption DEF PlanningTypeOK, Hour
<1>5. hour' = IF hour = 23 THEN 0 ELSE hour + 1
  BY <1>1, <1>4
<1>6. ASSUME IsNightHour', hour' # NightStartHour PROVE nightPlan' # NoPlan
  <2>1. IsNightHour
    BY <1>4, <1>5, <1>6 DEF IsNightHour
  <2> QED BY <1>1, <1>3, <2>1 DEF PlannedInv
<1>7. ASSUME NEW h \in PlanHours \cap DayHour, h < hour', hour' <= NightStartHour
      PROVE  lastPlanHour' # NightStartHour
  <2>1. h \in Int /\ 0 <= h
    BY <1>4 DEF DayHour
  <2>2. hour < NightStartHour /\ (h < hour \/ h = hour)
    BY <1>4, <1>5, <1>7, <2>1
  <2> QED BY <1>1, <1>3, <2>2 DEF PlannedInv
<1>8. hour' = NightStartHour => lastPlanHour' # NightStartHour
  <2>1. PICK h \in PlanHours \cap DayHour : TRUE
    OBVIOUS
  <2>2. h < NightStartHour
    BY <1>4 DEF DayHour
  <2> QED BY <1>4, <1>7, <2>2
<1>9. \A h \in PlanHours \cap DayHour : hour' < NightStartHour => hour' <= NightStartHour
  BY <1>4, <1>5
<1> QED BY <1>1, <1>6, <1>7, <1>8, <1>9 DEF PlannedInv

\* For any night, any sizes and forecasts, presses of the button and restarts, if midday and
\* evening plans belong to the day and the day has a plan hour: each night in which no cycle
\* was missed and no plan refused has a plan.
THEOREM PlannedHolds ==
    ASSUME {Midday, Evening} \subseteq DayHour, PlanHours \cap DayHour # {}
    PROVE  PlanningSpec => []PlannedAtNight
<1>1. PlanningInit => PlannedInv
  <2>1. NightStartHour \in Int /\ NightStartHour # -1
    BY PlanningAssumption DEF Hour
  <2> QED BY <2>1 DEF PlanningInit, PlannedInv
<1>2. PlanningTypeOK /\ PlannedInv /\ [PlanningNext]_planVars => PlannedInv'
  <2> SUFFICES ASSUME PlanningTypeOK, PlannedInv, [PlanningNext]_planVars PROVE PlannedInv'
    OBVIOUS
  <2>1. CASE PlanningRestart
    <3>1. NightStartHour # -1
      BY PlanningAssumption DEF Hour
    <3> QED BY <2>1, <3>1 DEF PlanningRestart, PlannedInv
  <2>2. CASE UNCHANGED planVars
    BY <2>2 DEF planVars, PlannedInv, IsNightHour
  <2> QED BY <2>1, <2>2, PlannedCycle, PlannedHour DEF PlanningNext
<1>3. PlannedInv => PlannedAtNight
  BY DEF PlannedInv, PlannedAtNight
<1> QED BY <1>1, <1>2, <1>3, PlanningTyped, PTL DEF PlanningSpec

------------------------------------------------------------------------------
(* DayPlan: the batteries of an hour.                                      *)

\* The batteries.
Packs == ToSet(Pack)

\* The constants, one at a time.
LEMMA DayConstants ==
    /\ Pack \in Seq(Packs) /\ IsFiniteSet(Packs)
    /\ PackCap \in [Packs -> Nat \ {0}] /\ MaxCharge \in [Packs -> Nat]
    /\ WindowStart \in Nat /\ WindowEnd \in Nat /\ WindowStart < WindowEnd
    /\ Baseload \in Nat /\ AmpPower \in Nat \ {0} /\ MinAmps \in Nat \ {0} /\ MaxAmps \in Nat \ {0}
    /\ Device \in Seq(Nat)
<1>1. Pack \in Seq(Packs) /\ Len(Pack) \in Nat /\ DOMAIN Pack = 1..Len(Pack)
  BY DayPlanAssumption DEF Packs
<1>2. IsFiniteSet(1..Len(Pack))
  <2>1. 1 \in Int /\ Len(Pack) \in Int
    BY <1>1
  <2> QED BY <2>1, FS_Interval
<1>3. Packs = {Pack[i] : i \in 1..Len(Pack)}
  BY <1>1 DEF Packs, ToSet
<1>4. IsFiniteSet(Packs)
  <2>1. Pack \in Surjection(1..Len(Pack), Packs)
    BY <1>1, <1>3 DEF Surjection
  <2> QED BY <1>2, <2>1, FS_Surjection
<1> QED BY <1>1, <1>4, DayPlanAssumption DEF Packs

\* Of natural numbers one is the least.
LEMMA LeastOf ==
    ASSUME NEW a \in Nat, NEW b \in Nat, NEW c \in Nat
    PROVE  /\ Least({a, b, c}) \in Nat
           /\ Least({a, b, c}) <= a /\ Least({a, b, c}) <= b /\ Least({a, b, c}) <= c
<1>1. \E x \in {a, b, c} : \A y \in {a, b, c} : x <= y
  <2>1. CASE a <= b /\ a <= c
    BY <2>1
  <2>2. CASE b <= a /\ b <= c
    BY <2>2
  <2>3. CASE c <= a /\ c <= b
    BY <2>3
  <2> QED BY <2>1, <2>2, <2>3
<1>2. Least({a, b, c}) \in {a, b, c} /\ \A y \in {a, b, c} : Least({a, b, c}) <= y
  BY <1>1 DEF Least
<1> QED BY <1>2

\* A share is no more than the whole.
LEMMA ShareBound ==
    ASSUME NEW r \in Nat, NEW c \in Nat, NEW cap \in Nat \ {0}, c <= cap
    PROVE  (r * c) \div cap \in Nat /\ (r * c) \div cap <= r
<1> DEFINE q == (r * c) \div cap
           m == (r * c) % cap
<1>1. r * c \in Nat /\ r * cap \in Nat /\ r * c <= r * cap
  OBVIOUS
<1>2. q \in Nat /\ m \in Nat /\ cap * q + m = r * c
  BY <1>1
<1>3. cap * q <= cap * r
  BY <1>1, <1>2
<1> HIDE DEF q, m
<1>4. ~(q > r)
  <2>1. SUFFICES ASSUME q >= r + 1 PROVE FALSE
    BY <1>2
  <2>2. cap * q >= cap * (r + 1)
    BY <1>2, <2>1
  <2>3. cap * (r + 1) = cap * r + cap
    OBVIOUS
  <2> QED BY <1>2, <1>3, <2>2, <2>3
<1>5. q <= r
  BY <1>2, <1>4
<1> QED BY <1>2, <1>5 DEF q

\* The fold over the batteries: what is left of the surplus, and what each of them lacks then.
Accum == [rest : Nat, pack : [Packs -> Nat]]
Chargeable == {b \in Packs : lacks.pack[b] > 0}
PackShare(cap, acc, b) == IF b \in Chargeable THEN Charged(cap, acc, b) ELSE acc

\* What a battery is given comes out of what is left, and is no more than it lacks.
LEMMA ChargedShare ==
    ASSUME NEW acc \in Accum, NEW b \in Packs, lacks \in Lack,
           NEW cap, cap = SumFunctionOnSet(PackCap, Chargeable)
    PROVE  /\ PackShare(cap, acc, b) \in Accum
           /\ PackShare(cap, acc, b).rest <= acc.rest
           /\ acc.rest - PackShare(cap, acc, b).rest = acc.pack[b] - PackShare(cap, acc, b).pack[b]
           /\ \A d \in Packs : d # b => PackShare(cap, acc, b).pack[d] = acc.pack[d]
           /\ PackShare(cap, acc, b).pack[b] <= acc.pack[b]
<1>1. CASE b \notin Chargeable
  <2>1. PackShare(cap, acc, b) = acc
    BY <1>1 DEF PackShare
  <2> HIDE DEF PackShare
  <2> QED BY <2>1 DEF Accum
<1>2. CASE b \in Chargeable
  <2>1. IsFiniteSet(Chargeable) /\ \A d \in Chargeable : PackCap[d] \in Nat
    BY DayConstants, FS_Subset DEF Chargeable
  <2>2. cap \in Nat /\ PackCap[b] <= cap /\ PackCap[b] \in Nat \ {0} /\ MaxCharge[b] \in Nat
    BY <1>2, <2>1, SumNat, DayConstants
  <2>3. cap \in Nat \ {0} /\ acc.rest \in Nat /\ acc.pack[b] \in Nat
    BY <2>2 DEF Accum
  <2> DEFINE w == Least({(acc.rest * PackCap[b]) \div cap, MaxCharge[b], acc.pack[b]})
  <2>4. w \in Nat /\ w <= acc.rest /\ w <= acc.pack[b]
    <3>1. /\ (acc.rest * PackCap[b]) \div cap \in Nat
          /\ (acc.rest * PackCap[b]) \div cap <= acc.rest
      BY <2>2, <2>3, ShareBound
    <3>2. w \in Nat /\ w <= (acc.rest * PackCap[b]) \div cap /\ w <= acc.pack[b]
      BY <2>2, <2>3, <3>1, LeastOf
    <3> HIDE DEF w
    <3> DEFINE share == (acc.rest * PackCap[b]) \div cap
    <3>3. w <= share /\ share \in Nat /\ share <= acc.rest
      BY <3>1, <3>2
    <3> HIDE DEF share
    <3> QED BY <2>3, <3>2, <3>3
  <2>5. PackShare(cap, acc, b)
          = [rest |-> acc.rest - w, pack |-> [acc.pack EXCEPT ![b] = @ - w]]
    BY <1>2 DEF PackShare, Charged
  <2> HIDE DEF w, PackShare
  <2>6. [acc.pack EXCEPT ![b] = @ - w] \in [Packs -> Nat] /\ acc.rest - w \in Nat
    BY <2>3, <2>4 DEF Accum
  <2> QED BY <2>3, <2>4, <2>5, <2>6 DEF Accum
<1> QED BY <1>1, <1>2

\* What was planned for the batteries, if they will lack what p says.
Gained(p) == SumFunctionOnSet([b \in Packs |-> lacked.pack[b] - p[b]], Packs)

\* One battery after the other: the surplus goes down as the batteries go up.
LEMMA AllocateShares ==
    ASSUME NEW surplus \in Nat, lacks \in Lack, lacked \in Lack
    PROVE  LET all == AllocateBatteries(surplus)
           IN  /\ all \in Accum /\ all.rest <= surplus
               /\ Gained(all.pack) = Gained(lacks.pack) + (surplus - all.rest)
               /\ \A b \in Packs : all.pack[b] <= lacks.pack[b]
<1> DEFINE cap == SumFunctionOnSet(PackCap, Chargeable)
           first == [rest |-> surplus, pack |-> lacks.pack]
           F == [q \in Accum \X Packs |-> PackShare(cap, q[1], q[2])]
           Step(g) == g = [t \in SUBSET DOMAIN Pack |->
                             IF t = {} THEN first ELSE PackShare(cap, g[t \ {Max(t)}], Pack[Max(t)])]
           iter == CHOOSE g : Step(g)
<1>1. first \in Accum /\ Pack \in Seq(Packs)
  BY DayConstants DEF Accum, Lack, Packs
<1>2. \A acc \in Accum, b \in Packs : PackShare(cap, acc, b) \in Accum
  BY ChargedShare
<1>3. StepOf(F, Accum, Packs)
  <2> HIDE DEF cap
  <2>1. \A q \in Accum \X Packs : PackShare(cap, q[1], q[2]) \in Accum
    BY <1>2
  <2> QED BY <2>1 DEF StepOf
<1>4. \E g : Step(g)
  <2> HIDE DEF F, first, cap
  <2>0. \E g : LeftFoldOf(g, Accum, Packs, first, F, Pack)
    BY <1>1, <1>3, LeftExists
  <2>1. PICK g :
          /\ g \in [SUBSET DOMAIN Pack -> Accum]
          /\ \A t \in SUBSET DOMAIN Pack :
               t # {} => Max(t) \in t /\ Max(t) \in DOMAIN Pack /\ Pack[Max(t)] \in Packs
          /\ \A t \in SUBSET DOMAIN Pack :
               g[t] = IF t = {} THEN first ELSE F[<<g[t \ {Max(t)}], Pack[Max(t)]>>]
    BY <2>0 DEF LeftFoldOf
  <2>2. ASSUME NEW t \in SUBSET DOMAIN Pack
        PROVE  g[t] = IF t = {} THEN first ELSE PackShare(cap, g[t \ {Max(t)}], Pack[Max(t)])
    <3>1. CASE t # {}
      <4>1. g[t \ {Max(t)}] \in Accum /\ Pack[Max(t)] \in Packs
        BY <2>1, <3>1
      <4>2. F[<<g[t \ {Max(t)}], Pack[Max(t)]>>] = PackShare(cap, g[t \ {Max(t)}], Pack[Max(t)])
        BY <4>1 DEF F
      <4> QED BY <2>1, <3>1, <4>2
    <3> QED BY <2>1, <3>1
  <2>3. Step(g)
    BY <2>1, <2>2
  <2> HIDE DEF Step
  <2> QED BY <2>3
<1>5. Step(iter)
  <2> HIDE DEF Step
  <2> QED BY <1>4
<1>6. AllocateBatteries(surplus) = iter[DOMAIN Pack]
  BY DEF AllocateBatteries, FoldLeft, MapThenFoldSet, PackShare, Chargeable, Packs
<1> HIDE DEF iter
<1>7. Len(Pack) \in Nat /\ DOMAIN Pack = 1..Len(Pack)
  BY <1>1
<1> DEFINE Good(acc) == /\ acc \in Accum /\ acc.rest <= surplus
                        /\ Gained(acc.pack) = Gained(lacks.pack) + (surplus - acc.rest)
                        /\ \A b \in Packs : acc.pack[b] <= lacks.pack[b]
           N == {n \in Nat : n <= Len(Pack) => Good(iter[1..n])}
<1>8. 0 \in N
  <2>1. 1..0 = {} /\ iter[{}] = first
    BY <1>5
  <2>2. Gained(lacks.pack) \in Int
    <3>1. \A b \in Packs : [c \in Packs |-> lacked.pack[c] - lacks.pack[c]][b] \in Int
      BY DEF Lack, Packs
    <3> QED BY <3>1, SumInt, DayConstants DEF Gained
  <2>3. first.rest = surplus /\ first.pack = lacks.pack /\ lacks.pack \in [Packs -> Nat]
    BY DEF Lack, Packs
  <2> HIDE DEF first
  <2>4. Good(first)
    BY <1>1, <2>2, <2>3
  <2> QED BY <2>1, <2>4
<1>9. ASSUME NEW n \in N PROVE n + 1 \in N
  <2>0. n \in Nat
    OBVIOUS
  <2> SUFFICES ASSUME n + 1 <= Len(Pack) PROVE Good(iter[1..(n + 1)])
    BY <2>0
  <2> DEFINE acc == iter[1..n]
             b == Pack[n + 1]
             nxt == PackShare(cap, acc, b)
  <2>1. Good(acc)
    BY <2>0, <1>7
  <2>2. iter[1..(n + 1)] = nxt /\ b \in Packs
    <3>1. 1..(n + 1) \in SUBSET DOMAIN Pack /\ 1..(n + 1) # {} /\ n + 1 \in DOMAIN Pack
      BY <1>7, <2>0
    <3>2. Max(1..(n + 1)) = n + 1 /\ (1..(n + 1)) \ {n + 1} = 1..n
      BY <2>0, MaxIndex
    <3>3. Pack[n + 1] \in Packs
      BY <3>1, <1>1
    <3> QED BY <1>5, <3>1, <3>2, <3>3
  <2>3. /\ nxt \in Accum /\ nxt.rest <= acc.rest
        /\ acc.rest - nxt.rest = acc.pack[b] - nxt.pack[b]
        /\ \A d \in Packs : d # b => nxt.pack[d] = acc.pack[d]
        /\ nxt.pack[b] <= acc.pack[b]
    <3> HIDE DEF acc, b
    <3> QED BY <2>1, <2>2, ChargedShare
  <2> HIDE DEF acc, b, nxt, cap, first
  <2>4. Gained(nxt.pack) = Gained(acc.pack) + (acc.rest - nxt.rest)
    <3> DEFINE f == [d \in Packs |-> lacked.pack[d] - acc.pack[d]]
               e == [d \in Packs |-> lacked.pack[d] - nxt.pack[d]]
    <3>1. /\ lacked.pack \in [Packs -> Nat] /\ acc.pack \in [Packs -> Nat]
          /\ nxt.pack \in [Packs -> Nat]
      BY <2>1, <2>3 DEF Lack, Accum, Packs
    <3>2. \A d \in Packs : f[d] \in Int /\ e[d] \in Int
      BY <3>1
    <3>3. \A d \in Packs : d # b => f[d] = e[d]
      BY <3>1, <2>3
    <3>4. e[b] - f[b] = acc.pack[b] - nxt.pack[b]
      BY <3>1, <2>2
    <3> HIDE DEF f, e
    <3>5. SumFunctionOnSet(e, Packs) = SumFunctionOnSet(f, Packs) + (e[b] - f[b])
      <4>1. IsFiniteSet(Packs) /\ b \in Packs
        BY <2>2, DayConstants
      <4> HIDE DEF N, Good, Step, F
      <4> QED BY <3>2, <3>3, <4>1, SumPoint
    <3> QED BY <2>3, <3>4, <3>5 DEF Gained, f, e
  <2>5. Gained(lacks.pack) \in Int
    <3>1. \A d \in Packs : [c \in Packs |-> lacked.pack[c] - lacks.pack[c]][d] \in Int
      BY DEF Lack, Packs
    <3> QED BY <3>1, SumInt, DayConstants DEF Gained
  <2>6. acc.rest \in Nat /\ nxt.rest \in Nat
    BY <2>1, <2>3 DEF Accum
  <2>7. nxt.rest <= surplus /\ Gained(nxt.pack) = Gained(lacks.pack) + (surplus - nxt.rest)
    BY <2>1, <2>3, <2>4, <2>5, <2>6
  <2>8. \A d \in Packs : nxt.pack[d] <= lacks.pack[d]
    <3>1. \A d \in Packs : nxt.pack[d] \in Nat /\ acc.pack[d] \in Nat /\ lacks.pack[d] \in Nat
      BY <2>1, <2>3 DEF Accum, Lack, Packs
    <3>2. \A d \in Packs : nxt.pack[d] <= acc.pack[d]
      BY <2>3, <3>1
    <3> QED BY <2>1, <3>1, <3>2
  <2> QED BY <2>2, <2>3, <2>7, <2>8
<1>10. N = Nat
  <2> HIDE DEF N
  <2>1. N \subseteq Nat
    BY DEF N
  <2> QED BY <1>8, <1>9, <2>1, NatInd
<1>11. Good(iter[DOMAIN Pack])
  BY <1>7, <1>10
<1> HIDE DEF iter
<1> QED BY <1>6, <1>11

------------------------------------------------------------------------------
(* DayPlan: car and devices.                                               *)

\* The car takes no more than is left, nor than its maximum, and only if it lacks something.
LEMMA CarShare ==
    ASSUME NEW rest \in Nat, plugged \in BOOLEAN, lacks \in Lack
    PROVE  /\ CarPower(rest) \in Nat /\ CarPower(rest) <= rest
           /\ CarPower(rest) <= MaxAmps * AmpPower
           /\ ~plugged \/ lacks.car = 0 => CarPower(rest) = 0
<1>1. CASE plugged /\ lacks.car > 0 /\ rest >= MinAmps * AmpPower
  <2> DEFINE q == rest \div AmpPower
             m == rest % AmpPower
             w == Least({q, MaxAmps})
  <2>0. AmpPower \in Nat /\ AmpPower > 0 /\ MaxAmps \in Int /\ MaxAmps >= 0
    BY DayConstants
  <2>1. q \in Nat /\ m \in Nat /\ rest = AmpPower * q + m
    BY <2>0
  <2> HIDE DEF q, m
  <2>2. MaxAmps \in Nat
    BY <2>0
  <2>3. {q, MaxAmps} = {q, MaxAmps, MaxAmps}
    OBVIOUS
  <2>4. w \in Nat /\ w <= q /\ w <= MaxAmps
    BY <2>1, <2>2, <2>3, LeastOf
  <2>5. CarPower(rest) = AmpPower * w
    BY <1>1 DEF CarPower, q
  <2> HIDE DEF w
  <2>6. AmpPower * w <= AmpPower * q /\ AmpPower * w <= AmpPower * MaxAmps
    BY <2>0, <2>1, <2>2, <2>4
  <2>7. AmpPower * w \in Nat /\ AmpPower * q \in Nat /\ AmpPower * MaxAmps = MaxAmps * AmpPower
    BY <2>0, <2>1, <2>2, <2>4
  <2>8. AmpPower * q <= rest
    BY <2>1, <2>7
  <2> QED BY <1>1, <2>5, <2>6, <2>7, <2>8 DEF Lack
<1>2. CASE ~(plugged /\ lacks.car > 0 /\ rest >= MinAmps * AmpPower)
  <2>1. CarPower(rest) = 0
    BY <1>2 DEF CarPower
  <2>2. MaxAmps * AmpPower >= 0
    BY DayConstants
  <2> QED BY <2>1, <2>2
<1> QED BY <1>1, <1>2

\* A device of that power takes its share of what is left, or none.
Taken(rest, used, power) == IF rest - used >= power THEN used + power ELSE used

\* The devices take no more than is left.
LEMMA DispatchShare ==
    ASSUME NEW rest \in Nat
    PROVE  DispatchPower(rest) \in Nat /\ DispatchPower(rest) <= rest
<1> DEFINE F == [q \in Nat \X Nat |-> Taken(rest, q[1], q[2])]
           Step(g) == g = [t \in SUBSET DOMAIN Device |->
                             IF t = {} THEN 0 ELSE Taken(rest, g[t \ {Max(t)}], Device[Max(t)])]
           iter == CHOOSE g : Step(g)
<1>1. 0 \in Nat /\ Device \in Seq(Nat)
  BY DayConstants
<1>2. StepOf(F, Nat, Nat)
  <2>1. \A q \in Nat \X Nat : Taken(rest, q[1], q[2]) \in Nat
    BY DEF Taken
  <2> QED BY <2>1 DEF StepOf
<1>3. \E g : Step(g)
  <2> HIDE DEF F
  <2>0. \E g : LeftFoldOf(g, Nat, Nat, 0, F, Device)
    BY <1>1, <1>2, LeftExists
  <2>1. PICK g :
          /\ g \in [SUBSET DOMAIN Device -> Nat]
          /\ \A t \in SUBSET DOMAIN Device :
               t # {} => Max(t) \in t /\ Max(t) \in DOMAIN Device /\ Device[Max(t)] \in Nat
          /\ \A t \in SUBSET DOMAIN Device :
               g[t] = IF t = {} THEN 0 ELSE F[<<g[t \ {Max(t)}], Device[Max(t)]>>]
    BY <2>0 DEF LeftFoldOf
  <2>2. ASSUME NEW t \in SUBSET DOMAIN Device
        PROVE  g[t] = IF t = {} THEN 0 ELSE Taken(rest, g[t \ {Max(t)}], Device[Max(t)])
    <3>1. CASE t # {}
      <4>1. g[t \ {Max(t)}] \in Nat /\ Device[Max(t)] \in Nat
        BY <2>1, <3>1
      <4>2. F[<<g[t \ {Max(t)}], Device[Max(t)]>>] = Taken(rest, g[t \ {Max(t)}], Device[Max(t)])
        BY <4>1 DEF F
      <4> QED BY <2>1, <3>1, <4>2
    <3> QED BY <2>1, <3>1
  <2>3. Step(g)
    BY <2>1, <2>2
  <2> HIDE DEF Step
  <2> QED BY <2>3
<1>4. Step(iter)
  <2> HIDE DEF Step
  <2> QED BY <1>3
<1>5. DispatchPower(rest) = iter[DOMAIN Device]
  BY DEF DispatchPower, FoldLeft, MapThenFoldSet, Taken
<1> HIDE DEF iter
<1>6. Len(Device) \in Nat /\ DOMAIN Device = 1..Len(Device)
  BY <1>1
<1> DEFINE N == {n \in Nat : n <= Len(Device) => iter[1..n] \in Nat /\ iter[1..n] <= rest}
<1>7. 0 \in N
  <2>1. 1..0 = {} /\ iter[{}] = 0
    BY <1>4
  <2> QED BY <2>1
<1>8. ASSUME NEW n \in N PROVE n + 1 \in N
  <2>0. n \in Nat
    OBVIOUS
  <2> SUFFICES ASSUME n + 1 <= Len(Device)
               PROVE  iter[1..(n + 1)] \in Nat /\ iter[1..(n + 1)] <= rest
    BY <2>0
  <2>1. iter[1..n] \in Nat /\ iter[1..n] <= rest
    BY <2>0, <1>6
  <2>2. iter[1..(n + 1)] = Taken(rest, iter[1..n], Device[n + 1]) /\ Device[n + 1] \in Nat
    <3>1. 1..(n + 1) \in SUBSET DOMAIN Device /\ 1..(n + 1) # {} /\ n + 1 \in DOMAIN Device
      <4> HIDE DEF N, Step, F
      <4>1. n + 1 \in 1..Len(Device) /\ 1..(n + 1) \subseteq 1..Len(Device)
        BY <1>6, <2>0
      <4> QED BY <1>6, <4>1
    <3>2. Max(1..(n + 1)) = n + 1 /\ (1..(n + 1)) \ {n + 1} = 1..n
      BY <2>0, MaxIndex
    <3>3. Device[n + 1] \in Nat
      BY <3>1, <1>1
    <3> HIDE DEF N, F
    <3> QED BY <1>4, <3>1, <3>2, <3>3
  <2> HIDE DEF N, Step, F
  <2> QED BY <2>1, <2>2 DEF Taken
<1>9. N = Nat
  <2> HIDE DEF N
  <2>1. N \subseteq Nat
    BY DEF N
  <2> QED BY <1>7, <1>8, <2>1, NatInd
<1>10. iter[1..Len(Device)] \in Nat /\ iter[1..Len(Device)] <= rest
  BY <1>6, <1>9
<1> QED BY <1>5, <1>6, <1>10

------------------------------------------------------------------------------
(* DayPlan: the invariant.                                                 *)

\* What the slots planned so far give to the batteries and to the car.
PlannedBat == SumFunctionOnSet([h \in Planned |-> slots[h].bat], Planned)
PlannedEv == SumFunctionOnSet([h \in Planned |-> slots[h].ev], Planned)

\* The slots charge what the projection gains: the batteries exactly, the car as long as it
\* lacks something, and after that at most an hour at its maximum too much.
Projected ==
    /\ PlannedBat = Gained(lacks.pack)
    /\ lacks.car > 0 => PlannedEv = lacked.car - lacks.car
    /\ lacks.car = 0 => PlannedEv <= lacked.car + MaxAmps * AmpPower - 1
    /\ ~plugged \/ lacked.car = 0 => PlannedEv = 0 /\ lacks.car = lacked.car

\* The inductive invariant of the day.
DayInv == DayTypeOK /\ OnlyDischargeFails /\ Projected

\* A plan is begun.
LEMMA DayStarts == DayInit => DayInv
<1> SUFFICES ASSUME DayInit PROVE DayInv
  OBVIOUS
<1>1. bands \in [Window -> Band]
  <2>1. CASE bands \in {[h \in Window |-> Clamped(raw[h])] : raw \in [Window -> Estimate]}
    <3>1. \A e \in Estimate : Clamped(e) \in Band
      BY DayPlanAssumption DEF Clamped, Band
    <3> QED BY <2>1, <3>1
  <2>2. CASE bands \in {Flat(total) : total \in Totals}
    <3>1. \A total \in Nat : total \div 12 \in Nat /\ (7 * (total \div 12)) \div 10 \in Nat
      OBVIOUS
    <3>2. \A total \in Totals : total \in Nat
      BY DayPlanAssumption
    <3> QED BY <2>2, <3>1, <3>2 DEF Flat, Band
  <2> QED BY <2>1, <2>2 DEF DayInit
<1>2. lacked \in Lack /\ lacks = lacked
  BY DayPlanAssumption DEF DayInit, Lack
<1>3. Planned = {} /\ planHour = WindowStart /\ slots = <<>>
  BY DayConstants DEF DayInit, Planned
<1>4. slots \in [WindowStart..(planHour - 1) -> HourSlot]
  BY <1>3 DEF Planned
<1>5. DayTypeOK
  BY <1>1, <1>2, <1>3, <1>4, DayConstants DEF DayInit, DayTypeOK
<1>6. Projected
  <2>1. PlannedBat = 0 /\ PlannedEv = 0
    BY <1>3, SumEmpty DEF PlannedBat, PlannedEv
  <2>2. Gained(lacks.pack) = 0
    <3> DEFINE f == [b \in Packs |-> lacked.pack[b] - lacks.pack[b]]
    <3>1. \A b \in Packs : f[b] = 0
      BY <1>2 DEF Lack, Packs
    <3> HIDE DEF f
    <3>2. SumFunctionOnSet(f, Packs) = 0
      BY <3>1, SumZero, DayConstants
    <3> QED BY <3>2 DEF Gained, f
  <2>3. lacks.car \in Nat /\ lacked.car = lacks.car /\ MaxAmps * AmpPower \in Nat
        /\ MaxAmps * AmpPower > 0
    BY <1>2, DayConstants DEF Lack
  <2> QED BY <2>1, <2>2, <2>3 DEF Projected
<1> QED BY <1>5, <1>6 DEF DayInv, DayInit, OnlyDischargeFails

\* A slot more in the plan.
LEMMA SlotAdded ==
    ASSUME DayTypeOK, NEW slot \in HourSlot, planHour < WindowEnd,
           slots' = [h \in WindowStart..planHour |-> IF h = planHour THEN slot ELSE slots[h]],
           planHour' = planHour + 1
    PROVE  /\ slots' \in [WindowStart..(planHour' - 1) -> HourSlot]
           /\ planHour' \in WindowStart..WindowEnd
           /\ PlannedBat \in Nat /\ PlannedBat' = PlannedBat + slot.bat
           /\ PlannedEv \in Nat /\ PlannedEv' = PlannedEv + slot.ev
<1>0. /\ planHour \in Nat /\ WindowStart \in Nat /\ WindowStart <= planHour
      /\ slots \in [WindowStart..(planHour - 1) -> HourSlot] /\ WindowEnd \in Nat
  BY DayConstants DEF DayTypeOK
<1>1. Planned = WindowStart..(planHour - 1) /\ Planned' = WindowStart..planHour
  BY <1>0 DEF Planned
<1>2. IsFiniteSet(Planned) /\ IsFiniteSet(Planned')
  BY <1>0, <1>1, FS_Interval
<1>3. planHour \in Planned' /\ Planned' \ {planHour} = Planned
  BY <1>0, <1>1
<1>4. /\ slots' \in [Planned' -> HourSlot] /\ slots'[planHour] = slot
      /\ \A h \in Planned : slots'[h] = slots[h]
  BY <1>0, <1>1, <1>3
<1>5. slots' \in [WindowStart..(planHour' - 1) -> HourSlot] /\ planHour' \in WindowStart..WindowEnd
  BY <1>0, <1>1, <1>4
<1>6. ASSUME NEW f, NEW e, NEW x \in Nat, f \in [Planned -> Nat], e \in [Planned' -> Nat],
             \A h \in Planned : e[h] = f[h], e[planHour] = x
      PROVE  /\ SumFunctionOnSet(f, Planned) \in Nat
             /\ SumFunctionOnSet(e, Planned') = SumFunctionOnSet(f, Planned) + x
  <2>1. SumFunctionOnSet(f, Planned) \in Nat
    BY <1>2, <1>6, SumNat
  <2>2. \A h \in Planned' : e[h] \in Int
    BY <1>6
  <2>3. SumFunctionOnSet(e, Planned') = e[planHour] + SumFunctionOnSet(e, Planned' \ {planHour})
    BY <1>2, <1>3, <2>2, SumRemove
  <2>4. \A h \in Planned : e[h] \in Int /\ e[h] = f[h]
    BY <1>6
  <2>5. SumFunctionOnSet(e, Planned) = SumFunctionOnSet(f, Planned)
    BY <1>2, <2>4, SumAgree
  <2>6. SumFunctionOnSet(e, Planned' \ {planHour}) = SumFunctionOnSet(e, Planned)
    BY <1>3
  <2>7. SumFunctionOnSet(e, Planned') = x + SumFunctionOnSet(f, Planned)
    BY <1>6, <2>3, <2>5, <2>6
  <2> QED BY <1>6, <2>1, <2>7
<1>7. PlannedBat \in Nat /\ PlannedBat' = PlannedBat + slot.bat
  <2> DEFINE f == [h \in Planned |-> slots[h].bat]
             e == [h \in Planned' |-> slots'[h].bat]
  <2>1. f \in [Planned -> Nat] /\ e \in [Planned' -> Nat] /\ slot.bat \in Nat
    BY <1>0, <1>1, <1>4 DEF HourSlot
  <2>2. (\A h \in Planned : e[h] = f[h]) /\ e[planHour] = slot.bat
    BY <1>3, <1>4
  <2>3. PlannedBat = SumFunctionOnSet(f, Planned) /\ PlannedBat' = SumFunctionOnSet(e, Planned')
    BY DEF PlannedBat
  <2> HIDE DEF f, e
  <2> QED BY <1>6, <2>1, <2>2, <2>3
<1>8. PlannedEv \in Nat /\ PlannedEv' = PlannedEv + slot.ev
  <2> DEFINE f == [h \in Planned |-> slots[h].ev]
             e == [h \in Planned' |-> slots'[h].ev]
  <2>1. f \in [Planned -> Nat] /\ e \in [Planned' -> Nat] /\ slot.ev \in Nat
    BY <1>0, <1>1, <1>4 DEF HourSlot
  <2>2. (\A h \in Planned : e[h] = f[h]) /\ e[planHour] = slot.ev
    BY <1>3, <1>4
  <2>3. PlannedEv = SumFunctionOnSet(f, Planned) /\ PlannedEv' = SumFunctionOnSet(e, Planned')
    BY DEF PlannedEv
  <2> HIDE DEF f, e
  <2> QED BY <1>6, <2>1, <2>2, <2>3
<1> QED BY <1>5, <1>7, <1>8

\* An hour without surplus charges nothing; its slot adds up but for a discharge.
LEMMA DeficitStep ==
    ASSUME DayInv, DeficitHour
    PROVE  DayInv'
<1> DEFINE slot == [pv |-> Pv, bat |-> 0, ev |-> 0, dispatch |-> 0, export |-> 0,
                    house |-> IF CanDischarge /\ IsMorning THEN Baseload ELSE Pv]
<1>0. planHour \in Window /\ Pv \in Nat /\ Baseload \in Nat /\ outcome = "planning" /\ Pv < Baseload
  BY DayConstants DEF DayInv, DayTypeOK, DeficitHour, Window, Pv, Band
<1>1. Put(slot, lacks)
  BY DEF DeficitHour
<1>2. slot \in HourSlot
  BY <1>0 DEF HourSlot
<1>3. ~Balanced(slot) => CanDischarge /\ IsMorning
  BY <1>0 DEF Balanced
<1> HIDE DEF slot
<1>4. CASE Balanced(slot)
  <2>1. /\ slots' = [h \in WindowStart..planHour |-> IF h = planHour THEN slot ELSE slots[h]]
        /\ planHour' = planHour + 1 /\ lacks' = lacks
        /\ UNCHANGED <<outcome, bands, lacked, plugged>> /\ planHour < WindowEnd
    BY <1>1, <1>4 DEF Put
  <2>2. /\ slots' \in [WindowStart..(planHour' - 1) -> HourSlot]
        /\ planHour' \in WindowStart..WindowEnd
        /\ PlannedBat \in Nat /\ PlannedBat' = PlannedBat + slot.bat
        /\ PlannedEv \in Nat /\ PlannedEv' = PlannedEv + slot.ev
    BY <1>2, <2>1, SlotAdded DEF DayInv
  <2>3. slot.bat = 0 /\ slot.ev = 0
    BY DEF slot
  <2>4. PlannedBat' = PlannedBat /\ PlannedEv' = PlannedEv
    BY <2>2, <2>3
  <2>5. Gained(lacks.pack)' = Gained(lacks.pack)
    BY <2>1 DEF Gained
  <2>6. Projected'
    BY <2>1, <2>4, <2>5 DEF DayInv, Projected
  <2>7. DayTypeOK'
    BY <2>1, <2>2 DEF DayInv, DayTypeOK
  <2>8. OnlyDischargeFails'
    BY <1>0, <2>1 DEF OnlyDischargeFails
  <2> QED BY <2>6, <2>7, <2>8 DEF DayInv
<1>5. CASE ~Balanced(slot)
  <2>1. outcome' = "error" /\ UNCHANGED <<planHour, slots, lacks, bands, lacked, plugged>>
    BY <1>1, <1>5 DEF Put
  <2>2. OnlyDischargeFails'
    BY <1>0, <1>3, <1>5, <2>1 DEF OnlyDischargeFails, CanDischarge, IsMorning, Pv
  <2>3. DayTypeOK' /\ Projected'
    BY <2>1 DEF DayInv, DayTypeOK, Projected, PlannedBat, PlannedEv, Planned, Gained
  <2> QED BY <2>2, <2>3 DEF DayInv
<1> QED BY <1>4, <1>5

\* An hour with surplus always adds up, and charges what its projection gains.
LEMMA SurplusHourStep ==
    ASSUME DayInv, SurplusHour
    PROVE  DayInv'
<1> DEFINE surplus == Pv - Baseload
           charged == AllocateBatteries(surplus)
           ev == CarPower(charged.rest)
           dispatch == DispatchPower(charged.rest - ev)
           rest == charged.rest - ev - dispatch
           slot == [pv |-> Pv, house |-> Baseload, bat |-> Pv - Baseload - charged.rest, ev |-> ev,
                    dispatch |-> dispatch, export |-> IF rest > 0 THEN rest ELSE 0]
           next == [pack |-> charged.pack, car |-> IF lacks.car > ev THEN lacks.car - ev ELSE 0]
<1>0. /\ planHour \in Window /\ Pv \in Nat /\ Baseload \in Nat /\ outcome = "planning"
      /\ Pv >= Baseload /\ planHour < WindowEnd
  BY DayConstants DEF DayInv, DayTypeOK, SurplusHour, Window, Pv, Band
<1>1. Put(slot, next)
  BY DEF SurplusHour
<1>2. /\ surplus \in Nat /\ lacks \in Lack /\ lacked \in Lack /\ plugged \in BOOLEAN
  BY <1>0 DEF DayInv, DayTypeOK
<1>3. /\ charged \in Accum /\ charged.rest <= surplus
      /\ Gained(charged.pack) = Gained(lacks.pack) + (surplus - charged.rest)
  <2> HIDE DEF surplus
  <2> QED BY <1>2, AllocateShares
<1>4. charged.rest \in Nat /\ charged.pack \in [Packs -> Nat]
  BY <1>3 DEF Accum
<1> HIDE DEF charged
<1>5. /\ ev \in Nat /\ ev <= charged.rest /\ ev <= MaxAmps * AmpPower
      /\ ~plugged \/ lacks.car = 0 => ev = 0
  BY <1>2, <1>4, CarShare
<1> HIDE DEF ev
<1>6. charged.rest - ev \in Nat
  BY <1>4, <1>5
<1>7. dispatch \in Nat /\ dispatch <= charged.rest - ev
  BY <1>6, DispatchShare
<1> HIDE DEF dispatch
<1>8. rest \in Nat
  BY <1>6, <1>7
<1>9. slot.bat = surplus - charged.rest /\ slot.bat \in Nat /\ slot.ev = ev
  BY <1>2, <1>3, <1>4
<1>10. slot \in HourSlot
  BY <1>0, <1>5, <1>7, <1>8, <1>9 DEF HourSlot
<1>11. Balanced(slot)
  BY <1>0, <1>4, <1>5, <1>7, <1>8 DEF Balanced
<1> HIDE DEF slot
<1>12. /\ slots' = [h \in WindowStart..planHour |-> IF h = planHour THEN slot ELSE slots[h]]
       /\ planHour' = planHour + 1 /\ lacks' = next
       /\ UNCHANGED <<outcome, bands, lacked, plugged>>
  BY <1>1, <1>11 DEF Put
<1>13. /\ slots' \in [WindowStart..(planHour' - 1) -> HourSlot]
       /\ planHour' \in WindowStart..WindowEnd
       /\ PlannedBat \in Nat /\ PlannedBat' = PlannedBat + slot.bat
       /\ PlannedEv \in Nat /\ PlannedEv' = PlannedEv + slot.ev
  BY <1>0, <1>10, <1>12, SlotAdded DEF DayInv
<1>14. Gained(lacks.pack)' = Gained(charged.pack)
  BY <1>12 DEF Gained
<1>15. lacks.car \in Nat /\ lacked.car \in Nat
  BY <1>2 DEF Lack
<1>16. lacks' \in Lack /\ lacks'.car = IF lacks.car > ev THEN lacks.car - ev ELSE 0
  BY <1>4, <1>5, <1>12, <1>15 DEF Lack, Packs
<1>17. Projected'
  <2>1. /\ PlannedBat = Gained(lacks.pack)
        /\ lacks.car > 0 => PlannedEv = lacked.car - lacks.car
        /\ lacks.car = 0 => PlannedEv <= lacked.car + MaxAmps * AmpPower - 1
        /\ ~plugged \/ lacked.car = 0 => PlannedEv = 0 /\ lacks.car = lacked.car
    BY DEF DayInv, Projected
  <2>2. PlannedBat' = Gained(lacks.pack)'
    BY <1>3, <1>9, <1>13, <1>14, <2>1
  <2> DEFINE most == MaxAmps * AmpPower
  <2>3. most \in Nat /\ most > 0
    BY DayConstants
  <2>4. ev <= most /\ (lacks.car = 0 => PlannedEv <= lacked.car + most - 1)
    BY <1>5, <2>1
  <2> HIDE DEF most
  <2>5. PlannedEv' = PlannedEv + ev /\ lacked' = lacked /\ plugged' = plugged
    BY <1>9, <1>12, <1>13
  <2>6. lacks'.car > 0 => PlannedEv' = lacked'.car - lacks'.car
    <3> SUFFICES ASSUME lacks'.car > 0 PROVE PlannedEv' = lacked'.car - lacks'.car
      OBVIOUS
    <3>1. ev \in Nat /\ PlannedEv \in Nat
      BY <1>4, <1>5, <1>13
    <3>2. lacks'.car = lacks.car - ev /\ lacks.car > 0
      BY <1>15, <1>16, <3>1
    <3>3. PlannedEv = lacked.car - lacks.car
      BY <2>1, <3>2
    <3> QED BY <1>15, <2>5, <3>1, <3>2, <3>3
  <2>7. lacks'.car = 0 => PlannedEv' <= lacked'.car + most - 1
    <3>1. CASE lacks.car = 0
      BY <1>5, <1>13, <1>15, <2>3, <2>4, <2>5, <3>1
    <3>2. CASE lacks.car > 0
      BY <1>5, <1>13, <1>15, <2>1, <2>3, <2>4, <2>5, <3>2
    <3> QED BY <1>15, <3>1, <3>2
  <2>8. ~plugged' \/ lacked'.car = 0 => PlannedEv' = 0 /\ lacks'.car = lacked'.car
    BY <1>5, <1>13, <1>15, <1>16, <2>1, <2>5
  <2> QED BY <2>2, <2>6, <2>7, <2>8 DEF Projected, most
<1>18. DayTypeOK'
  BY <1>12, <1>13, <1>16 DEF DayInv, DayTypeOK
<1>19. OnlyDischargeFails'
  BY <1>0, <1>12 DEF OnlyDischargeFails
<1> QED BY <1>17, <1>18, <1>19 DEF DayInv

\* Every step keeps it.
LEMMA DayStep == DayInv /\ [DayNext]_dayVars => DayInv'
<1> SUFFICES ASSUME DayInv, [DayNext]_dayVars PROVE DayInv'
  OBVIOUS
<1>1. CASE DayPlanned
  <2>1. outcome' = "plan" /\ UNCHANGED <<bands, lacked, plugged, planHour, lacks, slots>>
    BY <1>1 DEF DayPlanned
  <2> QED BY <2>1 DEF DayInv, DayTypeOK, OnlyDischargeFails, Projected, PlannedBat, PlannedEv,
                      Planned, Gained
<1>2. CASE UNCHANGED dayVars
  BY <1>2 DEF dayVars, DayInv, DayTypeOK, OnlyDischargeFails, Projected, PlannedBat, PlannedEv,
              Planned, Gained, CanDischarge, IsMorning, Pv
<1> QED BY <1>1, <1>2, DeficitStep, SurplusHourStep DEF DayNext

\* The types of the plan of the day.
THEOREM DayTyped == DaySpec => []DayTypeOK
<1>1. DayInv => DayTypeOK
  BY DEF DayInv
<1> QED BY <1>1, DayStarts, DayStep, PTL DEF DaySpec

\* For any batteries, devices, caps, forecasts and charge levels: the power of a surplus hour adds
\* up, so that no other hour than a morning hour of discharge makes generate_day_plan fail.
THEOREM OnlyDischarge == DaySpec => []OnlyDischargeFails
<1>1. DayInv => OnlyDischargeFails
  BY DEF DayInv
<1> QED BY <1>1, DayStarts, DayStep, PTL DEF DaySpec

\* And the slots of the plan charge the batteries with exactly what their projected SoC gains,
\* and the car with less than an hour too much.
THEOREM ProjectionHolds == DaySpec => []ProjectionIsPlan
<1>1. DayInv => ProjectionIsPlan
  <2> SUFFICES ASSUME DayInv PROVE ProjectionIsPlan
    OBVIOUS
  <2>1. /\ InPlan(LAMBDA s : s.bat) = PlannedBat /\ InPlan(LAMBDA s : s.ev) = PlannedEv
        /\ SumFunction([b \in ToSet(Pack) |-> lacked.pack[b] - lacks.pack[b]]) = Gained(lacks.pack)
    BY DEF InPlan, PlannedBat, PlannedEv, Gained, Packs, SumFunction
  <2>2. lacks.car \in Nat /\ lacked.car \in Nat /\ MaxAmps * AmpPower \in Nat
        /\ MaxAmps * AmpPower > 0
    BY DayConstants DEF DayInv, DayTypeOK, Lack
  <2>3. PlannedEv \in Nat
    <3> DEFINE f == [h \in Planned |-> slots[h].ev]
    <3>1. planHour \in Int /\ WindowStart \in Int
      BY DayConstants DEF DayInv, DayTypeOK
    <3>2. IsFiniteSet(Planned)
      BY <3>1, FS_Interval DEF Planned
    <3>3. \A h \in Planned : f[h] \in Nat
      BY DEF DayInv, DayTypeOK, Planned, HourSlot
    <3> HIDE DEF f
    <3>4. SumFunctionOnSet(f, Planned) \in Nat
      BY <3>2, <3>3, SumNat
    <3> QED BY <3>4 DEF PlannedEv, f
  <2>4. PlannedEv < IF plugged /\ lacked.car > 0 THEN lacked.car + MaxAmps * AmpPower ELSE 1
    <3> DEFINE most == MaxAmps * AmpPower
    <3>1. /\ lacks.car > 0 => PlannedEv = lacked.car - lacks.car
          /\ lacks.car = 0 => PlannedEv <= lacked.car + most - 1
          /\ ~plugged \/ lacked.car = 0 => PlannedEv = 0
      BY DEF DayInv, Projected
    <3>2. most \in Nat /\ most > 0
      BY <2>2
    <3> HIDE DEF most
    <3>3. PlannedEv < IF plugged /\ lacked.car > 0 THEN lacked.car + most ELSE 1
      BY <2>2, <2>3, <3>1, <3>2
    <3> QED BY <3>3 DEF most
  <2> QED BY <2>1, <2>4 DEF DayInv, Projected, ProjectionIsPlan
<1> QED BY <1>1, DayStarts, DayStep, PTL DEF DaySpec

------------------------------------------------------------------------------
(* The peaks of the tariff.                                                *)

\* Descending(s) descends, and has the numbers of s.
LEMMA DescendingOf ==
    ASSUME NEW s \in Seq(Nat)
    PROVE  /\ Descending(s) \in Seq(Nat) /\ Len(Descending(s)) = Len(s)
           /\ Descends(Descending(s))
           /\ \A v \in Nat : AtLeast(Descending(s), v) = AtLeast(s, v)
<1> DEFINE n == Len(s)
           p == CHOOSE p \in Bijection(DOMAIN s, DOMAIN s) :
                    \A i, j \in DOMAIN s : i < j => s[p[i]] >= s[p[j]]
           t == [i \in DOMAIN s |-> s[p[i]]]
<1>1. n \in Nat /\ DOMAIN s = 1..n /\ s \in [1..n -> Nat]
  OBVIOUS
<1>2. \E q : Sorts(q, s, n)
  <2>1. s \in [1..n -> Int]
    BY <1>1
  <2> QED BY <1>1, <2>1, SortExists
<1>3. Sorts(p, s, n)
  BY <1>1, <1>2 DEF Sorts
<1>4. Descending(s) = t
  BY DEF Descending
<1> HIDE DEF p
<1>5. /\ p \in [1..n -> 1..n] /\ p \in Bijection(1..n, 1..n)
      /\ \A i, j \in 1..n : i < j => s[p[i]] >= s[p[j]]
  BY <1>3 DEF Sorts, Bijection, Injection
<1>6. t \in [1..n -> Nat] /\ \A i \in 1..n : t[i] = s[p[i]]
  BY <1>1, <1>5
<1>7. t \in Seq(Nat) /\ Len(t) = n
  BY <1>1, <1>6
<1> HIDE DEF t, n
<1>8. Descends(t)
  BY <1>5, <1>6, <1>7 DEF Descends
<1>9. ASSUME NEW v \in Nat PROVE AtLeast(t, v) = AtLeast(s, v)
  <2> DEFINE S == Reaching(t, v)
             T == Reaching(s, v)
             f == [i \in S |-> p[i]]
  <2>1. /\ S \subseteq 1..n /\ T \subseteq 1..n
        /\ \A i \in 1..n : i \in S <=> p[i] \in T
    BY <1>1, <1>5, <1>6, <1>7 DEF Reaching, n
  <2>2. IsFiniteSet(S)
    BY <1>1, <2>1, FS_Interval, FS_Subset
  <2>3. /\ \A i, j \in 1..n : p[i] = p[j] => i = j
        /\ \A j \in 1..n : \E i \in 1..n : p[i] = j
    BY <1>5 DEF Bijection, Injection, Surjection, IsInjective
  <2> HIDE DEF S, T
  <2>4. f \in [S -> T]
    BY <2>1
  <2>5. \A i, j \in S : f[i] = f[j] => i = j
    BY <2>1, <2>3
  <2>6. \A j \in T : \E i \in S : f[i] = j
    <3> SUFFICES ASSUME NEW j \in T PROVE \E i \in S : f[i] = j
      OBVIOUS
    <3>1. PICK i \in 1..n : p[i] = j
      BY <2>1, <2>3
    <3> QED BY <2>1, <3>1
  <2>7. f \in Bijection(S, T)
    BY <2>4, <2>5, <2>6 DEF Bijection, Injection, Surjection, IsInjective
  <2>8. Cardinality(T) = Cardinality(S)
    BY <2>2, <2>7, FS_Bijection DEF ExistsBijection
  <2> QED BY <2>8 DEF AtLeast, S, T
<1> QED BY <1>4, <1>7, <1>8, <1>9 DEF n

\* At most TopN.
AtMostTop(n) == IF n > TopN THEN TopN ELSE n

\* Sorted and cut: the length and how many reach each number.
LEMMA CutOf ==
    ASSUME NEW s \in Seq(Nat), NEW t,
           t = LET sorted == Descending(s) IN IF Len(sorted) > TopN THEN SubSeq(sorted, 1, TopN) ELSE sorted
    PROVE  /\ t \in Seq(Nat) /\ Descends(t) /\ Len(t) = AtMostTop(Len(s))
           /\ \A v \in Nat : AtLeast(t, v) = AtMostTop(AtLeast(s, v))
<1> DEFINE d == Descending(s)
<1>1. TopN \in Nat
  BY TariffAssumption
<1>2. /\ d \in Seq(Nat) /\ Len(d) = Len(s) /\ Descends(d)
      /\ \A v \in Nat : AtLeast(d, v) = AtLeast(s, v)
  BY DescendingOf
<1>3. t = IF Len(d) > TopN THEN SubSeq(d, 1, TopN) ELSE d
  OBVIOUS
<1> HIDE DEF d
<1>4. \A v \in Nat : AtLeast(d, v) \in 0..Len(d)
  BY <1>2, FirstReach
<1>5. Len(d) \in Nat
  BY <1>2
<1>6. CASE Len(d) > TopN
  <2>1. t = SubSeq(d, 1, TopN) /\ TopN < Len(d)
    BY <1>1, <1>3, <1>5, <1>6
  <2> DEFINE u == SubSeq(d, 1, TopN)
  <2>2. /\ u \in Seq(Nat) /\ Len(u) = TopN /\ Descends(u)
        /\ \A v \in Nat : AtLeast(u, v) = IF AtLeast(d, v) > TopN THEN TopN ELSE AtLeast(d, v)
    BY <1>1, <1>2, <2>1, FirstOf
  <2> HIDE DEF u
  <2>3. /\ t \in Seq(Nat) /\ Len(t) = TopN /\ Descends(t)
        /\ \A v \in Nat : AtLeast(t, v) = AtMostTop(AtLeast(d, v))
    BY <2>1, <2>2 DEF AtMostTop, u
  <2> QED BY <1>2, <1>6, <2>3 DEF AtMostTop
<1>7. CASE ~(Len(d) > TopN)
  <2>1. \A v \in Nat : AtMostTop(AtLeast(d, v)) = AtLeast(d, v)
    BY <1>1, <1>4, <1>5, <1>7 DEF AtMostTop
  <2> QED BY <1>2, <1>3, <1>7, <2>1 DEF AtMostTop
<1> QED BY <1>6, <1>7

\* What stays when an hour is closed.
LEMMA KeptOf ==
    ASSUME NEW s \in Seq(Nat), NEW x \in Nat
    PROVE  /\ Kept(s, x) \in Seq(Nat) /\ Descends(Kept(s, x))
           /\ Len(Kept(s, x)) = AtMostTop(Len(s) + 1)
           /\ \A v \in Nat : /\ AtLeast(s, v) \in Nat
                            /\ AtLeast(Kept(s, x), v) = AtMostTop(AtLeast(s, v) + (IF x >= v THEN 1 ELSE 0))
<1>1. Kept(s, x) = LET sorted == Descending(Append(s, x))
                   IN  IF Len(sorted) > TopN THEN SubSeq(sorted, 1, TopN) ELSE sorted
  BY DEF Kept
<1> DEFINE a == Append(s, x)
<1>2. /\ a \in Seq(Nat) /\ Len(a) = Len(s) + 1
      /\ \A v \in Nat : /\ AtLeast(s, v) \in 0..Len(s)
                       /\ AtLeast(a, v) = AtLeast(s, v) + (IF x >= v THEN 1 ELSE 0)
  BY AppendReach
<1>3. /\ Kept(s, x) \in Seq(Nat) /\ Descends(Kept(s, x)) /\ Len(Kept(s, x)) = AtMostTop(Len(a))
      /\ \A v \in Nat : AtLeast(Kept(s, x), v) = AtMostTop(AtLeast(a, v))
  <2>1. a \in Seq(Nat)
    BY <1>2
  <2>2. Kept(s, x) = LET sorted == Descending(a)
                     IN  IF Len(sorted) > TopN THEN SubSeq(sorted, 1, TopN) ELSE sorted
    BY <1>1
  <2> HIDE DEF a
  <2> QED BY <2>1, <2>2, CutOf
<1> HIDE DEF a
<1>4. \A v \in Nat : /\ AtLeast(s, v) \in Nat
                   /\ AtLeast(Kept(s, x), v) = AtMostTop(AtLeast(s, v) + (IF x >= v THEN 1 ELSE 0))
  <2> TAKE v \in Nat
  <2>1. AtLeast(s, v) \in 0..Len(s)
    BY <1>2
  <2>2. AtLeast(a, v) = AtLeast(s, v) + (IF x >= v THEN 1 ELSE 0)
    BY <1>2
  <2>3. AtLeast(Kept(s, x), v) = AtMostTop(AtLeast(a, v))
    BY <1>3
  <2> QED BY <2>1, <2>2, <2>3
<1> QED BY <1>2, <1>3, <1>4

\* The weight of an hour with a reading.
LEMMA WeightedType ==
    ASSUME NEW s \in HourSample, s.count > 0
    PROVE  Weighted(s) \in Nat
<1> DEFINE w == IF s.hour \in LowHours THEN 2 ELSE 4
           m == s.sum * w
<1>1. s.sum \in Nat /\ s.count \in Nat /\ s.count > 0 /\ w \in Nat
  BY TariffAssumption DEF HourSample
<1>2. m \in Nat
  <2> HIDE DEF w
  <2> QED BY <1>1
<1> HIDE DEF m
<1>3. m \div s.count \in Nat
  BY <1>1, <1>2
<1> QED BY <1>3 DEF Weighted, m

\* The hours of S whose weight in ledger l reaches v.
Heavy(l, S, v) == {h \in S : Weighted(l[h]) >= v}

\* s holds the TopN largest weights of the hours of S, by ledger l, in order.
Largest(s, l, S) ==
    /\ s \in Seq(Nat) /\ Descends(s) /\ Len(s) = AtMostTop(Cardinality(S))
    /\ \A v \in Nat : AtLeast(s, v) = AtMostTop(Cardinality(Heavy(l, S, v)))

\* The bill does.
LEMMA BilledOf ==
    ASSUME NEW S \in SUBSET (1..Hours), \A h \in S : Weighted(ledger[h]) \in Nat
    PROVE  Largest(Billed(S), ledger, S)
<1> DEFINE n == Cardinality(S)
           list == SetToSeq(S)
           s == [i \in 1..Len(list) |-> Weighted(ledger[list[i]])]
<1>1. IsFiniteSet(S)
  <2>1. IsFiniteSet(1..Hours)
    BY TariffAssumption, FS_Interval
  <2> QED BY <2>1, FS_Subset
<1>2. n \in Nat /\ ExistsBijection(1..n, S)
  BY <1>1, FS_CardinalityType
<1> HIDE DEF n
<1>3. PICK b : b \in Bijection(1..n, S)
  BY <1>2 DEF ExistsBijection
<1>4. b \in [1..n -> S] /\ IsInjective(b)
  BY <1>3 DEF Bijection, Injection
<1>5. list = CHOOSE f \in [1..n -> S] : IsInjective(f)
  BY DEF SetToSeq, n
<1> HIDE DEF list
<1>6. list \in [1..n -> S] /\ IsInjective(list)
  BY <1>4, <1>5
<1>7. list \in Seq(S) /\ Len(list) = n
  BY <1>2, <1>6
<1>8. \A h \in S : \E i \in 1..n : list[i] = h
  <2> DEFINE I == {list[i] : i \in 1..n}
  <2>1. Cardinality(1..n) = n /\ IsFiniteSet(1..n)
    BY <1>2, FS_Interval
  <2>2. list \in Bijection(1..n, I)
    BY <1>6 DEF Bijection, Injection, Surjection
  <2>3. I \in SUBSET S
    BY <1>6
  <2> HIDE DEF I
  <2>4. Cardinality(I) = Cardinality(S)
    BY <2>1, <2>2, FS_Bijection DEF ExistsBijection, n
  <2>5. I = S
    BY <1>1, <2>3, <2>4, FS_Subset
  <2> QED BY <2>5 DEF I
<1>9. s \in Seq(Nat) /\ Len(s) = n /\ \A i \in 1..n : s[i] = Weighted(ledger[list[i]])
  <2>1. s = [i \in 1..n |-> Weighted(ledger[list[i]])]
    BY <1>7
  <2>2. \A i \in 1..n : Weighted(ledger[list[i]]) \in Nat
    BY <1>6
  <2> HIDE DEF s
  <2> QED BY <1>2, <2>1, <2>2
<1>10. Billed(S) = LET sorted == Descending(s)
                   IN  IF Len(sorted) > TopN THEN SubSeq(sorted, 1, TopN) ELSE sorted
  BY DEF Billed, list
<1> HIDE DEF s
<1>11. /\ Billed(S) \in Seq(Nat) /\ Descends(Billed(S)) /\ Len(Billed(S)) = AtMostTop(n)
       /\ \A v \in Nat : AtLeast(Billed(S), v) = AtMostTop(AtLeast(s, v))
  BY <1>9, <1>10, CutOf
<1>12. ASSUME NEW v \in Nat PROVE AtLeast(s, v) = Cardinality(Heavy(ledger, S, v))
  <2> DEFINE T == Reaching(s, v)
             f == [i \in T |-> list[i]]
  <2>1. /\ T \in SUBSET (1..n) /\ Heavy(ledger, S, v) \in SUBSET S
        /\ \A i \in 1..n : i \in T <=> list[i] \in Heavy(ledger, S, v)
    BY <1>6, <1>9 DEF Reaching, Heavy
  <2>2. IsFiniteSet(T)
    <3>1. IsFiniteSet(1..n)
      BY <1>2, FS_Interval
    <3> HIDE DEF T
    <3> QED BY <2>1, <3>1, FS_Subset
  <2> HIDE DEF T
  <2>3. f \in [T -> Heavy(ledger, S, v)]
    BY <2>1
  <2>4. \A i, j \in T : f[i] = f[j] => i = j
    BY <1>6, <2>1 DEF IsInjective
  <2>5. \A h \in Heavy(ledger, S, v) : \E i \in T : f[i] = h
    <3> SUFFICES ASSUME NEW h \in Heavy(ledger, S, v) PROVE \E i \in T : f[i] = h
      OBVIOUS
    <3>1. PICK i \in 1..n : list[i] = h
      BY <1>8, <2>1
    <3> QED BY <2>1, <3>1
  <2>6. f \in Bijection(T, Heavy(ledger, S, v))
    BY <2>3, <2>4, <2>5 DEF Bijection, Injection, Surjection, IsInjective
  <2>7. Cardinality(Heavy(ledger, S, v)) = Cardinality(T)
    BY <2>2, <2>6, FS_Bijection DEF ExistsBijection
  <2> QED BY <2>7 DEF AtLeast, T
<1> QED BY <1>11, <1>12 DEF Largest, n

\* The hours that are over and were read.
Closed == {h \in 1..Hours : ledger[h].count > 0 /\ h # sample.hour}

\* The tracker never runs ahead of the calendar, the ledger of this month is only of its hours so
\* far, and the sample is the ledger's line of its hour.
Booked ==
    /\ tariffMonth <= month
    /\ \A h \in 1..Hours : /\ ledger[h].hour = h
                           /\ ledger[h].count = 0 => ledger[h] = [NoSample EXCEPT !.hour = h]
    /\ tariffMonth # -1 =>
         sample.hour \in 1..Hours /\ sample.count > 0 /\ sample = ledger[sample.hour]
    /\ tariffMonth = month =>
         /\ \A h \in 1..Hours : ledger[h].count > 0 => h <= clock
         /\ ledger[clock].count > 0 => sample.hour = clock

\* The inductive invariant of the tariff: the peaks are those of the hours that are closed.
TariffInv == TariffTypeOK /\ Booked /\ Largest(peaks, ledger, Closed)

\* An empty list holds the peaks of no hours.
LEMMA NoneLargest ==
    ASSUME NEW l
    PROVE  Largest(<<>>, l, {})
<1>1. Cardinality({}) = 0 /\ AtMostTop(0) = 0
  BY TariffAssumption, FS_EmptySet DEF AtMostTop
<1>2. \A v \in Nat : Heavy(l, {}, v) = {} /\ AtLeast(<<>>, v) = 0
  <2>1. \A v \in Nat : Heavy(l, {}, v) = {} /\ Reaching(<<>>, v) = {}
    BY DEF Heavy, Reaching
  <2> QED BY <1>1, <2>1 DEF AtLeast
<1>3. <<>> \in Seq(Nat) /\ Len(<<>>) = 0 /\ Descends(<<>>)
  BY DEF Descends
<1> QED BY <1>1, <1>2, <1>3 DEF Largest

\* One hour more.
LEMMA OneMore ==
    ASSUME NEW S \in SUBSET (1..Hours), NEW g \in (1..Hours) \ S, NEW s,
           Largest(s, ledger, S), Weighted(ledger[g]) \in Nat
    PROVE  Largest(Kept(s, Weighted(ledger[g])), ledger, S \cup {g})
<1> DEFINE x == Weighted(ledger[g])
           k == Kept(s, x)
<1>1. IsFiniteSet(S) /\ Cardinality(S) \in Nat /\ Cardinality(S \cup {g}) = Cardinality(S) + 1
  <2>1. IsFiniteSet(1..Hours)
    BY TariffAssumption, FS_Interval
  <2>2. IsFiniteSet(S)
    BY <2>1, FS_Subset
  <2> QED BY <2>2, FS_CardinalityType, FS_AddElement
<1>2. /\ s \in Seq(Nat) /\ Len(s) = AtMostTop(Cardinality(S))
      /\ \A v \in Nat : AtLeast(s, v) = AtMostTop(Cardinality(Heavy(ledger, S, v)))
  BY DEF Largest
<1> HIDE DEF x
<1>3. x \in Nat
  BY DEF x
<1>4. /\ k \in Seq(Nat) /\ Descends(k) /\ Len(k) = AtMostTop(Len(s) + 1)
      /\ \A v \in Nat : AtLeast(k, v) = AtMostTop(AtLeast(s, v) + (IF x >= v THEN 1 ELSE 0))
  BY <1>2, <1>3, KeptOf
<1> HIDE DEF k
<1>5. TopN \in Nat /\ TopN > 0
  BY TariffAssumption
<1>6. Len(k) = AtMostTop(Cardinality(S \cup {g}))
  BY <1>1, <1>2, <1>4, <1>5 DEF AtMostTop
<1>7. ASSUME NEW v \in Nat PROVE AtLeast(k, v) = AtMostTop(Cardinality(Heavy(ledger, S \cup {g}, v)))
  <2> DEFINE H == Heavy(ledger, S, v)
             n == Cardinality(H)
             G == Heavy(ledger, S \cup {g}, v)
  <2>1. H \in SUBSET S /\ g \notin H /\ G = IF x >= v THEN H \cup {g} ELSE H
    BY DEF Heavy, x
  <2> HIDE DEF H, G
  <2>2. IsFiniteSet(H) /\ n \in Nat /\ Cardinality(H \cup {g}) = n + 1
    <3>1. IsFiniteSet(H)
      BY <1>1, <2>1, FS_Subset
    <3> QED BY <2>1, <3>1, FS_CardinalityType, FS_AddElement
  <2>3. Cardinality(G) = n + (IF x >= v THEN 1 ELSE 0)
    BY <2>1, <2>2
  <2>4. AtLeast(k, v) = AtMostTop(AtMostTop(n) + (IF x >= v THEN 1 ELSE 0))
    BY <1>2, <1>4 DEF H
  <2> HIDE DEF n
  <2>5. n \in Nat
    BY <2>2
  <2>6. AtLeast(k, v) = AtMostTop(Cardinality(G))
    BY <1>5, <2>3, <2>4, <2>5 DEF AtMostTop
  <2> QED BY <2>6 DEF G
<1> QED BY <1>4, <1>6, <1>7 DEF Largest, k, x

\* A ledger that differs elsewhere has the same peaks.
LEMMA SameLargest ==
    ASSUME NEW S, NEW s, NEW l, NEW m, Largest(s, l, S), \A h \in S : m[h] = l[h]
    PROVE  Largest(s, m, S)
<1>1. \A v \in Nat : Heavy(m, S, v) = Heavy(l, S, v)
  BY DEF Heavy
<1> QED BY <1>1 DEF Largest

\* Two lists of the peaks of the same hours are the same.
LEMMA LargestUnique ==
    ASSUME NEW S, NEW l, NEW s, NEW t, Largest(s, l, S), Largest(t, l, S)
    PROVE  s = t
<1>1. /\ s \in Seq(Nat) /\ t \in Seq(Nat) /\ Descends(s) /\ Descends(t) /\ Len(s) = Len(t)
      /\ \A v \in Nat : AtLeast(s, v) = AtLeast(t, v)
  BY DEF Largest
<1> QED BY <1>1, SameNumbers

\* It begins so.
LEMMA TariffStarts == TariffInit => TariffInv
<1> SUFFICES ASSUME TariffInit PROVE TariffInv
  OBVIOUS
<1>2. TariffTypeOK
  <2>1. NoSample \in HourSample /\ EmptyLedger \in [1..Hours -> HourSample]
    BY TariffAssumption DEF NoSample, EmptyLedger, HourSample
  <2>2. <<>> \in Seq(Nat) /\ Len(<<>>) = 0
    OBVIOUS
  <2>3. month \in 0..LastMonth /\ tariffMonth \in -1..LastMonth /\ clock \in 1..Hours
    BY TariffAssumption DEF TariffInit
  <2>4. Len(peaks) <= TopN /\ peaks \in Seq(Nat)
    BY <2>2, TariffAssumption DEF TariffInit
  <2> QED BY <2>1, <2>3, <2>4 DEF TariffInit, TariffTypeOK
<1>3. Booked
  BY TariffAssumption DEF Booked, TariffInit, EmptyLedger, NoSample
<1>4. peaks = <<>> /\ Closed = {}
  BY DEF TariffInit, Closed, EmptyLedger, NoSample
<1> QED BY <1>2, <1>3, <1>4, NoneLargest DEF TariffInv

\* A reading more in a sample.
LEMMA AddedType ==
    ASSUME NEW s \in HourSample, s.count < Samples, NEW kw \in Import
    PROVE  /\ Added(s, kw) \in HourSample
           /\ Added(s, kw).hour = s.hour /\ Added(s, kw).count = s.count + 1
<1> DEFINE more == IF kw > 0 THEN kw ELSE 0
<1>1. more \in Nat /\ Samples \in Nat
  BY TariffAssumption
<1> HIDE DEF more
<1>2. Added(s, kw) = [s EXCEPT !.sum = @ + more, !.count = @ + 1]
  BY DEF Added, more
<1>3. /\ s = [hour |-> s.hour, sum |-> s.sum, count |-> s.count]
      /\ s.hour \in 0..Hours /\ s.sum \in Nat /\ s.count \in 0..Samples
  BY DEF HourSample
<1>4. Added(s, kw) = [hour |-> s.hour, sum |-> s.sum + more, count |-> s.count + 1]
  BY <1>2, <1>3
<1> QED BY <1>1, <1>3, <1>4 DEF HourSample

\* What a fresh start leaves of the ledger.
LEMMA EmptyBook ==
    /\ EmptyLedger \in [1..Hours -> HourSample]
    /\ \A h \in 1..Hours : /\ EmptyLedger[h] = [NoSample EXCEPT !.hour = h]
                           /\ EmptyLedger[h].hour = h /\ EmptyLedger[h].count = 0
  BY TariffAssumption DEF EmptyLedger, NoSample, HourSample

\* A reading, and the end of the hour before it.
LEMMA UpdateStep ==
    ASSUME TariffInv, NEW kw \in Import, Update(kw)
    PROVE  TariffInv'
<1> DEFINE none == [NoSample EXCEPT !.hour = clock]
           book == IF tariffMonth # month THEN EmptyLedger ELSE ledger
<1>1. /\ TariffTypeOK /\ Booked
      /\ Hours \in Nat /\ Hours > 0 /\ Samples \in Nat /\ Samples > 0 /\ TopN \in Nat /\ LastMonth \in Nat
  BY TariffAssumption DEF TariffInv
<1>2. /\ clock \in 1..Hours /\ month \in 0..LastMonth /\ sample \in HourSample
      /\ ledger \in [1..Hours -> HourSample] /\ peaks \in Seq(Nat) /\ Len(peaks) <= TopN
  BY <1>1 DEF TariffTypeOK
<1>3. /\ book[clock].count < Samples /\ tariffMonth' = month
      /\ month' = month /\ clock' = clock
      /\ ledger' = [book EXCEPT ![clock] = Added(book[clock], kw)]
  BY DEF Update
<1>4. /\ none \in HourSample /\ none.hour = clock /\ none.count = 0
      /\ Added(none, kw) \in HourSample
      /\ Added(none, kw).hour = clock /\ Added(none, kw).count = 1
  <2>1. none \in HourSample /\ none.hour = clock /\ none.count = 0
    BY <1>1, <1>2, SMTT(20) DEF NoSample, HourSample
  <2>2. none.count < Samples
    BY <1>1, <2>1
  <2> HIDE DEF none
  <2> QED BY <2>1, <2>2, AddedType
<1>5. /\ book \in [1..Hours -> HourSample]
      /\ \A h \in 1..Hours : /\ book[h].hour = h
                             /\ book[h].count = 0 => book[h] = [NoSample EXCEPT !.hour = h]
                             /\ book[h].count > 0 => h <= clock
  <2>1. CASE tariffMonth # month
    BY <2>1, EmptyBook
  <2>2. CASE tariffMonth = month
    BY <1>1, <1>2, <2>2 DEF Booked
  <2> QED BY <2>1, <2>2
<1> HIDE DEF book
<1>6. /\ ledger'[clock] = Added(book[clock], kw) /\ ledger' \in [1..Hours -> HourSample]
      /\ ledger'[clock].hour = clock /\ ledger'[clock].count = book[clock].count + 1
      /\ \A h \in 1..Hours : h # clock => ledger'[h] = book[h]
  <2>1. book[clock] \in HourSample /\ book[clock].hour = clock
    BY <1>2, <1>5
  <2> QED BY <1>2, <1>3, <1>5, <2>1, AddedType
<1>7. book[clock].count \in Nat /\ (book[clock].count = 0 => book[clock] = none)
  <2>1. book[clock] \in HourSample
    BY <1>2, <1>5
  <2> QED BY <1>2, <1>5, <2>1 DEF HourSample
<1>8. ASSUME sample' \in HourSample, peaks' \in Seq(Nat), Len(peaks') <= TopN
      PROVE  TariffTypeOK'
  <2>1. tariffMonth' \in -1..LastMonth
    BY <1>1, <1>2, <1>3
  <2> QED BY <1>2, <1>3, <1>6, <1>8, <2>1 DEF TariffTypeOK
<1>9. ASSUME sample' = ledger'[clock]
      PROVE  /\ Booked' /\ sample'.hour = clock /\ sample'.count > 0 /\ sample' \in HourSample
             /\ Closed' = {h \in 1..Hours : book[h].count > 0 /\ h # clock}
  <2>1. sample'.hour = clock /\ sample'.count > 0 /\ sample' \in HourSample
    BY <1>2, <1>6, <1>7, <1>9
  <2>2. \A h \in 1..Hours : /\ ledger'[h].hour = h /\ (ledger'[h].count > 0 => h <= clock')
                            /\ ledger'[h].count = 0 => ledger'[h] = [NoSample EXCEPT !.hour = h]
    <3> TAKE h \in 1..Hours
    <3>1. CASE h = clock
      BY <1>2, <1>3, <1>6, <1>7, <3>1
    <3>2. CASE h # clock
      <4>1. ledger'[h] = book[h]
        BY <1>6, <3>2
      <4> QED BY <1>3, <1>5, <4>1
    <3> QED BY <3>1, <3>2
  <2>3. tariffMonth' = month' /\ tariffMonth' <= month'
    BY <1>2, <1>3
  <2>4. Closed' = {h \in 1..Hours : book[h].count > 0 /\ h # clock}
    BY <1>6, <2>1 DEF Closed
  <2> QED BY <1>2, <1>3, <1>9, <2>1, <2>2, <2>3, <2>4 DEF Booked
<1>10. CASE tariffMonth # month
  <2>1. peaks' = <<>> /\ sample' = Added(none, kw)
    BY <1>2, <1>10 DEF Update, NoSample
  <2>2. /\ \A h \in 1..Hours : book[h].count = 0
        /\ book[clock] = none
    BY <1>2, <1>7, <1>10, EmptyBook DEF book
  <2>3. sample' = ledger'[clock]
    BY <1>6, <2>1, <2>2
  <2>4. Closed' = {} /\ Booked' /\ sample' \in HourSample
    BY <1>9, <2>2, <2>3
  <2>5. TariffTypeOK'
    <3>1. <<>> \in Seq(Nat) /\ Len(<<>>) = 0
      OBVIOUS
    <3> QED BY <1>1, <1>8, <2>1, <2>4, <3>1
  <2>6. Largest(peaks', ledger', Closed')
    <3>1. Largest(<<>>, ledger', {})
      BY NoneLargest
    <3> QED BY <2>1, <2>4, <3>1
  <2> QED BY <2>4, <2>5, <2>6 DEF TariffInv
<1>11. CASE tariffMonth = month /\ sample.hour = clock
  <2>1. peaks' = peaks /\ sample' = Added(sample, kw) /\ book = ledger
    BY <1>11 DEF Update, book
  <2>2. sample = ledger[clock]
    BY <1>1, <1>2, <1>11 DEF Booked
  <2>3. sample' = ledger'[clock]
    BY <1>6, <2>1, <2>2
  <2>4. Closed' = Closed /\ Booked' /\ sample' \in HourSample
    <3>1. Closed = {h \in 1..Hours : book[h].count > 0 /\ h # clock}
      BY <1>11, <2>1 DEF Closed
    <3> QED BY <1>9, <2>3, <3>1
  <2>5. TariffTypeOK'
    BY <1>2, <1>8, <2>1, <2>4
  <2>6. Largest(peaks', ledger', Closed')
    <3>1. Largest(peaks, ledger, Closed)
      BY DEF TariffInv
    <3>2. \A h \in Closed : ledger'[h] = ledger[h]
      BY <1>6, <1>11, <2>1 DEF Closed
    <3>3. Largest(peaks, ledger', Closed)
      BY <3>1, <3>2, SameLargest
    <3> QED BY <2>1, <2>4, <3>3
  <2> QED BY <2>4, <2>5, <2>6 DEF TariffInv
<1>12. CASE tariffMonth = month /\ sample.hour # clock
  <2> DEFINE g == sample.hour
  <2>1. /\ g \in 1..Hours /\ sample.count > 0 /\ sample = ledger[g] /\ book = ledger
        /\ book[clock].count = 0 /\ book[clock] = none /\ ~(book[clock].count > 0)
    <3>1. g \in 1..Hours /\ sample.count > 0 /\ sample = ledger[g] /\ ~(ledger[clock].count > 0)
      BY <1>1, <1>2, <1>12 DEF Booked
    <3>2. book = ledger
      BY <1>12 DEF book
    <3> QED BY <1>7, <3>1, <3>2
  <2>2. peaks' = Kept(peaks, Weighted(sample)) /\ sample' = Added(none, kw)
    BY <1>12, <2>1 DEF Update
  <2>3. Weighted(sample) \in Nat
    BY <1>2, <2>1, WeightedType
  <2>4. peaks' \in Seq(Nat) /\ Len(peaks') <= TopN
    <3>1. peaks' \in Seq(Nat) /\ Len(peaks') = AtMostTop(Len(peaks) + 1) /\ Len(peaks) \in Nat
      BY <1>2, <2>2, <2>3, KeptOf
    <3> QED BY <1>1, <3>1 DEF AtMostTop
  <2>5. sample' = ledger'[clock]
    BY <1>6, <2>1, <2>2
  <2>6. Booked' /\ sample' \in HourSample /\ Closed' = Closed \cup {g}
    <3>1. \A h \in 1..Hours : h \in Closed \cup {g} <=> (book[h].count > 0 /\ h # clock)
      <4> TAKE h \in 1..Hours
      <4>1. CASE h = g
        BY <1>12, <2>1, <4>1
      <4>2. CASE h = clock
        BY <1>12, <2>1, <4>2 DEF Closed
      <4>3. CASE h # g /\ h # clock
        BY <2>1, <4>3 DEF Closed
      <4> QED BY <4>1, <4>2, <4>3
    <3>2. Closed \cup {g} \subseteq 1..Hours
      BY <2>1 DEF Closed
    <3>3. Closed \cup {g} = {h \in 1..Hours : book[h].count > 0 /\ h # clock}
      <4> DEFINE P(h) == book[h].count > 0 /\ h # clock
      <4>1. \A h \in 1..Hours : h \in Closed \cup {g} <=> P(h)
        BY <3>1
      <4> HIDE DEF P
      <4>2. Closed \cup {g} = {h \in 1..Hours : P(h)}
        BY <3>2, <4>1
      <4> QED BY <4>2 DEF P
    <3> QED BY <1>9, <2>5, <3>3
  <2>7. TariffTypeOK'
    BY <1>8, <2>4, <2>6
  <2>8. Largest(peaks', ledger', Closed')
    <3>1. Largest(peaks, ledger, Closed)
      BY DEF TariffInv
    <3>2. Closed \in SUBSET (1..Hours) /\ g \in (1..Hours) \ Closed
      BY <2>1 DEF Closed
    <3>3. Largest(peaks', ledger, Closed \cup {g})
      BY <2>1, <2>2, <2>3, <3>1, <3>2, OneMore
    <3>4. clock \notin Closed \cup {g}
      <4>1. ~(ledger[clock].count > 0) /\ clock # g
        BY <1>12, <2>1
      <4> QED BY <4>1 DEF Closed
    <3>5. \A h \in Closed \cup {g} : ledger'[h] = ledger[h]
      BY <1>6, <2>1, <3>2, <3>4
    <3>6. Largest(peaks', ledger', Closed \cup {g})
      BY <3>3, <3>5, SameLargest
    <3> QED BY <2>6, <3>6
  <2> QED BY <2>6, <2>7, <2>8 DEF TariffInv
<1> QED BY <1>10, <1>11, <1>12

\* Every step keeps it.
LEMMA TariffStep == TariffInv /\ [TariffNext]_tariffVars => TariffInv'
<1> SUFFICES ASSUME TariffInv, [TariffNext]_tariffVars PROVE TariffInv'
  OBVIOUS
<1>1. /\ TariffTypeOK /\ Booked /\ Largest(peaks, ledger, Closed)
      /\ Hours \in Nat /\ Hours > 0 /\ TopN \in Nat /\ LastMonth \in Nat
  BY TariffAssumption DEF TariffInv
<1>2. /\ clock \in 1..Hours /\ month \in 0..LastMonth /\ tariffMonth \in -1..LastMonth
      /\ ledger \in [1..Hours -> HourSample]
  BY <1>1 DEF TariffTypeOK
<1>3. CASE NextTariffHour
  <2>0. UNCHANGED <<tariffMonth, peaks, sample, ledger>> /\ Closed' = Closed
    BY <1>3 DEF NextTariffHour, Closed
  <2>1. CASE clock = Hours
    <3>1. clock' = 1 /\ month' = month + 1 /\ month < LastMonth
      BY <1>1, <1>3, <2>1 DEF NextTariffHour
    <3>2. TariffTypeOK'
      <4>1. month' \in 0..LastMonth /\ clock' \in 1..Hours
        BY <1>1, <1>2, <3>1
      <4> QED BY <1>1, <2>0, <4>1 DEF TariffTypeOK
    <3>3. tariffMonth' <= month' /\ tariffMonth' # month'
      BY <1>1, <1>2, <2>0, <3>1 DEF Booked
    <3>4. Booked'
      BY <1>1, <2>0, <3>3 DEF Booked
    <3> QED BY <1>1, <2>0, <3>2, <3>4 DEF TariffInv
  <2>2. CASE clock # Hours
    <3>1. clock' = clock + 1 /\ month' = month
      BY <1>1, <1>2, <1>3, <2>2 DEF NextTariffHour
    <3>2. TariffTypeOK'
      BY <1>1, <1>2, <2>0, <2>2, <3>1 DEF TariffTypeOK
    <3>3. tariffMonth = month => ~(ledger[clock'].count > 0)
      <4>1. clock' \in 1..Hours /\ ~(clock' <= clock)
        BY <1>1, <1>2, <2>2, <3>1
      <4> QED BY <1>1, <4>1 DEF Booked
    <3>4. tariffMonth = month => \A h \in 1..Hours : ledger[h].count > 0 => h <= clock'
      BY <1>1, <1>2, <3>1 DEF Booked
    <3>5. Booked'
      BY <1>1, <2>0, <3>1, <3>3, <3>4 DEF Booked
    <3> QED BY <1>1, <2>0, <3>2, <3>5 DEF TariffInv
  <2> QED BY <2>1, <2>2
<1>4. CASE TariffRestart
  <2>1. /\ tariffMonth' = -1 /\ peaks' = <<>> /\ sample' = NoSample /\ ledger' = EmptyLedger
        /\ UNCHANGED <<month, clock>>
    BY <1>4 DEF TariffRestart
  <2>2. <<>> \in Seq(Nat) /\ Len(<<>>) = 0 /\ NoSample \in HourSample
    BY <1>1, TariffAssumption DEF NoSample, HourSample
  <2>3. TariffTypeOK'
    BY <1>1, <1>2, <2>1, <2>2, EmptyBook DEF TariffTypeOK
  <2>4. tariffMonth' # month' /\ tariffMonth' <= month'
    BY <1>2, <2>1
  <2>5. Booked'
    BY <2>1, <2>4, EmptyBook DEF Booked
  <2>6. Closed' = {}
    BY <2>1, EmptyBook DEF Closed
  <2>7. Largest(peaks', ledger', Closed')
    <3>1. Largest(<<>>, ledger', {})
      BY NoneLargest
    <3> QED BY <2>1, <2>6, <3>1
  <2> QED BY <2>3, <2>5, <2>7 DEF TariffInv
<1>5. CASE \E kw \in Import : Update(kw)
  BY <1>5, UpdateStep
<1>6. CASE UNCHANGED tariffVars
  BY <1>6 DEF tariffVars, TariffInv, TariffTypeOK, Booked, Closed
<1> QED BY <1>3, <1>4, <1>5, <1>6 DEF TariffNext

\* The peaks, the sample and the ledger of the tariff are what they are declared to be: no more
\* than top_n peaks, never more readings in the sample than the hour had.
THEOREM TariffTyped == TariffSpec => []TariffTypeOK
<1>1. TariffInv => TariffTypeOK
  BY DEF TariffInv
<1> QED BY <1>1, TariffStarts, TariffStep, PTL DEF TariffSpec

\* EllevioTracker.update and _close_hour lose no peak of the hours since the tracker last forgot,
\* for any number of hours, of peaks and of readings: sorting after each hour and keeping only the
\* top_n never loses one that a later hour would have needed.
THEOREM PeaksHold == TariffSpec => []PeaksKept
<1>1. TariffInv => PeaksKept
  <2> SUFFICES ASSUME TariffInv PROVE peaks = Billed(Closed)
    BY DEF PeaksKept, Closed
  <2>1. Largest(peaks, ledger, Closed) /\ TariffTypeOK
    BY DEF TariffInv
  <2>2. Closed \in SUBSET (1..Hours) /\ \A h \in Closed : Weighted(ledger[h]) \in Nat
    <3>1. \A h \in Closed : ledger[h] \in HourSample /\ ledger[h].count > 0
      BY <2>1 DEF Closed, TariffTypeOK
    <3> QED BY <3>1, WeightedType DEF Closed
  <2>3. Largest(Billed(Closed), ledger, Closed)
    BY <2>2, BilledOf
  <2> QED BY <2>1, <2>3, LargestUnique
<1> QED BY <1>1, TariffStarts, TariffStep, PTL DEF TariffSpec
=============================================================================
