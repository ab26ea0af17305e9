-------------------------- MODULE EvChargingProofs --------------------------
(***************************************************************************)
(* EvCharging.tla for every range of currents, every length of the holds   *)
(* and pauses, and whatever the snapshots say.                             *)
(***************************************************************************)
EXTENDS EvCharging, TLAPS

USE DEF charger, snapshot, budget, night, controller

------------------------------------------------------------------------------
(* Types.                                                                  *)

\* The assumptions, one constant at a time.
LEMMA Constants ==
    /\ MinA \in Nat /\ MaxA \in Nat /\ 0 < MinA /\ MinA <= MaxA
    /\ StartA \in Nat /\ NightMax \in Nat /\ BudgetMax \in Nat
    /\ MinA <= StartA /\ StartA <= NightMax /\ MinA <= BudgetMax
    /\ UpHold \in Nat /\ DownHold \in Nat /\ NightPause \in Nat /\ RampPause \in Nat
  BY AmpsAssumption, PausesAssumption

\* The adapter never lets a current out of the charger's range.
LEMMA ClampedType ==
    ASSUME NEW a \in Int
    PROVE  Clamped(a) \in MinA..MaxA
  BY Constants DEF Clamped

\* A counter that stops at its top stays below it.
LEMMA BoundedType ==
    ASSUME NEW top \in Nat, NEW n \in 0..top
    PROVE  Bounded(n, top) \in 0..top
  BY DEF Bounded

\* The ramp of the budget stays within its range.
LEMMA EvTargetType ==
    ASSUME TypeOK, NEW e, NEW i
    PROVE  EvTarget(e, i) \in 0..BudgetMax
  <1>1. Ramp(e, i) \in 0..BudgetMax
    BY Constants DEF Ramp, TypeOK
  <1> QED BY <1>1, Constants DEF EvTarget

\* A fresh service: every counter at its start, the charger as it was found.
LEMMA TypeInit == Init => TypeOK
  <1> SUFFICES ASSUME Init
               PROVE  TypeOK
    OBVIOUS
  <1>1. enabled \in BOOLEAN /\ wasOn \in BOOLEAN
    BY DEF Init
  <1>2. /\ amps \in MinA..MaxA /\ wasAmps \in MinA..MaxA
        /\ budgetAmps \in 0..BudgetMax /\ exports \in 0..UpHold /\ imports \in 0..DownHold
        /\ nightAmps \in 0..NightMax /\ nightAge \in 0..NightPause
        /\ rampAge \in 0..RampPause
    BY Constants DEF Init
  <1> QED BY <1>1, <1>2 DEF Init, TypeOK

\* Every step of the cycle and a restart keep the types.
LEMMA TypeStep == TypeOK /\ [Next]_vars => TypeOK'
  <1> SUFFICES ASSUME TypeOK, [Next]_vars
               PROVE  TypeOK'
    OBVIOUS
  <1>1. CASE Sense
    BY <1>1, PausesAssumption, BoundedType DEF Sense, TypeOK
  <1>2. CASE Guard
    BY <1>2 DEF Guard, TypeOK
  <1>3. CASE Budget
    <2>1. budgetAmps' \in 0..BudgetMax
      BY <1>3, EvTargetType DEF Budget
    <2>2. exports' \in 0..UpHold /\ imports' \in 0..DownHold
      BY <1>3, PausesAssumption, BoundedType DEF Budget, TypeOK
    <2>3. budgetAmps' \in Int
      BY <2>1, Constants
    <2>4. amps' \in MinA..MaxA
      BY <1>3, <2>3, ClampedType DEF Budget, TypeOK
    <2>5. intended' \in BOOLEAN
      <3>1. intended' = intended \/ intended' = (budgetAmps' > 0)
        BY <1>3 DEF Budget
      <3>2. intended \in BOOLEAN
        BY DEF TypeOK
      <3>3. (budgetAmps' > 0) \in BOOLEAN
        BY <2>3
      <3> QED BY <3>1, <3>2, <3>3
    <2>6. enabled' \in BOOLEAN
      BY <1>3, <2>5 DEF Budget, TypeOK
    <2> QED BY <1>3, <2>1, <2>2, <2>4, <2>5, <2>6 DEF Budget, TypeOK
  <1>4. CASE NightEv
    <2>1. /\ nightAmps' \in 0..NightMax /\ amps' \in MinA..MaxA
          /\ enabled' \in BOOLEAN
      <3>1. CASE ~view.nightEv
        BY <1>4, <3>1 DEF NightEv, TypeOK
      <3>2. CASE NightStop
        BY <3>2, Constants DEF NightStop, TypeOK
      <3>3. CASE NightUnplugged
        BY <3>3, Constants DEF NightUnplugged, TypeOK
      <3>4. CASE NightStart
        <4>1. Clamped(StartA) \in MinA..MaxA
          BY ClampedType, Constants
        <4> QED BY <3>4, <4>1, Constants DEF NightStart, TypeOK
      <3>5. CASE NightRamp
        <4>1. nightAmps' \in 0..NightMax
          BY <3>5, Constants DEF NightRamp, TypeOK
        <4>2. nightAmps' \in Int
          BY <4>1, Constants
        <4> QED BY <3>5, <4>1, <4>2, ClampedType DEF NightRamp, TypeOK
      <3>6. CASE NightHold
        BY <3>6 DEF NightHold, TypeOK
      <3> QED BY <1>4, <3>1, <3>2, <3>3, <3>4, <3>5, <3>6 DEF NightEv
    <2>2. nightAge' \in 0..NightPause
      BY <1>4, PausesAssumption DEF NightEv, TypeOK
    <2> QED BY <1>4, <2>1, <2>2 DEF NightEv, TypeOK
  <1>5. CASE Controller
    <2>1. lastSoc' \in Reading \cup {"none"}
      BY <1>5, PausesAssumption DEF Controller, TypeOK, View
    <2>2. enabled' \in BOOLEAN
      BY <1>5 DEF Controller, TypeOK
    <2>3. rampAge' \in 0..RampPause
      BY <1>5, PausesAssumption DEF Controller, TypeOK
    <2>4. wasConnected' \in BOOLEAN
      BY <1>5, PausesAssumption DEF Controller, Connected, TypeOK, View
    <2> QED BY <1>5, <2>1, <2>2, <2>3, <2>4 DEF Controller, TypeOK
  <1>6. CASE Restart
    <2>1. /\ budgetAmps' \in 0..BudgetMax /\ exports' \in 0..UpHold
          /\ imports' \in 0..DownHold /\ nightAmps' \in 0..NightMax
          /\ nightAge' \in 0..NightPause /\ rampAge' \in 0..RampPause
      BY <1>6, Constants DEF Restart
    <2> QED BY <1>6, <2>1 DEF Restart, TypeOK
  <1>7. CASE UNCHANGED vars
    BY <1>7 DEF vars, TypeOK
  <1> QED BY <1>1, <1>2, <1>3, <1>4, <1>5, <1>6, <1>7 DEF Next, Cycle

(* The currents of the charger, of the budget and of the night controller   *)
(* stay within their ranges, whatever the snapshots say and whenever the    *)
(* service is restarted.                                                    *)
THEOREM EvTypeCorrect == Spec => []TypeOK
  BY TypeInit, TypeStep, PTL DEF Spec

------------------------------------------------------------------------------
(* What the budget believes.                                               *)

\* Only the night controller sets a current that the budget does not know of; when
\* its turn comes at night, the budget has forgotten its own.
NightForgets == (pc = "night" /\ IsNight) => budgetAmps = 0

Believed == TypeOK /\ BudgetAmpsTrue /\ NightForgets

\* The start: the budget believes nothing.
LEMMA BelievedInit == Init => Believed
  BY TypeInit, Constants DEF Init, Believed, BudgetAmpsTrue, NightForgets

\* Every step keeps the belief true.
LEMMA BelievedStep == Believed /\ [Next]_vars => Believed'
  <1> SUFFICES ASSUME Believed, [Next]_vars
               PROVE  BudgetAmpsTrue' /\ NightForgets'
    BY TypeStep DEF Believed
  <1> USE DEF Believed, BudgetAmpsTrue, NightForgets, IsNight
  <1>1. CASE Sense
    BY <1>1 DEF Sense
  <1>2. CASE Guard
    BY <1>2 DEF Guard
  <1>3. CASE Budget
    <2>1. CASE IsNight
      BY <1>3, <2>1, Constants DEF Budget, EvTarget
    <2>2. CASE ~IsNight
      <3>1. CASE budgetAmps' > 0 /\ budgetAmps' # budgetAmps
        BY <1>3, <2>2, <3>1 DEF Budget
      <3>2. CASE ~(budgetAmps' > 0 /\ budgetAmps' # budgetAmps)
        BY <1>3, <2>2, <3>2 DEF Budget
      <3> QED BY <3>1, <3>2
    <2> QED BY <2>1, <2>2
  <1>4. CASE NightEv
    <2>1. CASE IsNight
      BY <1>4, <2>1, Constants DEF NightEv
    <2>2. CASE ~IsNight
      <3>1. amps' = amps
        BY <1>4, <2>2 DEF NightEv, NightStop, NightUnplugged, NightStart,
                          NightRamp, NightHold, NightWanted
      <3> QED BY <1>4, <3>1 DEF NightEv
    <2> QED BY <2>1, <2>2
  <1>5. CASE Controller
    BY <1>5 DEF Controller
  <1>6. CASE Restart
    BY <1>6, Constants DEF Restart
  <1>7. CASE UNCHANGED vars
    BY <1>7 DEF vars
  <1> QED BY <1>1, <1>2, <1>3, <1>4, <1>5, <1>6, <1>7 DEF Next, Cycle

(* What the budget believes it wrote last is what the charger is set to,    *)
(* across nights, handovers and restarts.                                   *)
THEOREM BudgetAmpsHolds == Spec => []BudgetAmpsTrue
  <1>1. Believed => BudgetAmpsTrue
    BY DEF Believed
  <1> QED BY <1>1, BelievedInit, BelievedStep, PTL DEF Spec
=============================================================================
