-------------------------- MODULE InverterContract --------------------------
(***************************************************************************)
(* What whoever writes the registers of a GoodWe ET inverter promises,     *)
(* seen from the inverter: one EMS mode and one fast_charging switch per   *)
(* battery, and how long each has been what it is.                         *)
(*                                                                         *)
(*   - charge <-> discharge goes through battery_standby, and standby is   *)
(*     left only after Dwell (B1/B2: a direct flip can hang the firmware); *)
(*     the modes of Direct are the ones it accepts from any other mode;    *)
(*   - a discharge is never started with fast_charging on, unless it came  *)
(*     on within the last Window, after the writer looked (B7, INV-3).     *)
(*                                                                         *)
(* Nothing is promised where writes are lost.  ModeChange.tla is shown to  *)
(* implement this specification.                                           *)
(***************************************************************************)
EXTENDS Naturals

CONSTANTS
    Battery,        \* the inverters, one battery each
    Mode,           \* the EMS modes in use
    Direct,         \* modes the firmware accepts from any mode
    Dwell,          \* how long the inverter is left in battery_standby
    Window,         \* how long fast_charging may go unseen
    Cap             \* bound: times stop here

VARIABLES
    reliable,       \* does every write land and every read tell the truth?
    mode,           \* mode[b]: the EMS mode of b
    fast,           \* fast[b]: its fast_charging switch
    dwell,          \* dwell[b]: time since mode[b] last changed
    lit             \* lit[b]: time since fast[b] came on, Cap when it is off

vars == <<reliable, mode, fast, dwell, lit>>

Init ==
    /\ reliable \in BOOLEAN
    /\ mode \in [Battery -> Mode]
    /\ fast \in [Battery -> BOOLEAN]
    /\ dwell = [b \in Battery |-> 0]
    /\ lit = [b \in Battery |-> Cap]

\* May the firmware be told to go to m?
MayEnter(b, m) ==
    \/ m = "battery_standby"
    \/ m \in Direct
    \/ mode[b] = "battery_standby" /\ dwell[b] >= Dwell

\* The writer moves b to the mode m.
SetMode(b, m) ==
    /\ m # mode[b]
    /\ reliable => /\ MayEnter(b, m)
                   /\ (m = "discharge_pv" /\ fast[b]) => lit[b] <= Window
    /\ mode' = [mode EXCEPT ![b] = m]
    /\ dwell' = [dwell EXCEPT ![b] = 0]
    /\ UNCHANGED <<reliable, fast, lit>>

\* fast_charging comes on: the app, the firmware, or the writer for a recovery.
FastOn(b) ==
    /\ ~fast[b]
    /\ fast' = [fast EXCEPT ![b] = TRUE]
    /\ lit' = [lit EXCEPT ![b] = 0]
    /\ UNCHANGED <<reliable, mode, dwell>>

FastOff(b) ==
    /\ fast[b]
    /\ fast' = [fast EXCEPT ![b] = FALSE]
    /\ lit' = [lit EXCEPT ![b] = Cap]
    /\ UNCHANGED <<reliable, mode, dwell>>

Older(n) == IF n + 1 < Cap THEN n + 1 ELSE Cap

Tick ==
    /\ dwell' = [b \in Battery |-> Older(dwell[b])]
    /\ lit' = [b \in Battery |-> Older(lit[b])]
    /\ UNCHANGED <<reliable, mode, fast>>

Next ==
    \/ \E b \in Battery, m \in Mode : SetMode(b, m)
    \/ \E b \in Battery : FastOn(b) \/ FastOff(b)
    \/ Tick

Spec == Init /\ [][Next]_vars

=============================================================================
