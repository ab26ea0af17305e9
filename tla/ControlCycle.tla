---------------------------- MODULE ControlCycle ----------------------------
(***************************************************************************)
(* One control cycle of core/engine.py: run_cycle, from the snapshot to    *)
(* the mode-change manager, with everything in it that moves a battery:    *)
(*                                                                         *)
(*   idle    --StartCycle-->   the snapshot is taken, the guards evaluated *)
(*   guard   --GuardWrite-->   their commands, straight to the inverters   *)
(*   guard   --Decide-->       budget and battery support decide           *)
(*   execute --ExecuteXxx-->   their commands, through the executor        *)
(*   process --ProcessOne-->   the manager takes up each request ...       *)
(*   process --ProcessCall-->  ... and awaits the calls of its step        *)
(*   plan    --NightPlan-->    main.py: the night plan, then the sleep     *)
(*                                                                         *)
(* Every step awaits Home Assistant, so each is one action and the world   *)
(* may move in between; only the control loop writes the inverters.  The   *)
(* decisions use the snapshot (seen, read, site), never the registers.     *)
(*                                                                         *)
(* zero_grid's arithmetic is abstracted to what it decides for a battery:  *)
(* its share of the correction says charge, discharge or neither (wish),   *)
(* at some power.  Its SoC clamps and its emergency recovery are kept.     *)
(***************************************************************************)
EXTENDS Guards

CONSTANTS
    Order,              \* the batteries, in the order of the snapshot
    Mode, Limit, SkipClear, SkipStandby, EmergencyTarget,
    ClearWait, StandbyWait, SetWait, VerifyWait,
    MaxRetries, PruneAge, AgeCap,
    Reliable,           \* does every write land, every read tell the truth?
    Cooldown,           \* mode_change_cooldown_s, in cycles
    SocMin, SocMax,     \* bat_discharge_min_soc_pct, bat_charge_stop_soc_pct
    SocBuffer,          \* BatLimits.soc_min_buffer_pct
    MaxCharge,          \* bat_default_max_charge_w
    Power,              \* what zero_grid and bat_support ask of a battery
    Readings,           \* what the sensors may say of a battery
    Sites,              \* what they may say of the site
    CycleTicks,         \* how long a cycle may take, in units of the timers
    Restarts, Drifts    \* may the service restart, may fast_charging drift?

Battery == ToSet(Order)

Temp == {"warm", "cold", "freezing"}
Soh  == {"good", "worn", "bad"}
Wish == {"charge", "discharge", "none"}

Reading == [soc : 0..100, temp : Temp, soh : Soh, pv : BOOLEAN,
            charging : BOOLEAN, wish : Wish, support : BOOLEAN]

\* steady: the 5-minute average of the grid power is within stability_w of 0
\* nightPlan: the night plan charges the batteries at this hour
Site == [grid : {"ok", "warning", "breach", "critical"}, gridCharge : BOOLEAN,
         late : BOOLEAN, steady : BOOLEAN, nightPlan : BOOLEAN]

ASSUME CycleAssumption ==
    /\ Order \in Seq(Battery) /\ Battery # {}
    /\ Readings \subseteq Reading /\ Sites \subseteq Site
    /\ {SocMin, SocMax, SocBuffer, Cooldown} \subseteq Nat
    /\ {0, Power, MaxCharge, EmergencyLimit} \subseteq Limit
    /\ CycleTicks \subseteq Nat \ {0} /\ CycleTicks # {}

\* What ModeChange assumes of these constants.
ASSUME ProtocolAssumption ==
    /\ {"battery_standby", "charge_pv", "charge_battery", "discharge_pv"} \subseteq Mode
    /\ SkipClear \cup SkipStandby \cup EmergencyTarget \subseteq Mode
    /\ "discharge_pv" \notin SkipClear \cup SkipStandby \cup EmergencyTarget
    /\ Limit \subseteq Nat
    /\ {ClearWait, StandbyWait, SetWait, VerifyWait, PruneAge} \subseteq Nat
    /\ AgeCap \in Nat
    /\ \A w \in {ClearWait, StandbyWait, SetWait, VerifyWait, PruneAge} : w < AgeCap
    /\ MaxRetries \in Nat \ {0}
    /\ Reliable \in BOOLEAN

VARIABLES
    req, await, inv,    \* requests, the call awaited, registers: see ModeChange
    pc,         \* the phase of the cycle
    cmds,       \* commands of the phase still to execute
    todo,       \* requests process() has still to look at
    read, site, \* the sensors of the snapshot
    seen,       \* the registers of the snapshot
    atFloor,    \* GridGuard._at_floor
    since,      \* executor: time since the last accepted mode change
    drifted     \* batteries whose fast_charging came on since the snapshot

requests == <<req, await>>
snapshot == <<read, site, seen, atFloor>>
vars == <<requests, inv, pc, cmds, todo, snapshot, since, drifted>>

\* The timers stand still during a cycle: its time passes in Sleep.
Manager == INSTANCE ModeChange WITH
    Faults <- {~Reliable}, faulty <- ~Reliable, MaxCalls <- 0, calls <- 0,
    CallTime <- 0, took <- [b \in Battery |-> 0], dwell <- [b \in Battery |-> 0],
    lit <- [b \in Battery |-> IF inv[b].fc THEN 0 ELSE AgeCap]

Register == Manager!Register

\* The commands for the inverters, and what is left of one for discharge_pv after its B7 check.
Checked(c) == [c EXCEPT !.on = TRUE]

Command ==    {SetMode(b, m) : b \in Battery, m \in Mode}
         \cup {SetLimit(b, w) : b \in Battery, w \in Limit}
         \cup {SetFast(b, on) : b \in Battery, on \in BOOLEAN}
         \cup {Checked(SetMode(b, "discharge_pv")) : b \in Battery}

TypeOK ==
    /\ req \in [Battery -> Manager!Request]
    /\ await \in [Battery -> Manager!Awaited]
    /\ inv \in [Battery -> Register]
    /\ seen \in [Battery -> Register]
    /\ pc \in {"idle", "guard", "execute", "process", "plan", "sleep"}
    /\ cmds \in Seq(Command)
    /\ todo \subseteq Battery /\ atFloor \subseteq Battery /\ drifted \subseteq Battery
    /\ read \in [Battery -> Readings] /\ site \in Sites
    /\ since \in [Battery -> 0..Cooldown]

\* A service that has just started: since = Cooldown stands for "no mode
\* change yet".
Init ==
    /\ req = [b \in Battery |-> Manager!NoRequest]
    /\ await = [b \in Battery |-> "none"]
    /\ inv \in [Battery -> Register]
    /\ seen = inv
    /\ pc = "idle" /\ cmds = <<>> /\ todo = {}
    /\ read \in [Battery -> Readings] /\ site \in Sites
    /\ atFloor = {} /\ drifted = {}
    /\ since = [b \in Battery |-> Cooldown]

\* What the guards and the controllers know of b.
Snap(b) == [mode |-> seen[b].mode, limit |-> seen[b].limit, fc |-> seen[b].fc,
            soc |-> read[b].soc, temp |-> read[b].temp, soh |-> read[b].soh,
            pv |-> read[b].pv, charging |-> read[b].charging]

Snapshot == [b \in Battery |-> Snap(b)]

------------------------------------------------------------------------------
(* Phase 1: the guards.                                                    *)

StartCycle ==
    /\ pc = "idle"
    /\ read' \in [Battery -> Readings]
    /\ site' \in Sites
    /\ seen' = inv
    /\ atFloor' = AtFloor(atFloor, Snapshot')
    /\ cmds' = GuardCommands(Order, Snapshot', site', atFloor')
    /\ pc' = "guard"
    /\ drifted' = {}
    /\ UNCHANGED <<requests, inv, todo, since>>

\* What one command writes into the registers r.
Written(c, r) ==
    CASE c.type = "mode"  -> [mode : Manager!Outcome(c.mode, r.mode), limit : {r.limit}, fc : {r.fc}]
      [] c.type = "limit" -> [mode : {r.mode}, limit : Manager!Outcome(c.watts, r.limit), fc : {r.fc}]
      [] c.type = "fast"  -> [mode : {r.mode}, limit : {r.limit}, fc : Manager!Outcome(c.on, r.fc)]

WriteHead ==
    LET c == Head(cmds)
    IN  \E r \in Written(c, inv[c.target]) : inv' = [inv EXCEPT ![c.target] = r]

\* execute_guard_commands: the next command, straight to the inverter.
GuardWrite ==
    /\ pc = "guard" /\ cmds # <<>>
    /\ WriteHead
    /\ cmds' = Tail(cmds)
    /\ UNCHANGED <<requests, pc, todo, snapshot, since, drifted>>

\* Phase 2: FREEZE ends run_cycle here.
Freeze ==
    /\ pc = "guard" /\ cmds = <<>>
    /\ Frozen(site)
    /\ pc' = "plan"
    /\ UNCHANGED <<requests, inv, cmds, todo, snapshot, since, drifted>>

------------------------------------------------------------------------------
(* Phase 4: the budget and, in NIGHT_EV, the battery support.              *)

\* plan_zero_grid: a battery below the absolute floor is force-charged.
BelowFloor(b) == read[b].soc < SocMin

MayCharge(b)    == read[b].wish = "charge" /\ read[b].soc < SocMax
\* Mutant: the SoC clamp of the discharge is forgotten.
MayDischargeToZero(b) == read[b].wish = "discharge"

MayDischarge(b) == read[b].wish = "discharge" /\ read[b].soc > SocMin + SocBuffer

Plan(b) ==
    CASE BelowFloor(b) -> [mode |-> "charge_battery", limit |-> MaxCharge]
      [] ~BelowFloor(b) /\ MayCharge(b) -> [mode |-> "charge_battery", limit |-> Power]
      [] ~BelowFloor(b) /\ MayDischarge(b) -> [mode |-> "discharge_pv", limit |-> Power]
      [] OTHER -> [mode |-> "battery_standby", limit |-> 0]

\* _apply_mode_change_guard: no charge <-> discharge flip on a steady grid.
FlipSuppressed(b) ==
    /\ site.steady
    /\ Plan(b).mode # seen[b].mode
    /\ "battery_standby" \notin {Plan(b).mode, seen[b].mode}

\* Mutant: a suppressed flip is returned as "no mode".
TargetModeOrNone(b) == IF FlipSuppressed(b) THEN "" ELSE Plan(b).mode

TargetMode(b) == IF FlipSuppressed(b) THEN seen[b].mode ELSE Plan(b).mode

\* Mutants: fast_charging is left alone; a battery in recovery gets the same
\* commands as the others (PLAT-1751); the mode is sent in every cycle (PLAT-1714).
BudgetNoFastOff(b) ==
       When(~BelowFloor(b) /\ seen[b].mode # TargetMode(b), <<SetMode(b, TargetMode(b))>>)
    \o <<SetLimit(b, Plan(b).limit)>>

BudgetForRecovery(b) ==
       When(seen[b].mode # TargetMode(b), <<SetMode(b, TargetMode(b))>>)
    \o <<SetLimit(b, Plan(b).limit), SetFast(b, FALSE)>>

BudgetRepeating(b) ==
       When(~BelowFloor(b), <<SetMode(b, TargetMode(b))>>)
    \o <<SetLimit(b, Plan(b).limit)>>
    \o When(~BelowFloor(b), <<SetFast(b, FALSE)>>)

\* allocate: the mode only when it differs, the limit always.
BudgetCommands(b) ==
       When(~BelowFloor(b) /\ seen[b].mode # TargetMode(b), <<SetMode(b, TargetMode(b))>>)
    \o <<SetLimit(b, Plan(b).limit)>>
    \o When(~BelowFloor(b), <<SetFast(b, FALSE)>>)

\* bat_support_controller: discharge to keep the grid under the night tak,
\* shared among the batteries above the floor of the controller.
SupportFloor(b) == IF read[b].temp = "warm" THEN NormalFloor ELSE ColdFloor

SupportCommands(b) ==
    When(read[b].support /\ read[b].soc > SupportFloor(b),
         When(seen[b].mode # "discharge_pv", <<SetMode(b, "discharge_pv")>>)
      \o <<SetLimit(b, Power)>>)

\* run_budget_allocator: emergency recovery goes to the manager at once, the
\* commands to the executor.
Decide ==
    /\ pc = "guard" /\ cmds = <<>>
    /\ ~Frozen(site)
    /\ req' = [b \in Battery |->
                  IF BelowFloor(b)
                  THEN Manager!NewRequest("charge_battery", 0, TRUE, TRUE)
                  ELSE req[b]]
    /\ cmds' = ForEach(Order, BudgetCommands) \o ForEach(Order, SupportCommands)
    /\ pc' = "execute"
    /\ UNCHANGED <<await, inv, todo, snapshot, since, drifted>>

RateLimited(b) == since[b] < Cooldown

\* execute: a mode change within the cooldown of the last one is dropped.
ExecuteDropped ==
    /\ pc = "execute" /\ cmds # <<>>
    /\ Head(cmds).type = "mode" /\ RateLimited(Head(cmds).target)
    /\ cmds' = Tail(cmds)
    /\ UNCHANGED <<requests, inv, pc, todo, snapshot, since, drifted>>

\* _exec_set_ems_mode: before discharge_pv the B7 check, a read and, when it reads on, a write.
ExecuteCheck ==
    /\ pc = "execute" /\ cmds # <<>>
    /\ Head(cmds).type = "mode" /\ Head(cmds).mode = "discharge_pv" /\ ~Head(cmds).on
    /\ ~RateLimited(Head(cmds).target)
    /\ LET b == Head(cmds).target
       IN  \E on \in BOOLEAN :
              /\ Manager!ReadsFast(b, on)
              /\ cmds' = When(on, <<SetFast(b, FALSE)>>) \o <<Checked(Head(cmds))>> \o Tail(cmds)
    /\ UNCHANGED <<requests, inv, pc, todo, snapshot, since, drifted>>

\* _exec_set_ems_mode: request_change; the cooldown starts when the manager accepts.
ExecuteMode ==
    /\ pc = "execute" /\ cmds # <<>>
    /\ Head(cmds).type = "mode" /\ ~RateLimited(Head(cmds).target)
    /\ Head(cmds).mode = "discharge_pv" => Head(cmds).on
    /\ LET b == Head(cmds).target
       IN  IF Manager!InProgress(b)
           THEN UNCHANGED <<req, since>>
           ELSE /\ req' = [req EXCEPT ![b] =
                             Manager!NewRequest(Head(cmds).mode, 0, FALSE, FALSE)]
                /\ since' = [since EXCEPT ![b] = 0]
    /\ cmds' = Tail(cmds)
    /\ UNCHANGED <<await, inv, pc, todo, snapshot, drifted>>

\* _exec_set_ems_power_limit and _exec_set_fast_charging.
ExecuteWrite ==
    /\ pc = "execute" /\ cmds # <<>>
    /\ Head(cmds).type # "mode"
    /\ WriteHead
    /\ cmds' = Tail(cmds)
    /\ UNCHANGED <<requests, pc, todo, snapshot, since, drifted>>

ExecuteDone ==
    /\ pc = "execute" /\ cmds = <<>>
    /\ todo' = {b \in Battery : req[b].state # "absent"}
    /\ pc' = "process"
    /\ UNCHANGED <<requests, inv, cmds, snapshot, since, drifted>>

------------------------------------------------------------------------------
(* Phase 5: the mode-change manager, and what main.py does after the cycle. *)

\* process(): the next request, if a step of it is due ...
ProcessOne(b) ==
    /\ pc = "process" /\ b \in todo /\ Manager!Free
    /\ Manager!Begin(b) \/ (~Manager!Due(b) /\ UNCHANGED <<requests, inv>>)
    /\ todo' = todo \ {b}
    /\ UNCHANGED <<pc, cmds, snapshot, since, drifted>>

\* ... and the calls of that step, one after the other.
ProcessCall(b) ==
    /\ pc = "process"
    /\ Manager!GoOn(b)
    /\ UNCHANGED <<pc, cmds, todo, snapshot, since, drifted>>

ProcessDone ==
    /\ pc = "process" /\ todo = {} /\ Manager!Free
    /\ pc' = "plan"
    /\ UNCHANGED <<requests, inv, cmds, todo, snapshot, since, drifted>>

\* _execute_plan: the night plan asks the manager directly for charge_pv.
NightPlan ==
    /\ pc = "plan"
    /\ req' = [b \in Battery |->
                  IF site.nightPlan /\ ~Manager!InProgress(b)
                  THEN Manager!NewRequest("charge_pv", 0, FALSE, FALSE)
                  ELSE req[b]]
    /\ pc' = "sleep"
    /\ UNCHANGED <<await, inv, cmds, todo, snapshot, since, drifted>>

\* The next cycle starts cycle_interval_s after the end of this one.
Sleep ==
    /\ pc = "sleep"
    /\ \E k \in CycleTicks :
          /\ Manager!AgeRequests(k)
          /\ since' = [b \in Battery |->
                          IF since[b] + k < Cooldown THEN since[b] + k ELSE Cooldown]
    /\ pc' = "idle"
    /\ UNCHANGED <<await, inv, cmds, todo, snapshot, drifted>>

------------------------------------------------------------------------------
(* Environment.                                                            *)

\* Only the inverters remember anything across a restart.
Restart ==
    /\ Restarts
    /\ req' = [b \in Battery |-> Manager!NoRequest]
    /\ await' = [b \in Battery |-> "none"]
    /\ pc' = "idle" /\ cmds' = <<>> /\ todo' = {}
    /\ atFloor' = {}
    /\ since' = [b \in Battery |-> Cooldown]
    /\ UNCHANGED <<inv, read, site, seen, drifted>>

Drift(b) ==
    /\ Drifts
    /\ ~inv[b].fc
    /\ inv' = [inv EXCEPT ![b].fc = TRUE]
    /\ drifted' = drifted \cup {b}
    /\ UNCHANGED <<requests, pc, cmds, todo, snapshot, since>>

\* The control loop, one step of it.
Loop ==
    \/ StartCycle \/ GuardWrite \/ Freeze \/ Decide
    \/ ExecuteDropped \/ ExecuteCheck \/ ExecuteMode \/ ExecuteWrite \/ ExecuteDone
    \/ \E b \in Battery : ProcessOne(b) \/ ProcessCall(b)
    \/ ProcessDone \/ NightPlan \/ Sleep

Next == Loop \/ Restart \/ \E b \in Battery : Drift(b)

Spec == Init /\ [][Next]_vars

\* The event loop runs the control loop for ever.
FairSpec == Spec /\ WF_vars(Loop)

------------------------------------------------------------------------------
(* Properties.                                                             *)

CycleDone == pc = "plan" /\ ~Frozen(site)

\* INV-3 once a cycle is over: whatever the guards, the budget, the battery
\* support and the manager wrote into it, no battery is left discharging with
\* fast_charging on, unless it came on during the cycle.
FastOffAtRest ==
    CycleDone =>
        \A b \in Battery \ drifted : ~(inv[b].mode = "discharge_pv" /\ inv[b].fc)

\* Recovery is immediate: a battery seen below the absolute floor is being
\* force-charged when the cycle is over, whatever the guards made of it and
\* whatever request was under way.
RecoveredAtOnce ==
    CycleDone =>
        \A b \in Battery :
            BelowFloor(b) => inv[b].mode = "charge_battery" /\ inv[b].fc

\* PLAT-1696: nothing but an emergency (or a restart) cuts a protocol short
\* that is under way; it runs to complete or failed.
RunsOut ==
    [][\A b \in Battery :
         (/\ pc' # "idle"       \* neither a restart nor the sleep
          /\ req[b].state \in Manager!Waiting
          /\ req'[b].state \notin Manager!Waiting \cup Manager!Terminal) =>
             req'[b].emergency]_vars

\* The sensors say nothing that a guard, the support or the night plan acts on.
Quiet ==
    /\ site.grid \in {"ok", "warning"} /\ ~site.late /\ ~site.steady /\ ~site.nightPlan
    /\ \A b \in Battery :
         /\ ~read[b].support /\ ~read[b].charging /\ read[b].pv
         /\ read[b].temp = "warm"
         /\ read[b].soc > NormalFloor + BadRaise + Hysteresis

\* The loop closes: when the wish of zero_grid stays the same and no guard
\* speaks, the inverter ends up in the mode and at the limit of the plan with
\* fast_charging off, and stays there.
Converges ==
    \A b \in Battery, w \in Wish :
        <>[](Quiet /\ read[b].wish = w) =>
            <>[](inv[b] = [mode |-> Plan(b).mode, limit |-> Plan(b).limit, fc |-> FALSE])

\* A battery at the floor of both G1 and zero_grid ends up not discharging,
\* whatever zero_grid wishes for, and stays so.
FloorHolds ==
    \A b \in Battery :
        <>[](/\ site.grid \in {"ok", "warning"} /\ ~site.late
             /\ ~read[b].support
             /\ read[b].soc <= NormalFloor) =>
            <>[](inv[b].mode # "discharge_pv")

------------------------------------------------------------------------------
(* Claims of the repository that the code does not keep; each is checked by *)
(* a run of its own, and found violated.                                    *)

\* core/guards.py:11 "G0 is absolute: if grid charging is detected, NOTHING else
\* matters": once the guards have spoken, the limit G0 set to 0 is 0.
G0IsAbsolute ==
    (pc = "guard" /\ cmds = <<>>) =>
        \A b \in Battery : G0Fires(Snap(b), site) => inv[b].limit = 0

\* core/mode_change.py:4 "Direct transitions (charge->discharge) can cause hangs
\* (B1, B2). This module implements the safe 5-step protocol": whenever the
\* manager sets a target it has not skipped standby for, it does so from standby.
StandbyBeforeTarget ==
    [][\A b \in Battery :
         (req[b].state = "standby_wait" /\ req'[b].state = "setting_target") =>
             inv[b].mode = "battery_standby"]_vars
=============================================================================
