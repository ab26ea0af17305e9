# CARMA Box: TLA+ models, TLC runs and proofs

CARMA Box (`src/`) steers a house with GoodWe batteries, an Easee EV charger and a
few switchable consumers under the Ellevio peak tariff. It is one Python asyncio
process that reads and writes everything through Home Assistant (HA). One control
loop runs a cycle about every 15 s; in a cycle several controllers, each correct
in its own unit tests, write **the same registers of the same inverter** one after
the other, from a snapshot taken before the first of them wrote. This directory
models that: what may happen between the writers, between the cycles, and when
writes get lost, hours jump, or the service restarts.

## 1. Inventory

### Components, their state and operations

| Component (source) | State it keeps | Operations | Makes it correct | Module |
|---|---|---|---|---|
| Mode-change manager (`core/mode_change.py`) | one request per battery: state, target, limit, retries, step timer | `request_change`, `emergency_mode_change`, `cancel`, `clear_pending`, `process` | no charge/discharge flip without a standby dwell; no limit while waiting; every request ends | `ModeChange` |
| Inverter adapter (`adapters/goodwe.py`) | none (the inverter has `ems_mode`, `ems_power_limit`, `fast_charging`) | get/set of each | a failed write or read is told apart from a successful one | `ModeChange`, `ControlCycle` |
| Grid guard (`core/guards.py`) | `_at_floor` per battery, oscillation history, HA contact time | `evaluate` (G0..G7) | the floor and the tak win over optimisation; guards do not undo each other | `Guards` |
| Executor (`core/executor.py`) | time of the last mode change per battery | `execute_guard_commands`, `execute`, the registers interface | rate limit; no mode change past a protocol under way | `ControlCycle`, `Relays` |
| Engine (`core/engine.py`) | state machine, manager, night-EV memory, last EV state | `run_cycle` | recovery of an empty battery is immediate and lasting | `ControlCycle` |
| Budget (`core/budget.py`, `core/grid_tuner.py`) | import/export counters, grid history, EV intent and amps, cascade memory | `allocate` | converges, no repeated mode commands, memory equals the hardware | `ControlCycle`, `EvCharging`, `Relays`, `ZeroGrid` |
| Zero-grid (`core/zero_grid.py`) | none | `plan_zero_grid` | the loop comes to rest near 0 W; SoC clamps, recovery | `ZeroGrid` |
| Battery support (`core/bat_support_controller.py`) | none | `evaluate` | discharge above the floor only | `ControlCycle` |
| Scenario state machine (`core/state_machine.py`) | scenario, entry time, override | `evaluate`, `transition_to`, override | the scenario of the hour is reached and kept; no bouncing | `StateMachine` |
| EV controllers (`core/ev_night_controller.py`, `core/ev_controller.py`, `adapters/easee.py`) | amps and ramp time; last SoC, connection, timers | start, stop, ramp | stops at the target, stops on a breach, never charges from the grid by day | `EvCharging` |
| Surplus dispatch and cascade (`core/surplus_dispatch.py`, `core/budget.py`, `main.py`) | switch times, rate limiter, active set | start, stop, bump | one memory per relay, no relay pulled both ways, all consumers end up as the surplus is | `Relays` |
| HA API (`adapters/ha_api.py`) | batch cache with its lock | get, batch, warm, call, set, retries | cached states are never older than they claim | `HomeAssistant` |
| Circuit breaker (`adapters/circuit_breaker.py`) | state, counts, opened_at | `allow`, `on_success`, `on_failure` | follows the service it protects | `CircuitBreaker` |
| Ellevio (`core/ellevio.py`) | running hour, monthly peaks | `update` | no peak it has seen is lost or made up | `Tariff` |
| Local DB, hub sync (`storage/local_db.py`, `storage/hub_sync.py`) | SQLite tables, marks, ids | insert, read, mark, retention | nothing marked that was not read | `HubLog` |
| Session tracker (`storage/session_tracker.py`) | open sessions, PV sum of the day | `update` of batteries, EV, PV | a session that is over is stored once | `Sessions` |
| Planner, plan executor (`core/planner.py`, `core/plan_executor.py`, `main.py`) | last plan hour, last forecast, night plan | `should_plan`, `generate_night_plan`, `_execute_plan` | every night has its plan; plans do not compete with the controllers | `Planning` |
| Day planner (`core/day_planner.py`, `core/day_plan.py`) | none | `generate_day_plan` | every hour adds up; the plan charges what it projects | `DayPlan` |
| Service (`main.py`, `health.py`, `notifications/slack.py`, `carma-box.service`) | running flag, last result, override, health, last scenario told | the cycle, signals, restart | follows the override that is asked for; outputs say what is | `Service` |
| Health, fallback, replan, presence, EV surplus, balancer, savings, reports, other adapters, configuration | see "Not modelled" | | | |

`main.py` wires up neither the circuit breaker, the hub sync and the session tracker (which are
modelled as their docstrings and the engine use them) nor `core/health.py`, `fallback.py`,
`replan.py` and `balancer.py` (which are not modelled).

### How they interact

    main loop --snapshot--> engine.run_cycle
        guards ------------ direct writes ------------------> inverter
        state machine (scenario)
        zero_grid -> budget -- commands --> executor --------> inverter (limit, fast_charging)
        battery support ------ commands --> executor            |
                                            executor --request--> mode-change manager
        engine -- emergency request ---------------------------> mode-change manager
        manager.process ---- 5-step protocol ----------------> inverter
    main loop --night plan request---------------------------> mode-change manager
    main loop --EV evaluation--> charger; --surplus dispatch, bump, heater--> relays
    budget ---- cascade of consumers -----> executor -----------> relays
    engine ---- sessions -----> SQLite <---- hub sync (another task)
    main loop --peaks--> Ellevio tracker; --scenario--> Slack, dashboard, /health
    all of them -----------> HA API (cache, lock, retries) ------> Home Assistant

Every arrow awaits HA, so other things may change in between, and every write may
fail. All decisions of a cycle use the snapshot, never the registers.

### Hard behaviours

* **Several writers, one register, one cycle**: guard, budget, manager; and the
  order of the commands decides who wins.
* **Stale snapshot**: the budget compares its target with a mode that the guards
  have overwritten since.
* **Multi-cycle protocol**: a mode change takes five or more cycles during which
  everybody else goes on commanding the battery.
* **Lost writes and false reads**: results are ignored; an unreadable inverter
  reads as `battery_standby`.
* **Restart** between any two steps: only the inverters, the relays and the disk remember.
* **Two memories of one relay**: cascade and dispatch each keep times of their own.
* **A closed loop**: what zero-grid commands is the next measurement, seen through a median
  and an inverter that takes cycles to change its mode.
* **Two awaits that belong together**: the two helpers of the override, statement and
  commit, read and mark; another task runs in between.
* **Thresholds in three places** (guards, support, zero-grid) and hours that wrap.

`PROJECT.json` lists each hazard at its line.

## 2. Modules

| Module | Models | Proofs |
|---|---|---|
| `InverterContract` | abstract: what the inverter firmware asks of its writer | |
| `ModeChange` | `core/mode_change.py` with the registers of `adapters/goodwe.py` | `ModeChangeProofs` |
| `Guards` | the battery part of `core/guards.py` as operators on a snapshot | |
| `ControlCycle` | one control cycle: guards, budget, support, executor, manager, night plan (extends `Guards`, instantiates `ModeChange`) | `ControlCycleProofs` |
| `StateMachine` | `core/state_machine.py` and the manual override as an input | `ServicesProofs` |
| `EvCharging` | the charger and the parts of a cycle that command it | `EvChargingProofs` |
| `Relays` | the relays and the five parts of a cycle that command them | `HouseProofs` |
| `ZeroGrid` | `core/zero_grid.py` with smoothing, tuner and flip guard, closed over the inverters | `HouseProofs` |
| `Planning` | `core/plan_executor.py`, the night part of `core/planner.py`, `_execute_plan` | `PlanningProofs` |
| `DayPlan` | `generate_day_plan` and the balance check of `HourSlot` | `PlanningProofs` |
| `Tariff` | `core/ellevio.py` | `PlanningProofs` |
| `HomeAssistant` | `adapters/ha_api.py`: retries, batch cache, lock | `RecordsProofs` |
| `CircuitBreaker` | `adapters/circuit_breaker.py` with overlapping callers | `ServicesProofs` |
| `HubLog` | the log tables of `storage/local_db.py`, retention, `storage/hub_sync.py` | `ServicesProofs` |
| `Sessions` | `storage/session_tracker.py` with its rows in `storage/local_db.py` | `RecordsProofs` |
| `Service` | the rest of the cycle in `main.py`, override, `/health`, Slack, signals, systemd | `ServicesProofs` |
| `DataLemmas` | numbers, concatenations, folds, sums, sorted lists, medians: what the proofs about data rest on | itself |
| `MCModeChange`, `MCControlCycle`, `MCStateMachine`, `MCEvCharging` | the values TLC checks them with | |
| `MCHouse`, `MCServices`, `MCRecords` | components side by side, for one run | `HouseProofs`, `ServicesProofs`, `RecordsProofs` |

`MCHouse`, `MCServices` and `MCRecords` put components with disjoint variables into one run:
`part` says which of them runs, from any of its initial states; the others sleep in a state in
which nothing is asked of them. It is a disjoint union of state spaces, not a product, and
every property is one of a single component.

### ModeChange

`req[b]` is the entry of `ModeChangeManager._requests` (state `absent` if there is
none), `inv[b]` the three registers. One action per operation of a caller: `RequestChange`,
`EmergencyModeChange`, `Cancel` (also `clear_pending`), `Restart`. `process()` is one action per
await. A step of it begins with what the code does before its first await, in `Prepare`, `EnterStandby`,
`SetTarget`, `StartVerify`, `Verify`, `Prune`: so `EnterStandby` sets state and timer of
STANDBY_WAIT, and the write of battery_standby is another action. `await[b]` is the call
that is awaited then, and each call is an action that takes effect at one instant:
`ClearLimit`, `ClearFast`, `WriteStandby`, `CheckFast`, `FastOff`, `TargetMode`, `TargetLimit`, `TargetFast`,
`ReadTarget`, `VerifyFast`, `VerifyOff`, with `VerifyRetry` and `VerifyFail` for the other answers to the first read of VERIFYING.
Between any two of them time passes (`took`, at most `CallTime`), fast_charging comes on by itself
(`Drift`, what guard G2 exists for), or the service restarts; the callers are in the same task as
`process()` and wait for it.

The code stores the time a step began; the model stores its age and `Tick`
advances it, saturating at `AgeCap`, above every wait. In a `faulty` behaviour each write
may be lost by itself, and nobody notices, as in the code, and each read may answer
`battery_standby`/`off`, which is what the adapter answers for an unavailable entity; `Faults` says
which behaviours there are. `dwell` and `lit` are history: the time the inverter has been in its mode,
and its fast_charging on.

### ControlCycle

A cycle is a sequence of small steps (`pc`), one for each await, so that `Drift`,
`Restart` and, unless `Reliable`, lost writes and false reads may fall anywhere in between. `read` and `site` are the sensors,
`seen` the registers as the snapshot saw them. `Guards.GuardCommands` computes the
guard commands **in the order of the code**; `GuardWrite` executes them one by one
past the manager. `Decide` is `_run_budget_allocator` with the emergency request of
the recovery, `ExecuteXxx` the executor (`ExecuteCheck` is its check of fast_charging, an await before the
write), `ProcessOne` begins a step of `ModeChange` or does
nothing when none is due, `ProcessCall` is each call that step awaits, `NightPlan` the direct request of
`_execute_plan`. Watts are abstracted: zero-grid's correction decides for a battery
`wish` = charge, discharge or none at some `Power`; the SoC clamps, the emergency
recovery, the anti-flap guard, the limit that is always sent and the mode that
is only sent when it differs from the snapshot are kept.

### StateMachine

One step per cycle. The entry and exit conditions, matrix and priority are kept
whole; the snapshot is a record of what they look at. `dwell` counts cycles up to
`MinDwell`. Hours are free from one cycle to the next: HA may be away for hours.

### EvCharging

Four parts of a cycle command the charger one after the other, on one snapshot, each
with a memory of its own of what it told it. The phases of `pc` are those parts:
`Sense` (snapshot), `Guard` (G3), `Budget` (counters, ramp, START/STOP/SET by day),
`NightEv` (one action for each return of `ev_night_controller.evaluate`) and
`Controller` (EVController as main.py calls it, after the engine; also when late data
end `run_cycle` after the guards). `enabled` and `amps` are the charger's registers; they survive
`Restart`, the memories do not: `intended` and `budgetAmps` (BudgetState), `nightAmps`
and `nightAge` (NightEVState), `wasConnected`, `lastSoc` and `rampAge` (EVController).
A snapshot is a record of classes: `grid`, `load` and `headroom` are sorted by the thresholds
they are compared with (the header of the module lists them). `wasOn` and `wasAmps`
are the charger as the snapshot saw it, before G3 or anybody else wrote. In one phase all writes
are one step, and they land. SET_CURRENT, START and FIX_WAITING of EVController do
nothing: main.py executes neither SET_CURRENT nor FIX_WAITING, and configures a start headroom no house reaches.

### Relays

`on` is what runs, `seen` what the snapshot saw, `cached` the batch cache, which no service
call invalidates, so bump and heater read relays as they were before the cascade switched one.
The phases are the five parts of a cycle: `Guard` (G3 asks for "all" and reaches nobody),
`Cascade` (one switch, its own cooldown), `Bump`, `Heat`, `Dispatch` (rate limiter, deadbands, cooldowns
as ages). `ups` and `downs` collect what was switched in the cycle. Power is in steps of 100 W.

### ZeroGrid

A cycle is `Measure` (grid = load minus what the batteries do), `Plan` (`plan_zero_grid` in exact
integer arithmetic with `int()` where the code has it), `Execute` and `Process`. `Execute` is the
executor: the limit of the plan is written at once, whatever mode the inverter is in; the mode is asked for if it
differs, no request is under way and the cooldown of the last change is over. `Process` is the manager, `step` and
`waited` the state of its request and the cycles spent in it, `goal` its target: the old mode runs
on through CLEARING, at the limits the plans write meanwhile; after the target is written SETTING_TARGET and VERIFYING go
by before the next request. A charge skips clearing and standby; an emergency replaces what is under way.
Load and SoC change `MaxDisturbances` times, at any moment; then the loop is on its own.

### Planning, DayPlan and Tariff

`Planning` has a clock of hours with any number of cycles in each, also none, and restarts. `missed` is history: an
hour without a cycle or a plan refused on late data, forgotten once a night plan is made or a plan hour of the day has come.
`DayPlan` makes one plan, an hour per step; the SoC of a battery is what it lacks to its
target, in 100 Wh with losses; hours before `MorningStart` discharge nothing. `Tariff` has a month of a few hours, with one or two samples in
each; `ledger` has the readings since the tracker last forgot, at a restart or with the first of a month.

### HomeAssistant and CircuitBreaker

`world` counts what happened to the states in HA; `call[t]` is where the request of a task is:
waiting for the lock, sent, served, answered. A write served whose answer is lost is sent again.
The breaker runs with several callers whose answers come late.

### HubLog and Sessions

Both distinguish what the connection sees from what is on disk: a failed commit leaves its
statement to the next commit, a crash takes it. In `HubLog` the hub task reads a batch and marks it in
two steps, and the control task inserts and thins rows in between (`CleanupRetention` is one DELETE of a table,
`CommitCleanup` the commit after the last); `taken` is history: the rows the hub
has read. Between reading and marking the code inserts nothing at the hub, so nothing is said of that. In `Sessions` the tracker handles the batteries one by one; an exception ends the
tracking of that cycle, as in the engine.

### Service

One step for each await of the cycle after the snapshot: read the two helpers, engine, dashboard,
export limits, health, Slack, sleep. Between any two the user may touch a helper, the
day may change, HA may become slow (data too old for the engine) or go away. `Stop`, `Crash`,
`SystemdRestart` and `OperatorStart` are what signals and `carma-box.service` do. The engine is
abstract here: it follows the override, keeps its scenario on stale data, or takes any other.

## 3. Runs

| Run | Expect | Shows |
|---|---|---|
| `mode_change` | pass | writes that land: the registers keep up with the request (`ProtocolKept`: cleared while waiting, standby held but for one call, target held, fast_charging of a discharge verified), and the refinement `ImplementsContract`, for any calls, cancels, restarts and drifts between any two awaits. Any write lost and any read false: retries are bounded (`TypeOK`), every request ends (`Settles`) |
| `control_cycle` | pass | all writers, restarts and drifts: no battery rests in discharge with fast_charging on (`FastOffAtRest`), an empty one is force-charged when the cycle is over (`RecoveredAtOnce`), no protocol is cut short but by an emergency (`RunsOut`) |
| `control_converges` | pass | when the sensors settle, the registers settle on the plan (`Converges`); a battery at the floor ends up not discharging (`FloorHolds`) |
| `house`, car | pass | the budget's memory of the current is true (`BudgetAmpsTrue`); a car at its target is charged no more (`StopsAtTarget`), importing by day ends the charging (`NoGridByDay`), a lasting breach leaves the charger off (`BreachWins`) |
| `house`, relays | pass | no relay is switched both ways in a cycle (`OneDirection`), nothing is started without a surplus (`NeverStartsShort`), all relays end up as the surplus is (`RelaysFollow`) |
| `house`, batteries | pass | from one cycle to the next no battery discharges near its floor, though the old mode runs on until the manager replaces it, unless its plan has it charge (`FloorKept`); the loop comes to rest near 0 W, no battery charging from another, and with the tuner swings within its largest correction (`Settles`) |
| `services`, scenarios | pass | entry and exit agree (`NoBounce`); the scenario of the hour is reached from anywhere (`HourReached`) |
| `services`, breaker | pass | the breaker ends up as the service is, through late answers (`BreakerFollows`) |
| `services`, hub | pass | only rows that were read are marked (`MarkedWereRead`) |
| `services`, service | pass | only an override that is asked for is followed (`OverrideWasAsked`), and that one in the end, by engine, dashboard and `/health` (`OverrideFollowed`); Slack knows the scenario in force (`SlackIsCurrent`); the export limits end up right (`LimitFollowsSun`) |
| `records`, client | pass | a hit of the cache is as fresh as it claims and has the task's own writes (`HitsAreFresh`) |
| `records`, sessions | pass | a session that is over is on disk, once (`SessionsKept`); the PV row of a day is complete (`PvComplete`) |
| `records`, tariff | pass | the tracker has the peaks of the hours it has closed since it last forgot (`PeaksKept`) |
| `records`, planning | pass | every night in which no cycle is missed and no plan refused has a plan (`PlannedAtNight`) |
| `records`, day | pass | a slot of a surplus hour always adds up (`OnlyDischargeFails`); the slots charge what the projection gains (`ProjectionIsPlan`) |
| `control_g0` | violation | G3 overwrites the 0 W of "absolute" G0 |
| `control_standby` | violation | a guard writes charge_pv during STANDBY_WAIT; the manager then flips charge to discharge |
| `scenarios_night_ev` | violation | NIGHT_EV alternates with night scenarios of lower priority |
| `ev_night_resume` | violation | a charge that others stopped is never started again by the night controller |
| `day_plan_fails` | violation | a morning hour in which the batteries discharge makes the plan of the whole day fail |
| `night_plan_idle` | violation | a night plan that gives the car energy has no hour in which the car is started |

Each passing run also checks the types of its components. A violation run checks one statement
the repository makes and finds a behaviour of the code against it; PROJECT.json quotes the
statement in "findings".

### Bounds

* *One battery* in ModeChange and ControlCycle: requests, registers, commands and
  guards of two batteries share nothing in the code that is modelled (the tak and the
  plan arrive as inputs of each); the proofs are for any set of batteries.
* `ClearWait` 1, `StandbyWait` 2, the other waits 1, in cycles of 15 s, are the
  ratios of `config/site.yaml` (15/30/15/15 s); `Cooldown` 4 is `mode_change_cooldown_s`
  60. `PruneAge` is shortened to just above the waits; `AgeCap` is one above it.
* `MaxCalls` 2 bounds the calls to the manager: any two of request, emergency, cancel and restart meet
  at every await. `MaxRetries` 3 is the default. `CallTime` 1: a call takes no time, or half of
  the standby wait. With all timeouts and retries of `config/site.yaml` (three times 10 s, 2 and 4 s between them) a
  call may outlast its standby wait of 30 s: the contract then promises no dwell, and the theorems cover that too.
* ControlCycle needs no counter bound: its state is finite. Readings lie on both
  sides of every threshold: below the floor (14 %), in the hysteresis zone of G1 (18 %),
  far above (60 %), freezing cells, a dark PV input while charging, a request for support.
* `MinDwell` 2: dwell not over, dwell over. Hours: the last of the night, the first
  of every window, one after midnight.
* `mode_change` takes a policy under which charge_pv skips standby, as the tests of the
  manager do; the other runs take the default, in which charge_battery does.
* EvCharging: a charger of 6..7 A and a budget that may ask for 8, for `config/site.yaml`
  too gives the budget more (16) than the charger takes (6); one ampere of range is enough to be at the lowest
  current, above it, and clamped. Holds of 2 and 1 cycles and pauses of 2: a counter is below,
  at and past its hold. The 21 snapshots of `MCEvCharging` vary one condition at a time, by night,
  in the forenoon and in the afternoon, and follow each other in any order: a handover at
  06:00 or 22:00, a car that leaves, a restart, late data may fall between any two cycles.
* Relays: three relays of `config/site.yaml` with their priorities and a consumer without a
  relay; pool and heater require a pump that is no consumer, so the dispatch refuses them and the
  cascade does not. Holds, cooldowns and the window of the rate limiter are 1 or 2 cycles:
  before, at and after. Eight snapshots: a large, a middle and a small surplus and none, late data, a
  car that needs room, cold, and a cycle that outlasts the cache.
* ZeroGrid: two batteries of 15 and 5 kWh, loads of -4 and 6 kW, six levels of SoC with the floor,
  its buffer, the middle and the top; with and without the tuner; one change of load or SoC at any
  moment of the loop, from any mode and limit. Ratios of gain, dead band, tuner tiers and limits are those
  of the configuration. Waits are in cycles of 15 s: set 1, verify 1, cooldown 4 as in `config/site.yaml`;
  clear 2 and standby 1 where it has 1 and 2, so that the old mode runs on for more than one plan. The window of the flip guard is 1 cycle, the quickest to change its mind; the median is of 3.
  For `Settles`, more disturbances only bring the loop back to a state it may start in; `FloorIsKept` is for any number of them.
* Service: two scenarios (the start scenario and another), helpers off/on with one scenario
  and "Auto"; days with sun, without, and late. HubLog: two tables of two rows, batches of one row, three
  days, one fault. CircuitBreaker: three callers, thresholds and cooldown of 2.
* HomeAssistant: the control task and one that only reads and calls services; two attempts, a time to live of 2
  beside a timeout of 1, so that a slow fetch outlives a write. Sessions: one battery and the EV, one
  session each, two days, two faults: a failed commit, and a crash or another.
* Tariff: months of 4 hours, one of them at half weight, two peaks. Planning: the hours, night window and
  thresholds of the configuration; two forecasts on either side of each threshold. DayPlan: five hours (two of the
  morning), estimates below the load, above it, and with p10 above p50; batteries full, nearly full, and
  with room for more than one hour at full power. In `records` the morning in which batteries discharge begins
  an hour after the plan, so that both bounds of it show; in the code, and in `day_plan_fails`, both begin at 6.
* CHECK_DEADLOCK is off in `services`, `records`, `day_plan_fails` and `night_plan_idle`, where a component may
  come to an end (the last row, the last month, a plan that is made); on in all others.

### Fairness

In ControlCycle: the control loop as a whole, which the event loop always runs, and
each await returns (every HA call has a timeout). In ModeChange: time passes,
`process()` is called each cycle and takes up each request in turn, and its calls return: strong fairness of `Process(b)`, which the
calls of another battery disable now and then. In the parts of `house` and in StateMachine: the cycle goes on, and
cycles with a snapshot happen again and again; the liveness properties speak of the time after the last
restart (`Undisturbed`, `Calm`, `MaxDisturbances`). In CircuitBreaker: callers come back (strong
fairness of `Allow`, which the breaker disables now and then), their calls end, and time passes. In HubLog nothing is fair, as nothing in the service starts the hub
task. In Service: the loop, and systemd, which starts what has failed; users, outages, crashes and
`Stop` are free. No fairness is assumed of callers of the manager, drifts, restarts or sensors.

## 4. Proofs

All theorems hold for every value of the constants that satisfies the named ASSUMEs of the
module, with lossy writes, wrong reads, crashes and restarts as the model has them; a theorem
that needs more says so in an ASSUME of its own, listed here with what the code has to do with it.

| Module | About | Theorems |
|---|---|---|
| `ModeChangeProofs` | `ModeChange` | `TypeCorrect`, `ProtocolHolds`, `Implements` |
| `ControlCycleProofs` | `Guards`, `ControlCycle` | `CycleTyped`, `ProtocolsRunOut`, `FastOffHolds`, `RecoveredHolds` |
| `EvChargingProofs` | `EvCharging` | `EvTypeCorrect`, `BudgetAmpsHolds` |
| `HouseProofs` | `Relays`, `ZeroGrid`, `MCHouse` | `RelaysTyped`, `OneDirectionHolds`, `StartsInSurplus`, `FloorIsKept`, `ZgTyped`, `HouseRunsParts`, `HouseTyped` |
| `ServicesProofs` | `StateMachine`, `HubLog`, `Service`, `CircuitBreaker`, `MCServices` | `ScenarioTypeCorrect`, `NoBounceHolds`, `HubTyped`, `MarkedHolds`, `ServiceTyped`, `OverrideHolds`, `SlackHolds`, `BreakerTyped`, `ServicesTyped` |
| `RecordsProofs` | `HomeAssistant`, `Sessions`, `MCRecords` | `HaTyped`, `FreshHolds`, `SessionsTyped`, `SessionsHold`, `PvHolds`, `RecordsRunsParts`, `RecordsTyped` |
| `PlanningProofs` | `Planning`, `DayPlan`, `Tariff` | `PlanningTyped`, `NothingIsCarriedOut`, `PlannedHolds`, `DayTyped`, `OnlyDischarge`, `ProjectionHolds`, `TariffTyped`, `PeaksHold` |
| `DataLemmas` | numbers, concatenations, folds, sums, sorted lists, medians | lemmas only |

**Mode changes.**
* `TypeCorrect`: `Spec => []TypeOK`, with lost writes and false reads.
  `retries \in 0..MaxRetries` is not inductive alone: the strengthening `RetriesLeft`
  says that a request that is not yet failed has a retry left, and `InPlace` which state the request
  is in while each call is awaited.
* `ProtocolHolds`: `[]ProtocolKept`. The property is about behaviours without faults (with lost writes it is false, section 5). The
  inductive invariant `Held` adds to its parts what they need of each other when one call hands over to the
  next: `MayGo` (while the target is still to be written the inverter may enter it: it has been in standby
  for all of the wait but the call that put it there; and fast_charging that is on when the mode is written came on
  after it was checked), `Partly` (what has been written when a step is half done), `EmergencyDirect` (an
  emergency has a target the firmware accepts from any mode). One lemma for the steps that begin, one for those after a
  call, one for time, and one for the batteries nothing is done to.
* `Implements`: `Spec => Contract!Spec`, by step simulation from `Held`. The contract is one the code can keep: standby is
  left after `StandbyWait - CallTime` (after nothing, if a call may take that long), and a discharge may begin with fast_charging on only if it came
  on within the last `CallTime`. With a window of 0, or the full dwell, it is not implemented (section 5).

**The control cycle.** Its queue is a concatenation of one sequence per battery, in the order of the code; what is
in it is proved with `FlattenElements` of `DataLemmas`.
* `CycleTyped`: the queue holds commands, the requests fit (`Fit`, as `RetriesLeft` and `InPlace` above). What a step of the manager
  does to the types is cited from `ModeChangeProofs`, of which the module has an instance (`MP`).
* `ProtocolsRunOut`: the action property `RunsOut`, by one lemma per writer that leaves a protocol alone.
* `FastOffHolds`: `[]FastOffAtRest` if `Reliable`. The inductive invariant `FastOffInv` follows
  fast_charging through the cycle: until the executor is through, a command to switch it off is in the queue or a
  fresh recovery is requested (`SwitchingOff`); so the manager finds it off, or clears it before it sets a target (`OffOrIdle`).
* `RecoveredHolds`: `[]RecoveredAtOnce` if `Reliable` and `SocMin <= NormalFloor`. `RecoveryInv`: no command of
  the executor replaces a recovery (`RecoveryAsked`), and the next pass of the manager carries it out (`RecoveryComes`).
  The second hypothesis is a limit of the code, see section 5.

**Relays and zero-grid.**
* `OneDirectionHolds`: `[]OneDirection` for any consumers, priorities and powers, with crashes and hands on the
  relays, if no wired consumer is called "all", the id G3 sheds (none of `config/site.yaml` is). The invariant `OneWay`:
  while the cache of the cycle lasts it is the snapshot, and everybody switches away from the snapshot.
* `StartsInSurplus`: the action property `NeverStartsShort`, with `InSurplus`: the dispatch reaches its
  escalation only on a surplus of the house. It needs `StopBelow > Tolerance`, an assumption of `Relays`.
* `FloorIsKept`: `[]FloorKept` for any loads, capacities, tiers, waits and cooldown, with and without the tuner. Not inductive alone: `FloorInv` follows a battery through the cycle. The
  plan has it discharge above floor and buffer only (`PlanHeld`); once the executor has written, one that is to stand by has
  a limit of 0, whatever mode it is still in, and one below the floor a recovery that takes effect in this
  cycle (`LimitHeld`); so what runs when the manager is through is above the buffer, or at the floor in an old mode that a charge is
  going to replace (`RunHeld`).
* `ZgTyped`: `[]ZgTypeOK`. Typing is where the arithmetic is: the median exists because the window is not empty when
  a plan is made (`ZgInv` adds that to the types; `MedianExists`), no share divides by a need or a half of 0, and no
  corrected limit leaves 0 .. the inverter's maximum.

**Scenarios, hub, service.**
* `ScenarioTypeCorrect`: `Spec => []TypeOK`. The work is in
  `FirstOfMember`: the CHOOSE over the priority list finds a position because every scenario is listed.
* `NoBounceHolds`: `Spec => NoBounce` for all thresholds in the
  order of `ThresholdAssumption`; the lemma `EntryExcludesExit` goes through the nine conditions.
* `HubTyped`, `MarkedHolds`: `[]MarkedWereRead`. The inductive invariant adds `Honest`
  for the connection and for the disk (ids are below the highest ever given, marks are of rows that were
  read) and `AboutToMark` (all unsynced rows up to the id that is going to be marked are in the batch). The
  latter needs `BatchIsLowest`, an argument on cardinalities, and that a new row has a higher id.
* `ServiceTyped`, `OverrideHolds`, `SlackHolds`: `[]OverrideWasAsked` with the
  invariant that between the two reads the first still holds or a helper was touched;
  `[]SlackIsCurrent` with `Told`, which ties the last message to the scenario compared last.
* `BreakerTyped`: the counters stay below the thresholds, in whatever state a late answer comes: one more
  would have opened or closed the breaker and set them back.

**Car, records, plans.**
* `EvTypeCorrect`: `Spec => []TypeOK` for any ranges, holds and pauses and
  any snapshots; the currents stay within the ranges of their owners.
* `BudgetAmpsHolds`: `Spec => []BudgetAmpsTrue`. Not inductive alone, for the
  night controller sets the current too: the inductive invariant `Believed` adds `NightForgets`, at
  night the budget has forgotten its own current before the night controller's turn comes.
* `HaTyped`, `FreshHolds`: `[]HitsAreFresh` for any tasks, timeouts, retries and times to live. `HaInv` says who holds
  the lock and what a call waits for; `FreshInv` that cache, fetch under way and answered hit each know
  every write of their tasks but those an older fetch has overtaken, and that the cache is at
  most a timeout older than its stamp.
* `SessionsTyped`, `SessionsHold`, `PvHolds`: `[]SessionsKept` and `[]PvComplete` with any number of batteries and
  days, failed commits, exceptions and crashes. `KeptInv` relates the open sessions to what connection and
  disk have: the disk has no session the connection has not, a second row is one whose commit failed, a closed session
  without a row was cut off. `PvInv` does the same for the days.
* `PlanningTyped`, `NothingIsCarriedOut`: whatever hours, capacities, needs and
  forecasts, no hour lies in a window of a night plan, the reason why `CarHasItsHours` fails. The lemma `PlansAreEmpty` bounds the two
  stops by the two starts; the inductive invariant adds that every plan kept is one that was made so.
* `PlannedHolds`: `[]PlannedAtNight` if midday and evening plans are made by day and at least one plan hour is in the
  day (`plan_hours` is 6, 12, 17, 22, `core/planner.py:53`; the daylight ends at 16, `:62`; the evening is some hours before the
  night, `core/plan_executor.py:102`). `PlannedInv`: at 22:00 the hour last planned is another one, because
  a plan hour of the day came in between; after it there is a plan, or a restart makes one.
* `DayTyped`, `OnlyDischarge`, `ProjectionHolds`: `[]OnlyDischargeFails` and `[]ProjectionIsPlan`, for any number of
  batteries and devices, any caps, forecasts and lacks. `DayInv` adds to both `Projected`, an equation between two sums: what
  the slots so far give to the batteries is what these lack less than at the start; and for the car the same up
  to the last hour of its charging. An hour adds one slot to the first sum and changes the second by
  what `_allocate_batteries` took off the surplus (`AllocateShares`: no battery takes more than there is or than it
  lacks, and the surplus falls by what they take). The slot then adds up because car, devices and batteries are paid from
  one rest that none of them brings below 0 (`CarShare`, `DispatchShare`).
* `TariffTyped`, `PeaksHold`: `[]PeaksKept` for any number of hours, readings and peaks. The tracker sorts and cuts after
  each hour, the reader of the ledger sorts all hours at the end. The inductive invariant `TariffInv` does not compare lists but counts: the peaks
  descend, and of them as many reach any v as there are closed hours that do, or `TopN` if there are more
  (`Largest`). An hour more adds one to the counts up to its weight (`AppendReach`), the cut takes
  the least; and a descending list is determined by its counts (`SameNumbers`), so the two lists are the same.
  `Booked` ties the sample of the tracker to the line of its hour in the ledger, and a new month to an empty ledger.

**Compositions.** `HouseRunsParts`, `RecordsRunsParts`: what `MCHouse` and `MCRecords` do is what each of their components does
alone, or leaves it where it is; so the safety theorems above hold of the specifications TLC runs. `HouseTyped`,
`ServicesTyped`, `RecordsTyped` are their type invariants. In `MCServices` scenarios and service sleep in a fixed state
instead of an initial one, and `ServicesTyped` assumes that it is one of theirs: the override and the snapshot of it are
possible ones, the helper can say "Auto", and there is a day. `services.cfg` satisfies this.

**Data.** Induction over data needs the library's theorems with an operator parameter, which no installed
prover instantiates. `DataLemmas` proves what is needed of it for sets: a set of numbers has a least
element, so a set of numbers that has 0 and successors is all of them (`NatInd`). With that, for any number of elements:
* what is in a concatenation of sequences (`FlattenElements`);
* folds of the community modules, which are a CHOOSE of a function on subsets: it exists and is unique (`FoldExists`), and a left fold
  over a sequence takes its elements from first to last (`LeftExists`);
* sums (`SumsExist`, `SumAgree`, `SumRemove`, `SumPoint`, `SumNat`): they do not depend on the order, and change
  with a term by what it changes;
* every sequence of numbers can be sorted (`SortExists`), sorted sequences with the same counts are the same (`SameNumbers`), and a
  window has a median (`MedianExists`).

The models are written for this: sums are `SumFunction` of a function and never a fold over an operator, and the
lists `Descending` and the median `Smoothed` are defined by what `sorted` promises, as the definition of `SortSeq` in the
standard module is not one the provers can expand.

Only model-checked: the liveness properties, as fairness and ENABLED are beyond the prover. They are `Settles` (of
`ModeChange` and of `ZeroGrid`), `Converges`, control_converges' `FloorHolds`, `StopsAtTarget`, `NoGridByDay`, `BreachWins`, `RelaysFollow`,
`HourReached`, `BreakerFollows`, `OverrideFollowed`, `LimitFollowsSun`. Every other
property of a passing run is stated by a theorem.

## 5. Seen in the models, without a run of their own

### Batteries and scenarios

* A lost standby write (`mode_change.py:364`) is not noticed: the manager then writes
  the target from the old mode, charge to discharge directly.
* The timer of STANDBY_WAIT starts before that write is awaited (`mode_change.py:366`): the inverter dwells for `standby_wait_s`
  less what the call takes, or not at all if that is longer. The default is just the five minutes that the comment at `mode_change.py:137` says the
  firmware requires; `config/site.yaml` sets 30 s. `StandbyHeld` and the contract allow for one call.
* "B7: ALWAYS verify fast_charging OFF before discharge" (`mode_change.py:440`): between that check and the write of
  the mode another await goes by, and fast_charging may come on in it. VERIFYING looks once more; the contract's `Window` is one call.
* `mode_change.py:7` promises "skip if idempotent"; no mode is read in PREPARE, and a
  request for the mode the inverter is in runs the whole protocol.
* A battery at its floor during a breach gets `charge_pv` of G1 and then
  `discharge_pv` of G3 in one evaluation.
* G3 writes `discharge_pv` without the fast_charging check of the executor; G2 and the
  budget only repair it later in the cycle.
* G1 writes `charge_pv` and the budget a limit for the mode of the snapshot: the
  "uncontrolled charge" of docs/INVARIANTS.md:17.
* On a morning with a low forecast no scenario may be entered at 06:00: the night
  scenario lasts until noon (`HourReached` shows that it ends there).
* docs/INVARIANTS.md:18 (INV-5) has the minimum SoC "adjusted cold/SoH"; the budget
  knows only the unadjusted one (`budget.py:398`): in ControlCycle a cold battery at 18 % (minimum 20 %) is
  dispatched to discharge_pv.
* G1 (at 18 %), battery support, budget and zero-grid have minimum SoCs of their own (`FloorHolds`).
* When an inverter cannot be read, `get_ems_mode` answers `battery_standby`: a request for standby is verified
  complete although the inverter is elsewhere (`goodwe.py:143`, against `mode_change.py:11`).
* The emergency request is renewed each cycle with limit 0 and its protocol runs after the
  executor: `max_charge_w` of `zero_grid.py:162` never is the limit at the end of a cycle.
* The budget writes a limit while the manager waits in CLEARING (`budget.py:639`): `ProtocolKept` is a property of
  the manager alone. The inverter is still in its old mode then, so that the limit of a charge is discharged, or the other
  way round, until standby (`ZeroGrid` has this; `FloorKept` bounds what it may drain, nothing bounds the power).
* The battery support has a floor of its own, 15 % (20 % cold), where the budget takes the battery's `min_soc_pct`, for which
  the schema allows 5..50 (`config/schema.py:143`) and tests use 18 and 20. Between the two it goes on commanding discharge, after the
  budget asked for recovery: with SocMin 18 and a battery at 17 %, TLC finds `RecoveredAtOnce` violated. The hypothesis
  `SocMin <= NormalFloor` of `RecoveredHolds` is this; `config/site.yaml` has 15 in both. The other way round, with SocMin 10, TLC
  finds `FloorHolds` violated: at 15 % the budget asks for discharge again and again, the manager gets there, and G1 ends it.
* An unavailable SoC sensor reads as 0.0 (`main.py:910`): the battery is force-charged.

### Relays

* G3 sheds the consumer "all", which the executor looks up and does not find: nothing is shed.
* The dispatch counts the power of active consumers of lower priority as free; the cascade
  looks neither at `requires_active` nor at power; and the dispatch switches off inside the cooldown of the cascade.
* Bump sorts ascending by priority and so takes the most important consumer first
  (`main.py:1154` "Bump low-priority consumers").
* A running consumer without a relay that is first to be shed uses up the rate limiter of the
  dispatch (`surplus_dispatch.py:229`): the premise of `RelaysFollow` on late data.

### ZeroGrid and the plans

* A battery that is blocked or saturated keeps its share of the balanced target
  (`zero_grid.py:383` says the deviation shrinks next cycle); around the dead band two batteries
  alternate between standby and discharge, which `Settled` allows for.
* `zero_grid.py:226` has the buffer so that "in-flight drain between cycles cannot cross the absolute floor". The plan
  never has a battery at the buffer discharge, but one that is to charge and is still in its old mode does, at the limit of the charge, while the
  manager clears, while it refuses, during the cooldown, and while the guard of the tuner keeps the mode (`budget.py:245`). `FloorKept` allows for that
  down to the floor; below it recovery replaces the mode in the same cycle.
* With the grid tuner on (`config/site.yaml:508`) the loop does not come to rest: tuner and zero-grid correct the same deviation
  twice, and the grid swings to and fro within the largest correction (49 W of 50 in the run).
* The battery's window of the night plan is [22, 6), compared as numbers, and holds no hour either (`planner.py:246`); `night_plan_idle` is
  about the car's.
* `midday_h` is 16, which is no hour of `plan_hours`; `is_weekend` is never passed; the evening plan is read by nobody.
* A second battery gets its share of what the first left, not of the surplus (`day_planner.py:349`): the
  rest is exported although line 183 calls export the last resort.
* A failed day plan leaves the old one, which is looked up by the hour alone (`main.py:1553`).
* The flat fallback divides the forecast by 12 hours and fills 16 (`main.py:810`).
* `can_discharge_fm` counts the midday surplus of the forecast, the plan then does not put it all into the batteries.

### HA, storage, tariff

* `call_service` does not invalidate the batch cache; a fetch under way restores what
  `set_state` invalidated (`overtaken` in `HitsAreFresh`); a cycle that outlasts the time to live is no "atomic snapshot".
* A POST whose answer is lost is sent again, and executed twice.
* HALF_OPEN admits everyone (`circuit_breaker.py:70` "a single probe at a time"), and late failures restamp `opened_at`.
* With `dry_run` off, hub sync marks rows without inserting them anywhere (`hub_sync.py:137`), though rows are "only marked synced
  when dry_run=False AND the PostgreSQL insert succeeds" (:117); no run claims that rows are handed over. SQLite
  errors escape `sync()` ("never raises"); retention deletes rows that were never synced.
* A commit that fails leaves its row to the next commit: a retry stores the session twice
  (`doubtful` in `SessionsKept`). A restart replaces the PV row with a sum from 0.
* A battery that goes from charge to discharge between two samples stays in one session; charge_battery is no
  charging mode for the tracker.
* The last hour of a month is dropped before it is recorded as a peak (`ellevio.py:119`), and a restart loses all peaks: what the
  tracker keeps is not the bill. `PeaksKept` is about the hours it has closed and not forgotten.

### Service

* The two helpers of an override are read one after the other: it may follow a pair that never was (`touched` in
  `OverrideWasAsked`). A read that fails releases the override.
* `/health` is not updated in a cycle without a snapshot (`main.py:574`): it answers with the last good cycle
  all through an outage.
* A transition by a restart is not told to Slack, and a lost message is not repeated.
* `carma-box.service` gives up after five failures in 300 s.

### EV

* docs/INVARIANTS.md:26 (INV-8) has the executor as the single writer; `_evaluate_ev`
  switches the charger itself (`main.py:1187`), and nobody tells budget or night controller.
* `BreachWins` holds because of what `ev_night_resume` shows: the night controller starts
  the EV once more in the cycle in which G3 stopped it if its memory is 0, and never after that.
* `StopsAtTarget`, `NoGridByDay`: the budget cannot stop a charge it did not start, as its
  intent is FALSE; after 06:00 only EVController ends the night's charge.
* A restart at night leaves the night controller at 0 A beside a charger at more: it cannot ramp
  down, and its first ramp up is to 1 A, clamped to the charger's minimum.
* The budget's current may run to 16 A beside a charger that stops at 6 A: on import its
  ramp down goes on for ten cycles without any effect on the charger.
* A disabled charger counts as connected: a car that is away makes the connect trigger fire
  whenever something disables the charger.

## 6. Not modelled, and why

* G5 (nothing calls `record_mode_change`) and G7's freeze (main.py starts no cycle without HA)
  are silent; FREEZE is reachable through late data (G6) only, and so modelled.
* `EVSurplusController`, `ev_presence`, `_compute_charge_plan` of the engine, the budget's `_allocate_ev`,
  `_allocate_bat` and `_allocate_evening_discharge`, `core/health.py`, `fallback.py`, `replan.py`, `balancer.py`,
  `night_planner.py`, `ev_planner.py`: called by nothing the service runs.
* Arbitrage, savings, reports, consumption, decision log, dashboard texts: functions of one
  snapshot without control state.
* `adapters/solcast.py`, `nordpool.py`, `shelly.py`, `appliance_reader.py`, `goldshell.py`: readers of entities; what
  they return is an input of the models.
* `config/schema.py`: declarative; what it validates (the night window, positive numbers) is an
  ASSUME where it matters.
* Schema migration of the database, the export of hub rows (not implemented in the code).
* Lost writes of the charger and of the relays; the fix task of the Easee adapter; the age of a remembered SoC.
* Watts in ControlCycle: there zero-grid decides `wish` freely; `ZeroGrid` has the watts, and no guards.

## 7. Plan

1. (done) ModeChange with its contract and proofs; Guards; ControlCycle; StateMachine with proofs.
2. (done) EvCharging, Relays: several writers of one charger and one relay.
3. (done) ZeroGrid; HomeAssistant, CircuitBreaker; HubLog, Sessions; Tariff; Planning with proofs, DayPlan; Service.
4. (done) ControlCycle, Relays, ZeroGrid, HomeAssistant, Sessions: typing and the safety properties of the runs;
   `PlannedAtNight`.
5. (done) Sums, folds, sorting in `DataLemmas`; `PeaksKept`, `OnlyDischargeFails`, `ProjectionIsPlan`; the types of ZeroGrid,
   CircuitBreaker, Tariff, DayPlan; the compositions.
6. (done) ModeChange with one action per await and a contract that allows for it; ZeroGrid with the steps of the
   manager, its refusals and the cooldown; the night plan's empty window as a run.
7. Beyond these: `EVSurplusController` and the fallback, once the service runs them; the guards on top of `ZeroGrid`'s watts.
