----------------------------- MODULE ModeChange -----------------------------
(***************************************************************************)
(* core/mode_change.py: ModeChangeManager, the 5-step protocol that moves  *)
(* an inverter from one EMS mode to another,                               *)
(*                                                                         *)
(*   idle -> clearing -> standby_wait -> setting_target -> verifying       *)
(*                                     -> complete | failed                *)
(*                                                                         *)
(* together with the registers it writes through adapters/goodwe.py.       *)
(*                                                                         *)
(* Time.  The code compares time.monotonic() with the time a step began;   *)
(* the model keeps the difference (req.age) and lets Tick advance it.      *)
(*                                                                         *)
(* Awaits.  process() sets the state and the timer of a request and then   *)
(* awaits one call to Home Assistant after the other: each call is an      *)
(* action of its own, and time, drift or a restart may fall between two of *)
(* them.  A call takes effect at one instant, and the next one does so     *)
(* within CallTime of it (timeouts, retries and backoff of the client).    *)
(* The callers of the manager and process() run in one task, so a call to  *)
(* the manager never falls into a process().                               *)
(*                                                                         *)
(* Faults.  A write returns False when Home Assistant refuses it, and no   *)
(* caller in mode_change.py looks at that result; a read of an unavailable *)
(* entity answers "battery_standby" or "off".  In a faulty behaviour each  *)
(* write lands or not, and each read answers the truth or that.            *)
(***************************************************************************)
EXTENDS Naturals

CONSTANTS
    Battery,            \* the batteries the manager serves
    Mode,               \* EMS modes in use
    SkipClear,          \* modes whose TransitionPolicy skips the clear wait
    SkipStandby,        \* modes whose TransitionPolicy skips standby
    EmergencyTarget,    \* modes emergency_mode_change is called with
    Limit,              \* power limits asked for, 0 among them
    ClearWait, StandbyWait, SetWait, VerifyWait,    \* ModeChangeConfig waits
    CallTime,           \* the longest time between two calls of one process()
    MaxRetries,         \* ModeChangeConfig.max_retries
    PruneAge,           \* _PRUNE_AGE_S
    AgeCap,             \* bound: ages above every wait are not told apart
    MaxCalls,           \* bound: calls made to the manager in a behaviour
    Faults              \* may Home Assistant fail? FALSE, TRUE or both

Waits == {ClearWait, StandbyWait, SetWait, VerifyWait, PruneAge}

ASSUME ModesAssumption ==
    /\ {"battery_standby", "discharge_pv"} \subseteq Mode
    /\ SkipClear \subseteq Mode
    /\ SkipStandby \subseteq Mode
    /\ EmergencyTarget \subseteq Mode
    \* discharge_pv and discharge_battery "are intentionally absent"
    /\ "discharge_pv" \notin SkipClear \cup SkipStandby \cup EmergencyTarget

ASSUME NumbersAssumption ==
    /\ Limit \subseteq Nat /\ 0 \in Limit
    /\ Waits \subseteq Nat /\ AgeCap \in Nat
    /\ \A w \in Waits : w < AgeCap
    /\ CallTime \in 0..AgeCap
    /\ MaxRetries \in Nat \ {0}
    /\ MaxCalls \in Nat

ASSUME FaultsAssumption == Faults \subseteq BOOLEAN

VARIABLES
    req,    \* req[b]: the entry of b in _requests (state "absent" if none)
    await,  \* await[b]: the call that process() awaits for b
    took,   \* took[b]: time since the call before it took effect
    inv,    \* inv[b]: the registers of b's inverter
    dwell,  \* dwell[b]: time since inv[b].mode last changed
    lit,    \* lit[b]: time since inv[b].fc came on, AgeCap when it is off
    faulty, \* may Home Assistant fail in this behaviour? never changes
    calls   \* calls made to the manager so far

requests == <<req, await, took>>
registers == <<inv, dwell, lit>>
vars == <<requests, registers, faulty, calls>>

Waiting  == {"clearing", "standby_wait", "setting_target", "verifying"}
Terminal == {"complete", "failed"}
State    == {"absent", "idle"} \cup Waiting \cup Terminal

\* The calls of process(), in the order of a request that needs them all.
Awaited == {"none", "clear_limit", "clear_fast", "standby", "check_fast", "fast_off",
            "mode", "limit", "fast_on", "read_mode", "verify_fast", "verify_off"}

Request == [state : State, target : Mode, limit : Limit, fc : BOOLEAN,
            emergency : BOOLEAN, retries : 0..MaxRetries, age : 0..AgeCap]

Register == [mode : Mode, limit : Limit, fc : BOOLEAN]

NoRequest == [state |-> "absent", target |-> "battery_standby", limit |-> 0,
              fc |-> FALSE, emergency |-> FALSE, retries |-> 0, age |-> 0]

TypeOK ==
    /\ req \in [Battery -> Request]
    /\ await \in [Battery -> Awaited]
    /\ took \in [Battery -> 0..CallTime]
    /\ inv \in [Battery -> Register]
    /\ dwell \in [Battery -> 0..AgeCap]
    /\ lit \in [Battery -> 0..AgeCap]
    /\ faulty \in BOOLEAN
    /\ calls \in 0..MaxCalls

\* The manager starts with no request and finds the inverters as they are.
Init ==
    /\ req = [b \in Battery |-> NoRequest]
    /\ await = [b \in Battery |-> "none"]
    /\ took = [b \in Battery |-> 0]
    /\ inv \in [Battery -> Register]
    /\ dwell = [b \in Battery |-> 0]
    /\ lit = [b \in Battery |-> AgeCap]
    /\ faulty \in Faults
    /\ calls = 0

\* Mutant: a request in CLEARING counts as free.
InProgressAfterClearing(b) == req[b].state \in Waiting \ {"clearing"}

InProgress(b) == req[b].state \in Waiting
Pending(b)    == req[b].state \in {"idle"} \cup Waiting

\* No process() is under way.
Free == \A b \in Battery : await[b] = "none"

------------------------------------------------------------------------------
(* Callers: the executor, the engine, and a restart of the service.        *)

Call == calls < MaxCalls /\ calls' = calls + 1

Ask(b, q) ==
    /\ Call /\ Free
    /\ req' = [req EXCEPT ![b] = q]
    /\ UNCHANGED <<await, took, registers, faulty>>

NewRequest(m, l, f, e) ==
    [state |-> "idle", target |-> m, limit |-> l, fc |-> f,
     emergency |-> e, retries |-> 0, age |-> 0]

\* request_change: refused while the previous request is under way.
RequestChange(b, m, l) == ~InProgress(b) /\ Ask(b, NewRequest(m, l, FALSE, FALSE))

\* emergency_mode_change: replaces whatever is there.
EmergencyModeChange(b, m, f) == Ask(b, NewRequest(m, 0, f, TRUE))

\* cancel and clear_pending: the entry is deleted, the inverter stays as it is.
Cancel(b) == req[b].state # "absent" /\ Ask(b, NoRequest)

\* _requests lives in memory only: a restart forgets it, within a process() too.
Restart ==
    /\ Call
    /\ req' = [b \in Battery |-> NoRequest]
    /\ await' = [b \in Battery |-> "none"]
    /\ took' = [b \in Battery |-> 0]
    /\ UNCHANGED <<registers, faulty>>

------------------------------------------------------------------------------
(* The calls to Home Assistant.                                            *)

\* What a write of new over old leaves, what a read of the truth answers.
Outcome(new, old)     == IF faulty THEN {new, old} ELSE {new}
Answer(truth, silent) == IF faulty THEN {truth, silent} ELSE {truth}

WriteMode(b, m) ==
    \E x \in Outcome(m, inv[b].mode) :
        /\ inv' = [inv EXCEPT ![b].mode = x]
        /\ dwell' = [dwell EXCEPT ![b] = IF x = inv[b].mode THEN @ ELSE 0]
        /\ UNCHANGED <<lit, faulty, calls>>

WriteLimit(b, w) ==
    \E x \in Outcome(w, inv[b].limit) :
        /\ inv' = [inv EXCEPT ![b].limit = x]
        /\ UNCHANGED <<dwell, lit, faulty, calls>>

WriteFast(b, on) ==
    \E x \in Outcome(on, inv[b].fc) :
        /\ inv' = [inv EXCEPT ![b].fc = x]
        /\ lit' = [lit EXCEPT ![b] = IF x = inv[b].fc THEN @ ELSE IF x THEN 0 ELSE AgeCap]
        /\ UNCHANGED <<dwell, faulty, calls>>

NoWrite == UNCHANGED <<registers, faulty, calls>>

ReadsFast(b, on) == on \in Answer(inv[b].fc, FALSE)

\* The call awaited for b is over, and the next one is awaited.
Awaits(b, from, to) ==
    /\ await[b] = from
    /\ await' = [await EXCEPT ![b] = to]
    /\ took' = [took EXCEPT ![b] = 0]

------------------------------------------------------------------------------
(* process(): it finds the step of a request due and awaits its calls.     *)

Expired(b, wait) == req[b].age >= wait

\* Process() takes up b, and the first call it awaits is c.
Begins(b, c) == Free /\ Awaits(b, "none", c) /\ NoWrite

GoTo(b, s) == req' = [req EXCEPT ![b].state = s, ![b].age = 0]
BecomesOnly(b, s) == req' = [req EXCEPT ![b].state = s]

SkipsBoth(q) == q.emergency \/ q.target \in SkipClear

\* Mutant: the B7 check is skipped.
FirstUnchecked(q) == "mode"

\* The first call of _execute_set_target: before discharge_pv the B7 check.
FirstOfTarget(q) == IF q.target = "discharge_pv" THEN "check_fast" ELSE "mode"

\* IDLE: the time is taken, the state stays until the limits are cleared.
Prepare(b) ==
    /\ req[b].state = "idle"
    /\ Begins(b, "clear_limit")
    /\ req' = [req EXCEPT ![b].age = 0]

\* CLEARING: state and timer of STANDBY_WAIT are set before the write is awaited.
EnterStandby(b) ==
    /\ req[b].state = "clearing"
    /\ Expired(b, ClearWait)
    /\ req[b].target \notin SkipStandby
    /\ Begins(b, "standby")
    /\ GoTo(b, "standby_wait")

\* CLEARING (policy without standby) or STANDBY_WAIT: on to the target.
SetTarget(b) ==
    /\ \/ /\ req[b].state = "clearing"
          /\ Expired(b, ClearWait)
          /\ req[b].target \in SkipStandby
       \/ /\ req[b].state = "standby_wait"
          /\ Expired(b, StandbyWait)
    /\ Begins(b, FirstOfTarget(req[b]))
    /\ GoTo(b, "setting_target")

StartVerify(b) ==
    /\ req[b].state = "setting_target"
    /\ Expired(b, SetWait)
    /\ Begins(b, "none")
    /\ GoTo(b, "verifying")

Verify(b) ==
    /\ req[b].state = "verifying"
    /\ Expired(b, VerifyWait)
    /\ Begins(b, "read_mode")
    /\ UNCHANGED req

Prune(b) ==
    /\ req[b].state \in Terminal
    /\ req[b].age > PruneAge
    /\ Begins(b, "none")
    /\ req' = [req EXCEPT ![b] = NoRequest]

Begin(b) ==
    Prepare(b) \/ EnterStandby(b) \/ SetTarget(b) \/ StartVerify(b) \/ Verify(b) \/ Prune(b)

\* Has the step of b's request come?
Due(b) ==
    \/ req[b].state = "idle"
    \/ req[b].state = "clearing" /\ Expired(b, ClearWait)
    \/ req[b].state = "standby_wait" /\ Expired(b, StandbyWait)
    \/ req[b].state = "setting_target" /\ Expired(b, SetWait)
    \/ req[b].state = "verifying" /\ Expired(b, VerifyWait)
    \/ req[b].state \in Terminal /\ req[b].age > PruneAge

------------------------------------------------------------------------------
(* Step 2, CLEAR LIMITS, and step 3, STANDBY.                              *)

\* Mutant: the truthy trap of B9, a limit of 0 is not written.
ClearNoLimit(b) ==
    /\ Awaits(b, "clear_limit", "clear_fast")
    /\ WriteLimit(b, inv[b].limit)
    /\ UNCHANGED req

ClearLimit(b) ==
    /\ Awaits(b, "clear_limit", "clear_fast")
    /\ WriteLimit(b, 0)
    /\ UNCHANGED req

\* Full protocol: wait in CLEARING; emergency or policy: on to the target at once.
\* step_started_at stays what it was when the step began.
ClearFast(b) ==
    /\ \/ /\ ~SkipsBoth(req[b])
          /\ Awaits(b, "clear_fast", "none")
          /\ BecomesOnly(b, "clearing")
       \/ /\ SkipsBoth(req[b])
          /\ Awaits(b, "clear_fast", FirstOfTarget(req[b]))
          /\ BecomesOnly(b, "setting_target")
    /\ WriteFast(b, FALSE)

WriteStandby(b) ==
    /\ Awaits(b, "standby", "none")
    /\ WriteMode(b, "battery_standby")
    /\ UNCHANGED req

------------------------------------------------------------------------------
(* Step 4, SET TARGET: _execute_set_target.                                *)

\* B7: read fast_charging; it is switched off when it reads on.
CheckFast(b) ==
    /\ \E on \in BOOLEAN :
          /\ ReadsFast(b, on)
          /\ Awaits(b, "check_fast", IF on THEN "fast_off" ELSE "mode")
    /\ NoWrite
    /\ UNCHANGED req

FastOff(b) ==
    /\ Awaits(b, "fast_off", "mode")
    /\ WriteFast(b, FALSE)
    /\ UNCHANGED req

TargetMode(b) ==
    /\ Awaits(b, "mode", "limit")
    /\ WriteMode(b, req[b].target)
    /\ UNCHANGED req

\* The limit is written always, 0 too; fast_charging when the request asks for it.
TargetLimit(b) ==
    /\ Awaits(b, "limit", IF req[b].fc THEN "fast_on" ELSE "none")
    /\ WriteLimit(b, req[b].limit)
    /\ UNCHANGED req

TargetFast(b) ==
    /\ Awaits(b, "fast_on", "none")
    /\ WriteFast(b, TRUE)
    /\ UNCHANGED req

------------------------------------------------------------------------------
(* Step 5, VERIFY.                                                         *)

\* The mode reads back: done, before that fast_charging once more for discharge_pv.
\* step_started_at is left alone, so the age goes on towards the pruning.
ReadTarget(b) ==
    /\ req[b].target \in Answer(inv[b].mode, "battery_standby")
    /\ \/ /\ req[b].target = "discharge_pv"
          /\ Awaits(b, "read_mode", "verify_fast")
          /\ UNCHANGED req
       \/ /\ req[b].target # "discharge_pv"
          /\ Awaits(b, "read_mode", "none")
          /\ BecomesOnly(b, "complete")
    /\ NoWrite

VerifyFast(b) ==
    /\ \/ /\ ReadsFast(b, TRUE)
          /\ Awaits(b, "verify_fast", "verify_off")
          /\ UNCHANGED req
       \/ /\ ReadsFast(b, FALSE)
          /\ Awaits(b, "verify_fast", "none")
          /\ BecomesOnly(b, "complete")
    /\ NoWrite

VerifyOff(b) ==
    /\ Awaits(b, "verify_off", "none")
    /\ WriteFast(b, FALSE)
    /\ BecomesOnly(b, "complete")

ReadsOther(b) == Answer(inv[b].mode, "battery_standby") # {req[b].target}

\* Mutants: the bound on the retries is forgotten; so is their count.
RetryUnbounded(b) ==
    /\ ReadsOther(b)
    /\ Awaits(b, "read_mode", FirstOfTarget(req[b]))
    /\ req' = [req EXCEPT ![b].state = "setting_target", ![b].age = took[b],
                          ![b].retries = @ + 1]
    /\ NoWrite

RetryUncounted(b) ==
    /\ ReadsOther(b)
    /\ Awaits(b, "read_mode", FirstOfTarget(req[b]))
    /\ req' = [req EXCEPT ![b].state = "setting_target", ![b].age = took[b]]
    /\ NoWrite

\* Another mode reads back: write the target again.  step_started_at is the time before the
\* read.
VerifyRetry(b) ==
    /\ ReadsOther(b)
    /\ req[b].retries + 1 < MaxRetries
    /\ Awaits(b, "read_mode", FirstOfTarget(req[b]))
    /\ req' = [req EXCEPT ![b].state = "setting_target", ![b].age = took[b],
                          ![b].retries = @ + 1]
    /\ NoWrite

\* ... and give up at max_retries.
VerifyFail(b) ==
    /\ ReadsOther(b)
    /\ req[b].retries + 1 >= MaxRetries
    /\ Awaits(b, "read_mode", "none")
    /\ req' = [req EXCEPT ![b].state = "failed", ![b].retries = @ + 1]
    /\ NoWrite

GoOn(b) ==
    \/ ClearLimit(b) \/ ClearFast(b) \/ WriteStandby(b)
    \/ CheckFast(b) \/ FastOff(b) \/ TargetMode(b) \/ TargetLimit(b) \/ TargetFast(b)
    \/ ReadTarget(b) \/ VerifyFast(b) \/ VerifyOff(b) \/ VerifyRetry(b) \/ VerifyFail(b)

Process(b) == Begin(b) \/ GoOn(b)

------------------------------------------------------------------------------
(* Environment.                                                            *)

Older(n, k) == IF n + k < AgeCap THEN n + k ELSE AgeCap

\* The timer of b's request runs: a step of it has begun.
Runs(b) == req[b].state \in Waiting \cup Terminal \/ await[b] # "none"

\* k units of time pass for the timers of the requests.
AgeRequests(k) ==
    req' = [b \in Battery |-> IF Runs(b) THEN [req[b] EXCEPT !.age = Older(@, k)] ELSE req[b]]

Tick ==
    /\ \A b \in Battery : await[b] # "none" => took[b] < CallTime
    /\ AgeRequests(1)
    /\ took' = [b \in Battery |-> IF await[b] = "none" THEN took[b] ELSE took[b] + 1]
    /\ dwell' = [b \in Battery |-> Older(dwell[b], 1)]
    /\ lit' = [b \in Battery |-> Older(lit[b], 1)]
    /\ UNCHANGED <<await, inv, faulty, calls>>

\* fast_charging comes on by itself: the drift guard G2 exists for.
Drift(b) ==
    /\ ~inv[b].fc
    /\ inv' = [inv EXCEPT ![b].fc = TRUE]
    /\ lit' = [lit EXCEPT ![b] = 0]
    /\ UNCHANGED <<requests, dwell, faulty, calls>>

Next ==
    \/ \E b \in Battery, m \in Mode, l \in Limit : RequestChange(b, m, l)
    \/ \E b \in Battery, m \in EmergencyTarget, f \in BOOLEAN :
          EmergencyModeChange(b, m, f)
    \/ \E b \in Battery : Cancel(b)
    \/ Restart
    \/ \E b \in Battery : Process(b)
    \/ \E b \in Battery : Drift(b)
    \/ Tick

Spec == Init /\ [][Next]_vars

\* The main loop calls process() every cycle, each pass takes up every request in turn, and
\* time passes.
Fairness == WF_vars(Tick) /\ \A b \in Battery : SF_vars(Process(b))

FairSpec == Spec /\ Fairness

------------------------------------------------------------------------------
(* Properties.                                                             *)

\* While a request waits for its limits to clear or for the standby dwell,
\* the inverter has no power limit left that could make it move energy
\* (mode_change.py step 2, B9/B15).
ClearedWhileWaiting ==
    \A b \in Battery :
        req[b].state \in {"clearing", "standby_wait"} => inv[b].limit = 0

\* The timer of STANDBY_WAIT starts before the write of battery_standby is awaited, so it runs
\* ahead of what the inverter has dwelt: by what that write takes, and by no more.
StandbyHeld ==
    \A b \in Battery :
        req[b].state = "standby_wait" =>
            \/ await[b] = "standby"
            \/ inv[b].mode = "battery_standby" /\ dwell[b] + CallTime >= req[b].age

\* Once SET TARGET has written everything the inverter holds what the request asked for,
\* until the request is forgotten: verification and retries never move it anywhere else.
TargetHeld ==
    \A b \in Battery :
        \/ req[b].state = "setting_target" /\ await[b] = "none"
        \/ req[b].state \in {"verifying", "failed", "complete"}
        => inv[b].mode = req[b].target /\ inv[b].limit = req[b].limit

\* fast_charging of a discharge that is complete is off, or came on by itself after the
\* verification had begun (B7, mode_change.py step 5).
FastVerified ==
    \A b \in Battery :
        (req[b].state = "complete" /\ req[b].target = "discharge_pv" /\ inv[b].fc) =>
            lit[b] <= req[b].age

\* With writes that land the registers keep up with the request, though each of its steps is
\* several awaited calls: from PREPARE, where its limit goes, over the standby dwell, to its
\* end, whatever the other batteries, drifts, cancels and restarts do in between.
ProtocolKept == ~faulty => ClearedWhileWaiting /\ StandbyHeld /\ TargetHeld /\ FastVerified

\* What an inverter of this protocol sees: standby is left after StandbyWait less one call (a
\* call as long as StandbyWait leaves no dwell), and fast_charging can be on in a new discharge
\* for one call only.
Contract == INSTANCE InverterContract WITH
    Direct    <- SkipClear \cup SkipStandby \cup EmergencyTarget,
    Dwell     <- IF CallTime < StandbyWait THEN StandbyWait - CallTime ELSE 0,
    Window    <- CallTime,
    Cap       <- AgeCap,
    reliable  <- ~faulty,
    mode      <- [b \in Battery |-> inv[b].mode],
    fast      <- [b \in Battery |-> inv[b].fc]

\* The manager implements InverterContract, whatever its callers ask, when
\* they ask it, and wherever a restart or a cancel cuts a request off.
ImplementsContract == Contract!Spec

\* Every request ends: complete, failed, cancelled or forgotten, however many
\* writes are lost and reads are false, and the battery is free for the next one.
Settles == \A b \in Battery : Pending(b) ~> ~Pending(b)
=============================================================================
