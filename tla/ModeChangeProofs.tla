-------------------------- MODULE ModeChangeProofs --------------------------
(***************************************************************************)
(* Theorems about ModeChange.tla, for any set of batteries and of modes,   *)
(* any waits, any number of retries and any callers.                       *)
(***************************************************************************)
EXTENDS ModeChange, TLAPS

------------------------------------------------------------------------------
(* What the operators that stand for writes, reads and timers return.      *)

\* A timer keeps its type, the order of two timers is kept, and neither runs back.
LEMMA OlderType ==
    ASSUME NEW n \in 0..AgeCap
    PROVE  /\ Older(n, 1) \in 0..AgeCap
           /\ Older(n, 1) >= n /\ Older(n, 1) <= n + 1
           /\ \A m \in 0..AgeCap : n >= m => Older(n, 1) >= Older(m, 1)
  BY NumbersAssumption DEF Older

\* What a call to Home Assistant leaves: everything of its type, and the registers of the other
\* batteries as they were.
Writes(b) ==
    /\ inv' \in [Battery -> Register]
    /\ dwell' \in [Battery -> 0..AgeCap] /\ lit' \in [Battery -> 0..AgeCap]
    /\ faulty' = faulty /\ calls' = calls
    /\ \A c \in Battery : c # b => inv'[c] = inv[c] /\ dwell'[c] = dwell[c] /\ lit'[c] = lit[c]

\* A write of the mode.
LEMMA WriteModeType ==
    ASSUME TypeOK, NEW b \in Battery, NEW m \in Mode, WriteMode(b, m)
    PROVE  /\ Writes(b)
           /\ inv'[b].limit = inv[b].limit /\ inv'[b].fc = inv[b].fc /\ lit'[b] = lit[b]
           /\ ~faulty => inv'[b].mode = m
           /\ inv'[b].mode = inv[b].mode => dwell'[b] = dwell[b]
           /\ inv'[b].mode # inv[b].mode => inv'[b].mode = m /\ dwell'[b] = 0
  <1>1. PICK x \in Outcome(m, inv[b].mode) :
          /\ inv' = [inv EXCEPT ![b].mode = x]
          /\ dwell' = [dwell EXCEPT ![b] = IF x = inv[b].mode THEN @ ELSE 0]
          /\ UNCHANGED <<lit, faulty, calls>>
    BY DEF WriteMode
  <1>2. x \in Mode /\ (~faulty => x = m) /\ (x # inv[b].mode => x = m)
    BY <1>1 DEF Outcome, TypeOK, Register
  <1> QED BY <1>1, <1>2, NumbersAssumption DEF TypeOK, Register, Writes

\* A write of the limit.
LEMMA WriteLimitType ==
    ASSUME TypeOK, NEW b \in Battery, NEW w \in Limit, WriteLimit(b, w)
    PROVE  /\ Writes(b) /\ dwell' = dwell /\ lit' = lit
           /\ inv'[b].mode = inv[b].mode /\ inv'[b].fc = inv[b].fc
           /\ ~faulty => inv'[b].limit = w
  <1>1. PICK x \in Outcome(w, inv[b].limit) :
          /\ inv' = [inv EXCEPT ![b].limit = x]
          /\ UNCHANGED <<dwell, lit, faulty, calls>>
    BY DEF WriteLimit
  <1>2. x \in Limit /\ (~faulty => x = w)
    BY <1>1 DEF Outcome, TypeOK, Register
  <1> QED BY <1>1, <1>2 DEF TypeOK, Register, Writes

\* A write of fast_charging.
LEMMA WriteFastType ==
    ASSUME TypeOK, NEW b \in Battery, NEW on \in BOOLEAN, WriteFast(b, on)
    PROVE  /\ Writes(b) /\ dwell' = dwell
           /\ inv'[b].mode = inv[b].mode /\ inv'[b].limit = inv[b].limit
           /\ ~faulty => inv'[b].fc = on
  <1>1. PICK x \in Outcome(on, inv[b].fc) :
          /\ inv' = [inv EXCEPT ![b].fc = x]
          /\ lit' = [lit EXCEPT ![b] = IF x = inv[b].fc THEN @ ELSE IF x THEN 0 ELSE AgeCap]
          /\ UNCHANGED <<dwell, faulty, calls>>
    BY DEF WriteFast
  <1>2. x \in BOOLEAN /\ (~faulty => x = on)
    BY <1>1 DEF Outcome, TypeOK, Register
  <1> QED BY <1>1, <1>2, NumbersAssumption DEF TypeOK, Register, Writes

\* A read.
LEMMA ReadType ==
    ASSUME TypeOK, NEW b \in Battery, NoWrite
    PROVE  Writes(b)
  BY DEF TypeOK, NoWrite, Writes, registers

\* The next call is awaited for b, and no call of another battery.
LEMMA AwaitsType ==
    ASSUME TypeOK, NEW b \in Battery, NEW from, NEW to \in Awaited, Awaits(b, from, to)
    PROVE  /\ await' \in [Battery -> Awaited] /\ took' \in [Battery -> 0..CallTime]
           /\ await[b] = from /\ await'[b] = to /\ took'[b] = 0
           /\ \A c \in Battery : c # b => await'[c] = await[c] /\ took'[c] = took[c]
  BY NumbersAssumption DEF TypeOK, Awaits

\* A request keeps its type when its state changes, and everything else of it stays.
LEMMA RequestType ==
    ASSUME NEW q \in Request
    PROVE  /\ \A n \in 0..AgeCap : [q EXCEPT !.age = n] \in Request
           /\ \A s \in State : [q EXCEPT !.state = s] \in Request
           /\ \A s \in State, n \in 0..AgeCap : [q EXCEPT !.state = s, !.age = n] \in Request
           /\ \A s \in State, k \in 0..MaxRetries :
                 [q EXCEPT !.state = s, !.retries = k] \in Request
           /\ \A s \in State, n \in 0..AgeCap, k \in 0..MaxRetries :
                 [q EXCEPT !.state = s, !.age = n, !.retries = k] \in Request
  BY DEF Request

\* A fresh request is a request.
LEMMA NewRequestType ==
    /\ NoRequest \in Request
    /\ \A m \in Mode, l \in Limit, f \in BOOLEAN, e \in BOOLEAN :
          NewRequest(m, l, f, e) \in Request
  <1>1. /\ "absent" \in State /\ "idle" \in State
        /\ "battery_standby" \in Mode
        /\ 0 \in Limit /\ 0 \in 0..MaxRetries /\ 0 \in 0..AgeCap
    BY ModesAssumption, NumbersAssumption DEF State
  <1>2. NoRequest \in Request
    BY <1>1 DEF NoRequest, Request
  <1>3. ASSUME NEW m \in Mode, NEW l \in Limit, NEW f \in BOOLEAN, NEW e \in BOOLEAN
        PROVE  NewRequest(m, l, f, e) \in Request
    BY <1>1 DEF NewRequest, Request
  <1> QED BY <1>2, <1>3

------------------------------------------------------------------------------
(* The types, and where in a request each call is awaited.                 *)

\* TypeOK alone is not inductive: VERIFY FAILED counts one more retry, so the
\* bound on retries needs that a request that has not failed has one left.
RetriesLeft ==
    \A b \in Battery : req[b].retries < MaxRetries \/ req[b].state = "failed"

\* The calls of process() are awaited in these states.
StateOf(c) ==
    CASE c \in {"clear_limit", "clear_fast"} -> "idle"
      [] c = "standby" -> "standby_wait"
      [] c \in {"check_fast", "fast_off", "mode", "limit", "fast_on"} -> "setting_target"
      [] c \in {"read_mode", "verify_fast", "verify_off"} -> "verifying"

InPlace == \A b \in Battery : await[b] # "none" => req[b].state = StateOf(await[b])

Typed == TypeOK /\ RetriesLeft /\ InPlace

\* The types hold at the start.
LEMMA TypeInit == Init => Typed
  BY NewRequestType, ModesAssumption, NumbersAssumption, FaultsAssumption
  DEF Init, Typed, TypeOK, RetriesLeft, InPlace, NoRequest, Awaited

\* What a step of process() leaves of b: a request of its type with a retry left, the call
\* awaited in its place, and the rest as it was for the other batteries.
Steps(b) ==
    /\ req' \in [Battery -> Request] /\ await' \in [Battery -> Awaited]
    /\ took' \in [Battery -> 0..CallTime]
    /\ req'[b].retries < MaxRetries \/ req'[b].state = "failed"
    /\ await'[b] # "none" => req'[b].state = StateOf(await'[b])
    /\ \A c \in Battery : c # b => req'[c] = req[c] /\ await'[c] = await[c] /\ took'[c] = took[c]

\* A step of process() that leaves the registers alone.
LEMMA BeginType ==
    ASSUME Typed, NEW b \in Battery, Begin(b)
    PROVE  Steps(b) /\ Writes(b)
  <1>0. /\ TypeOK /\ req[b] \in Request /\ 0 \in 0..AgeCap
        /\ req[b].retries < MaxRetries \/ req[b].state = "failed"
    BY NumbersAssumption DEF Typed, TypeOK, RetriesLeft
  <1>b. Begin(b) => Writes(b)
    BY <1>0, ReadType DEF Begin, Begins, Prepare, EnterStandby, SetTarget, StartVerify, Verify, Prune
  <1> USE DEF Begins, StateOf, State, Waiting, Terminal, Awaited
  <1>1. ASSUME Prepare(b) PROVE Steps(b)
    <2>1. [req[b] EXCEPT !.age = 0] \in Request
      BY <1>0, RequestType
    <2> QED BY <1>0, <1>1, <2>1, AwaitsType DEF Prepare, Steps, TypeOK, Request
  <1>2. ASSUME EnterStandby(b) PROVE Steps(b)
    <2>1. [req[b] EXCEPT !.state = "standby_wait", !.age = 0] \in Request
      BY <1>0, RequestType
    <2> QED BY <1>0, <1>2, <2>1, AwaitsType DEF EnterStandby, GoTo, Steps, TypeOK, Request
  <1>3. ASSUME SetTarget(b) PROVE Steps(b)
    <2>1. [req[b] EXCEPT !.state = "setting_target", !.age = 0] \in Request
      BY <1>0, RequestType
    <2>2. FirstOfTarget(req[b]) \in {"check_fast", "mode"}
      BY DEF FirstOfTarget
    <2>3. req[b].state # "failed" /\ req[b].retries < MaxRetries
      BY <1>0, <1>3 DEF SetTarget
    <2> QED BY <1>0, <1>3, <2>1, <2>2, <2>3, AwaitsType DEF SetTarget, GoTo, Steps, TypeOK, Request
  <1>4. ASSUME StartVerify(b) PROVE Steps(b)
    <2>1. [req[b] EXCEPT !.state = "verifying", !.age = 0] \in Request
      BY <1>0, RequestType
    <2> QED BY <1>0, <1>4, <2>1, AwaitsType DEF StartVerify, GoTo, Steps, TypeOK, Request
  <1>5. ASSUME Verify(b) PROVE Steps(b)
    BY <1>0, <1>5, AwaitsType DEF Verify, Steps, TypeOK, Request
  <1>6. ASSUME Prune(b) PROVE Steps(b)
    <2>1. NoRequest \in Request /\ NoRequest.retries < MaxRetries
      BY NewRequestType, NumbersAssumption DEF NoRequest
    <2> QED BY <1>0, <1>6, <2>1, AwaitsType DEF Prune, Steps, TypeOK
  <1> QED BY <1>1, <1>2, <1>3, <1>4, <1>5, <1>6, <1>b DEF Begin

\* A call after which the request is what it was, or only changes its state.
LEMMA CallType ==
    ASSUME Typed, NEW b \in Battery, NEW from \in Awaited, NEW to \in Awaited,
           from # "none", Awaits(b, from, to)
    PROVE  /\ (UNCHANGED req /\ (to # "none" => StateOf(to) = StateOf(from))) => Steps(b)
           /\ \A s \in State : (BecomesOnly(b, s) /\ (to # "none" => StateOf(to) = s)
                                /\ StateOf(from) # "failed") => Steps(b)
  <1>0. /\ TypeOK /\ req \in [Battery -> Request] /\ req[b] \in Request
        /\ req[b].retries < MaxRetries \/ req[b].state = "failed"
        /\ req[b].state = StateOf(from)
    BY DEF Typed, TypeOK, RetriesLeft, InPlace, Awaits
  <1>1. /\ await' \in [Battery -> Awaited] /\ took' \in [Battery -> 0..CallTime]
        /\ await'[b] = to
        /\ \A c \in Battery : c # b => await'[c] = await[c] /\ took'[c] = took[c]
    BY <1>0, AwaitsType
  <1>2. ASSUME NEW s \in State, BecomesOnly(b, s), to # "none" => StateOf(to) = s,
               StateOf(from) # "failed"
        PROVE  Steps(b)
    <2>1. [req[b] EXCEPT !.state = s] \in Request
      BY <1>0, RequestType
    <2>2. req' \in [Battery -> Request] /\ \A c \in Battery : c # b => req'[c] = req[c]
      BY <1>0, <1>2, <2>1 DEF BecomesOnly
    <2>3. req'[b].state = s /\ req'[b].retries = req[b].retries
      BY <1>0, <1>2 DEF BecomesOnly, Request
    <2> QED BY <1>0, <1>1, <1>2, <2>2, <2>3 DEF Steps
  <1>3. ASSUME UNCHANGED req, to # "none" => StateOf(to) = StateOf(from)
        PROVE  Steps(b)
    BY <1>0, <1>1, <1>3 DEF Steps
  <1> QED BY <1>2, <1>3

\* A step of process() after a call.
LEMMA GoOnType ==
    ASSUME Typed, NEW b \in Battery, GoOn(b)
    PROVE  Steps(b) /\ Writes(b)
  <1>0. /\ TypeOK /\ req[b] \in Request /\ req[b].target \in Mode /\ req[b].limit \in Limit
        /\ 0 \in Limit /\ "battery_standby" \in Mode
        /\ req[b].retries < MaxRetries \/ req[b].state = "failed"
        /\ await[b] # "none" => req[b].state = StateOf(await[b])
    BY NumbersAssumption, ModesAssumption DEF Typed, TypeOK, RetriesLeft, InPlace, Request
  <1>b. /\ FirstOfTarget(req[b]) \in {"check_fast", "mode"}
        /\ MaxRetries \in Nat \ {0} /\ req[b].retries \in 0..MaxRetries
        /\ took[b] \in 0..AgeCap
    BY <1>0, NumbersAssumption DEF FirstOfTarget, TypeOK, Request, Waits
  <1> USE DEF StateOf, State, Waiting, Terminal, Awaited
  <1>1. CASE ClearLimit(b)
    BY <1>0, <1>1, CallType, WriteLimitType DEF ClearLimit
  <1>2. CASE ClearFast(b)
    <2>1. PICK s \in {"clearing", "setting_target"}, to \in {"none", "check_fast", "mode"} :
             /\ Awaits(b, "clear_fast", to) /\ BecomesOnly(b, s)
             /\ to # "none" => s = "setting_target"
      BY <1>2, <1>b DEF ClearFast
    <2>2. Steps(b)
      BY <2>1, CallType
    <2> QED BY <1>0, <1>2, <2>2, WriteFastType DEF ClearFast
  <1>3. CASE WriteStandby(b)
    BY <1>0, <1>3, CallType, WriteModeType DEF WriteStandby
  <1>4. CASE CheckFast(b)
    <2>1. PICK to \in {"fast_off", "mode"} : Awaits(b, "check_fast", to)
      BY <1>4 DEF CheckFast
    <2>2. Steps(b)
      BY <1>4, <2>1, CallType DEF CheckFast
    <2> QED BY <1>0, <1>4, <2>2, ReadType DEF CheckFast
  <1>5. CASE FastOff(b)
    <2>1. Steps(b)
      BY <1>5, CallType DEF FastOff
    <2> QED BY <1>0, <1>5, <2>1, WriteFastType DEF FastOff
  <1>6. CASE TargetMode(b)
    BY <1>0, <1>6, CallType, WriteModeType DEF TargetMode
  <1>7. CASE TargetLimit(b)
    <2>1. PICK to \in {"fast_on", "none"} : Awaits(b, "limit", to)
      BY <1>7 DEF TargetLimit
    <2>2. Steps(b)
      BY <1>7, <2>1, CallType DEF TargetLimit
    <2> QED BY <1>0, <1>7, <2>2, WriteLimitType DEF TargetLimit
  <1>8. CASE TargetFast(b)
    BY <1>0, <1>8, CallType, WriteFastType DEF TargetFast
  <1>9. CASE ReadTarget(b)
    <2>1. Steps(b)
      BY <1>9, CallType DEF ReadTarget
    <2> QED BY <1>0, <1>9, <2>1, ReadType DEF ReadTarget
  <1>10. CASE VerifyFast(b)
    <2>1. CASE Awaits(b, "verify_fast", "verify_off") /\ UNCHANGED req
      BY <1>0, <1>10, <2>1, CallType, ReadType DEF VerifyFast
    <2>2. CASE Awaits(b, "verify_fast", "none") /\ BecomesOnly(b, "complete")
      BY <1>0, <1>10, <2>2, CallType, ReadType DEF VerifyFast
    <2> QED BY <1>10, <2>1, <2>2 DEF VerifyFast
  <1>11. CASE VerifyOff(b)
    <2>1. Steps(b)
      BY <1>11, CallType DEF VerifyOff
    <2> QED BY <1>0, <1>11, <2>1, WriteFastType DEF VerifyOff
  <1>12. CASE VerifyRetry(b)
    <2>1. req[b].retries + 1 \in 0..MaxRetries
      BY <1>b, <1>12 DEF VerifyRetry
    <2>2. [req[b] EXCEPT !.state = "setting_target", !.age = took[b],
                         !.retries = req[b].retries + 1] \in Request
      BY <1>0, <1>b, <2>1, RequestType
    <2>3. /\ req' \in [Battery -> Request] /\ req'[b].state = "setting_target"
          /\ req'[b].retries < MaxRetries /\ \A c \in Battery : c # b => req'[c] = req[c]
      BY <1>0, <1>12, <2>2 DEF VerifyRetry, TypeOK, Request
    <2>4. Writes(b)
      BY <1>0, <1>12, ReadType DEF VerifyRetry
    <2> QED BY <1>0, <1>b, <1>12, <2>3, <2>4, AwaitsType DEF VerifyRetry, Steps
  <1>13. CASE VerifyFail(b)
    <2>1. req[b].state = "verifying"
      BY <1>0, <1>13 DEF VerifyFail, Awaits
    <2>2. req[b].retries + 1 \in 0..MaxRetries
      BY <1>0, <1>b, <2>1
    <2>3. [req[b] EXCEPT !.state = "failed", !.retries = req[b].retries + 1] \in Request
      BY <1>0, <2>2, RequestType
    <2>4. /\ req' \in [Battery -> Request] /\ req'[b].state = "failed"
          /\ \A c \in Battery : c # b => req'[c] = req[c]
      BY <1>0, <1>13, <2>3 DEF VerifyFail, TypeOK, Request
    <2>5. Writes(b)
      BY <1>0, <1>13, ReadType DEF VerifyFail
    <2> QED BY <1>0, <1>13, <2>4, <2>5, AwaitsType DEF VerifyFail, Steps
  <1> QED BY <1>1, <1>2, <1>3, <1>4, <1>5, <1>6, <1>7, <1>8, <1>9, <1>10, <1>11, <1>12, <1>13
          DEF GoOn

\* Every step keeps the types and the places of the calls.
LEMMA TypeStep == Typed /\ [Next]_vars => Typed'
  <1> SUFFICES ASSUME Typed, [Next]_vars PROVE Typed'
    OBVIOUS
  <1>0. /\ TypeOK /\ RetriesLeft /\ InPlace
        /\ req \in [Battery -> Request] /\ await \in [Battery -> Awaited]
        /\ "none" \in Awaited /\ 0 \in 0..CallTime
        /\ calls \in 0..MaxCalls /\ MaxCalls \in Nat
    BY NumbersAssumption DEF Typed, TypeOK, Awaited
  <1>1. ASSUME NEW b \in Battery, NEW q \in Request, Ask(b, q), q.retries < MaxRetries
        PROVE  Typed'
    <2>1. calls' \in 0..MaxCalls
      BY <1>0, <1>1 DEF Ask, Call
    <2> QED BY <1>0, <1>1, <2>1
            DEF Ask, Free, Typed, TypeOK, RetriesLeft, InPlace, registers
  <1>2. CASE \E b \in Battery, m \in Mode, l \in Limit : RequestChange(b, m, l)
    <2>1. PICK b \in Battery, m \in Mode, l \in Limit : RequestChange(b, m, l)
      BY <1>2
    <2>2. NewRequest(m, l, FALSE, FALSE) \in Request
      BY NewRequestType
    <2>3. NewRequest(m, l, FALSE, FALSE).retries < MaxRetries
      BY NumbersAssumption DEF NewRequest
    <2> QED BY <1>1, <2>1, <2>2, <2>3 DEF RequestChange
  <1>3. CASE \E b \in Battery, m \in EmergencyTarget, f \in BOOLEAN :
                EmergencyModeChange(b, m, f)
    <2>1. PICK b \in Battery, m \in EmergencyTarget, f \in BOOLEAN :
              EmergencyModeChange(b, m, f)
      BY <1>3
    <2>2. NewRequest(m, 0, f, TRUE) \in Request
      BY NewRequestType, ModesAssumption, NumbersAssumption
    <2>3. NewRequest(m, 0, f, TRUE).retries < MaxRetries
      BY NumbersAssumption DEF NewRequest
    <2> QED BY <1>1, <2>1, <2>2, <2>3 DEF EmergencyModeChange
  <1>4. CASE \E b \in Battery : Cancel(b)
    BY <1>1, <1>4, NewRequestType, NumbersAssumption DEF Cancel, NoRequest
  <1>5. CASE Restart
    <2>1. calls' \in 0..MaxCalls
      BY <1>0, <1>5 DEF Restart, Call
    <2>2. NoRequest \in Request /\ NoRequest.retries < MaxRetries
      BY NewRequestType, NumbersAssumption DEF NoRequest
    <2> QED BY <1>0, <1>5, <2>1, <2>2
            DEF Restart, Typed, TypeOK, RetriesLeft, InPlace, registers
  <1>6. ASSUME NEW b \in Battery, Process(b) PROVE Typed'
    <2>1. Steps(b) /\ Writes(b)
      BY <1>6, BeginType, GoOnType DEF Process
    <2> QED BY <1>0, <2>1 DEF Steps, Writes, Typed, TypeOK, RetriesLeft, InPlace
  <1>7. ASSUME NEW b \in Battery, Drift(b) PROVE Typed'
    <2>0. inv[b] \in Register /\ 0 \in 0..AgeCap
      BY <1>0, NumbersAssumption DEF TypeOK
    <2>1. [inv[b] EXCEPT !.fc = TRUE] \in Register
      BY <2>0 DEF Register
    <2>2. inv' \in [Battery -> Register] /\ lit' \in [Battery -> 0..AgeCap]
      BY <1>0, <1>7, <2>0, <2>1 DEF Drift, TypeOK
    <2> QED BY <1>0, <1>7, <2>2
            DEF Drift, requests, Typed, TypeOK, RetriesLeft, InPlace
  <1>8. CASE Tick
    <2>1. ASSUME NEW b \in Battery
          PROVE  /\ Older(dwell[b], 1) \in 0..AgeCap /\ Older(lit[b], 1) \in 0..AgeCap
                 /\ req'[b] \in Request /\ req'[b].retries = req[b].retries
                 /\ req'[b].state = req[b].state
      <3>1. dwell[b] \in 0..AgeCap /\ lit[b] \in 0..AgeCap /\ req[b] \in Request
            /\ req[b].age \in 0..AgeCap
        BY <1>0 DEF TypeOK, Request
      <3>2. [req[b] EXCEPT !.age = Older(req[b].age, 1)] \in Request
        BY <3>1, OlderType, RequestType
      <3>3. req'[b] = req[b] \/ req'[b] = [req[b] EXCEPT !.age = Older(req[b].age, 1)]
        BY <1>8 DEF Tick, AgeRequests
      <3> QED BY <3>1, <3>2, <3>3, OlderType DEF Request
    <2>2. /\ req' \in [Battery -> Request]
          /\ dwell' \in [Battery -> 0..AgeCap] /\ lit' \in [Battery -> 0..AgeCap]
      <3>1. req' = [b \in Battery |-> req'[b]]
        BY <1>8 DEF Tick, AgeRequests
      <3> QED BY <1>8, <2>1, <3>1 DEF Tick
    <2>3. took' \in [Battery -> 0..CallTime]
      BY <1>0, <1>8, NumbersAssumption DEF Tick, TypeOK
    <2> QED BY <1>0, <1>8, <2>1, <2>2, <2>3
            DEF Tick, Typed, TypeOK, RetriesLeft, InPlace
  <1>9. CASE UNCHANGED vars
    BY <1>0, <1>9 DEF vars, requests, registers, Typed, TypeOK, RetriesLeft, InPlace
  <1> QED BY <1>2, <1>3, <1>4, <1>5, <1>6, <1>7, <1>8, <1>9 DEF Next

\* Type correctness: every variable keeps its type, whatever is lost; with it
\* no request is ever retried more than max_retries times.
THEOREM TypeCorrect == Spec => []TypeOK
  <1>1. Spec => []Typed
    BY TypeInit, TypeStep, PTL DEF Spec
  <1> QED BY <1>1, PTL DEF Typed

------------------------------------------------------------------------------
(* When no write is lost, the protocol keeps its hold on the inverter.     *)

Direct == SkipClear \cup SkipStandby \cup EmergencyTarget

\* While the target is still to be written the inverter may enter it, and when its mode is
\* written fast_charging has been seen off, or came on after that.
MayGo(b) ==
    /\ await[b] \in {"check_fast", "fast_off", "mode"} =>
          \/ req[b].target \in Direct
          \/ inv[b].mode = "battery_standby" /\ dwell[b] + CallTime >= StandbyWait
    /\ (await[b] = "mode" /\ req[b].target = "discharge_pv" /\ inv[b].fc) => lit[b] <= took[b]

\* What has been written when the calls of a step are partly done.
Partly(b) ==
    /\ await[b] = "clear_fast" => inv[b].limit = 0
    /\ await[b] = "standby" => req[b].age <= took[b]
    /\ await[b] \in {"limit", "fast_on"} => inv[b].mode = req[b].target
    /\ await[b] = "fast_on" => inv[b].limit = req[b].limit

\* Only emergency_mode_change asks for an emergency, and only with its targets.
EmergencyDirect(b) == req[b].emergency => req[b].target \in EmergencyTarget

\* The properties for b, in its states ...
KeptAt(b) ==
    /\ req[b].state \in {"clearing", "standby_wait"} => inv[b].limit = 0
    /\ req[b].state = "standby_wait" =>
          \/ await[b] = "standby"
          \/ inv[b].mode = "battery_standby" /\ dwell[b] + CallTime >= req[b].age
    /\ (\/ req[b].state = "setting_target" /\ await[b] = "none"
        \/ req[b].state \in {"verifying", "failed", "complete"})
        => inv[b].mode = req[b].target /\ inv[b].limit = req[b].limit
    /\ (req[b].state = "complete" /\ req[b].target = "discharge_pv" /\ inv[b].fc) =>
          lit[b] <= req[b].age

\* ... and what they need of each other, step by step.
HeldAt(b) == KeptAt(b) /\ MayGo(b) /\ Partly(b) /\ EmergencyDirect(b)

Held == Typed /\ \A b \in Battery : HeldAt(b)

\* The start: no request, nothing to hold.
LEMMA HeldInit == Init => Held
  BY TypeInit
  DEF Init, Held, HeldAt, KeptAt, MayGo, Partly, EmergencyDirect, NoRequest

\* What a change of state leaves of a request.
SameAsked(b) ==
    /\ req'[b].target = req[b].target /\ req'[b].limit = req[b].limit
    /\ req'[b].fc = req[b].fc /\ req'[b].emergency = req[b].emergency

\* It leaves what was asked for.
LEMMA Becomes ==
    ASSUME TypeOK, NEW b \in Battery, NEW s
    PROVE  /\ GoTo(b, s) => SameAsked(b) /\ req'[b].state = s /\ req'[b].age = 0
           /\ BecomesOnly(b, s) => SameAsked(b) /\ req'[b].state = s /\ req'[b].age = req[b].age
           /\ req[b].age \in 0..AgeCap
  <1>1. req \in [Battery -> Request] /\ req[b] \in Request
    BY DEF TypeOK
  <1>2. GoTo(b, s) => req'[b] = [req[b] EXCEPT !.state = s, !.age = 0]
    BY <1>1 DEF GoTo
  <1>3. BecomesOnly(b, s) => req'[b] = [req[b] EXCEPT !.state = s]
    BY <1>1 DEF BecomesOnly
  <1> QED BY <1>1, <1>2, <1>3 DEF Request, SameAsked

\* A step that begins keeps the hold.
LEMMA BeginHolds ==
    ASSUME ~faulty, Typed, NEW b \in Battery, HeldAt(b), Begin(b)
    PROVE  HeldAt(b)'
  <1>0. /\ TypeOK /\ UNCHANGED <<inv, dwell, lit>>
        /\ await[b] = "none" /\ took'[b] = 0
        /\ dwell[b] \in Nat /\ CallTime \in Nat /\ StandbyWait \in Nat
    BY NumbersAssumption
    DEF Typed, TypeOK, Begin, Prepare, EnterStandby, SetTarget, StartVerify, Verify, Prune,
        Begins, Awaits, NoWrite, registers, Waits
  <1>n. \A c \in Awaited : Begins(b, c) => await'[b] = c
    BY <1>0, AwaitsType DEF Begins
  <1> USE DEF HeldAt, KeptAt, MayGo, Partly, EmergencyDirect, SameAsked
  <1>1. CASE Prepare(b)
    <2>1. await'[b] = "clear_limit"
      BY <1>1, <1>n DEF Prepare, Awaited
    <2>2. req'[b] = [req[b] EXCEPT !.age = 0] /\ req[b] \in Request
      BY <1>0, <1>1 DEF Prepare, TypeOK
    <2>3. /\ req'[b].state = "idle" /\ req'[b].target = req[b].target
          /\ req'[b].emergency = req[b].emergency
      BY <1>1, <2>2 DEF Prepare, Request
    <2> QED BY <1>0, <2>1, <2>3
  <1>2. CASE EnterStandby(b)
    <2>1. await'[b] = "standby"
      BY <1>2, <1>n DEF EnterStandby, Awaited
    <2>2. /\ req'[b].state = "standby_wait" /\ req'[b].age = 0
          /\ req'[b].target = req[b].target /\ req'[b].emergency = req[b].emergency
      BY <1>0, <1>2, Becomes DEF EnterStandby
    <2> QED BY <1>0, <1>2, <2>1, <2>2 DEF EnterStandby
  <1>3. CASE SetTarget(b)
    <2>1. /\ await'[b] = FirstOfTarget(req[b])
          /\ await'[b] \in {"check_fast", "mode"}
          /\ await'[b] = "mode" => req[b].target # "discharge_pv"
      BY <1>3, <1>n DEF SetTarget, Awaited, FirstOfTarget
    <2>2. /\ req'[b].state = "setting_target"
          /\ req'[b].target = req[b].target /\ req'[b].emergency = req[b].emergency
      BY <1>0, <1>3, Becomes DEF SetTarget
    <2>3. \/ req[b].target \in Direct
          \/ inv[b].mode = "battery_standby" /\ dwell[b] + CallTime >= StandbyWait
      <3>1. req[b].age \in Nat
        BY <1>0, Becomes, NumbersAssumption
      <3> QED BY <1>0, <1>3, <3>1 DEF SetTarget, Expired, Direct
    <2> QED BY <1>0, <2>1, <2>2, <2>3
  <1>4. CASE StartVerify(b)
    <2>1. await'[b] = "none"
      BY <1>4, <1>n DEF StartVerify, Awaited
    <2>2. /\ req'[b].state = "verifying" /\ req'[b].limit = req[b].limit
          /\ req'[b].target = req[b].target /\ req'[b].emergency = req[b].emergency
      BY <1>0, <1>4, Becomes DEF StartVerify
    <2> QED BY <1>0, <1>4, <2>1, <2>2 DEF StartVerify
  <1>5. CASE Verify(b)
    <2>1. await'[b] = "read_mode" /\ req' = req /\ req[b].state = "verifying"
      BY <1>5, <1>n DEF Verify, Awaited
    <2> QED BY <1>0, <2>1
  <1>6. CASE Prune(b)
    <2>1. await'[b] = "none" /\ req'[b] = NoRequest
      BY <1>0, <1>6, <1>n DEF Prune, Awaited, TypeOK
    <2> QED BY <1>0, <2>1 DEF NoRequest
  <1> QED BY <1>1, <1>2, <1>3, <1>4, <1>5, <1>6 DEF Begin

\* A step after a call keeps the hold.
LEMMA GoOnHolds ==
    ASSUME ~faulty, Typed, NEW b \in Battery, HeldAt(b), GoOn(b)
    PROVE  HeldAt(b)'
  <1>0. /\ TypeOK /\ req[b].target \in Mode /\ req[b].limit \in Limit /\ 0 \in Limit
        /\ "battery_standby" \in Mode
        /\ dwell[b] \in Nat /\ lit[b] \in Nat /\ took[b] \in 0..CallTime
        /\ CallTime \in Nat /\ StandbyWait \in Nat /\ req[b].age \in Nat
        /\ await[b] # "none" => req[b].state = StateOf(await[b])
        /\ inv[b].mode \in Mode /\ inv[b].fc \in BOOLEAN
    BY NumbersAssumption, ModesAssumption
    DEF Typed, TypeOK, InPlace, Request, Register, Waits
  <1>n. \A c \in Awaited, d \in Awaited : Awaits(b, c, d) =>
            await[b] = c /\ await'[b] = d /\ took'[b] = 0
    BY <1>0, AwaitsType
  <1>r. NoWrite => inv' = inv /\ dwell' = dwell /\ lit' = lit
    BY DEF NoWrite, registers
  <1> USE DEF HeldAt, KeptAt, MayGo, Partly, EmergencyDirect, SameAsked, StateOf, Awaited
  <1>1. CASE ClearLimit(b)
    <2>1. /\ await'[b] = "clear_fast" /\ req' = req /\ req[b].state = "idle"
      BY <1>0, <1>1, <1>n DEF ClearLimit
    <2>2. inv'[b].limit = 0
      BY <1>0, <1>1, WriteLimitType DEF ClearLimit
    <2> QED BY <1>0, <2>1, <2>2
  <1>2. CASE ClearFast(b)
    <2>1. await[b] = "clear_fast" /\ inv[b].limit = 0
      BY <1>2 DEF ClearFast, Awaits
    <2>2. inv'[b].limit = 0
      BY <1>0, <1>2, <2>1, WriteFastType DEF ClearFast
    <2>3. CASE ~SkipsBoth(req[b])
      <3>1. await'[b] = "none" /\ req'[b].state = "clearing" /\ SameAsked(b)
        BY <1>0, <1>2, <1>n, <2>3, Becomes DEF ClearFast
      <3> QED BY <2>2, <3>1
    <2>4. CASE SkipsBoth(req[b])
      <3>1. FirstOfTarget(req[b]) \in {"check_fast", "mode"}
        BY DEF FirstOfTarget
      <3>2. /\ await'[b] = FirstOfTarget(req[b])
            /\ req'[b].state = "setting_target" /\ SameAsked(b)
        BY <1>0, <1>2, <1>n, <2>4, <3>1, Becomes DEF ClearFast
      <3>3. req[b].target \in Direct
        BY <2>4 DEF SkipsBoth, Direct
      <3> QED BY <3>1, <3>2, <3>3 DEF FirstOfTarget
    <2> QED BY <2>3, <2>4
  <1>3. CASE WriteStandby(b)
    <2>1. await[b] = "standby" /\ await'[b] = "none" /\ req' = req
      BY <1>3, <1>n DEF WriteStandby
    <2>2. /\ inv'[b].mode = "battery_standby" /\ inv'[b].limit = inv[b].limit
          /\ dwell'[b] \in Nat
      BY <1>0, <1>3, WriteModeType, NumbersAssumption DEF WriteStandby, Writes
    <2> QED BY <1>0, <2>1, <2>2
  <1>4. CASE CheckFast(b)
    <2>1. PICK on \in BOOLEAN : /\ ReadsFast(b, on)
                               /\ Awaits(b, "check_fast", IF on THEN "fast_off" ELSE "mode")
      BY <1>4 DEF CheckFast
    <2>2. on = inv[b].fc
      BY <2>1 DEF ReadsFast, Answer
    <2>3. /\ await[b] = "check_fast" /\ await'[b] \in {"fast_off", "mode"}
          /\ (await'[b] = "mode" => ~inv[b].fc)
      BY <1>n, <2>1, <2>2
    <2>4. inv' = inv /\ dwell' = dwell /\ req' = req
      BY <1>4, <1>r DEF CheckFast
    <2> QED BY <1>0, <2>3, <2>4
  <1>5. CASE FastOff(b)
    <2>1. await[b] = "fast_off" /\ await'[b] = "mode" /\ req' = req
      BY <1>5, <1>n DEF FastOff
    <2>2. /\ inv'[b].mode = inv[b].mode /\ ~inv'[b].fc /\ dwell' = dwell
      BY <1>0, <1>5, WriteFastType DEF FastOff
    <2> QED BY <1>0, <2>1, <2>2
  <1>6. CASE TargetMode(b)
    <2>1. await[b] = "mode" /\ await'[b] = "limit" /\ req' = req
      BY <1>6, <1>n DEF TargetMode
    <2>2. inv'[b].mode = req[b].target
      BY <1>0, <1>6, WriteModeType DEF TargetMode
    <2> QED BY <1>0, <2>1, <2>2
  <1>7. CASE TargetLimit(b)
    <2>1. /\ await[b] = "limit" /\ await'[b] \in {"fast_on", "none"} /\ req' = req
      BY <1>7, <1>n DEF TargetLimit
    <2>2. inv'[b].mode = inv[b].mode /\ inv'[b].limit = req[b].limit
      BY <1>0, <1>7, WriteLimitType DEF TargetLimit
    <2> QED BY <1>0, <2>1, <2>2
  <1>8. CASE TargetFast(b)
    <2>1. await[b] = "fast_on" /\ await'[b] = "none" /\ req' = req
      BY <1>8, <1>n DEF TargetFast
    <2>2. inv'[b].mode = inv[b].mode /\ inv'[b].limit = inv[b].limit
      BY <1>0, <1>8, WriteFastType DEF TargetFast
    <2> QED BY <1>0, <2>1, <2>2
  <1>9. CASE ReadTarget(b)
    <2>1. inv' = inv /\ lit' = lit
      BY <1>9, <1>r DEF ReadTarget
    <2>2. CASE req[b].target = "discharge_pv"
      <3>1. await[b] = "read_mode" /\ await'[b] = "verify_fast" /\ req' = req
        BY <1>9, <1>n, <2>2 DEF ReadTarget
      <3> QED BY <1>0, <2>1, <3>1
    <2>3. CASE req[b].target # "discharge_pv"
      <3>1. /\ await[b] = "read_mode" /\ await'[b] = "none"
            /\ req'[b].state = "complete" /\ SameAsked(b)
        BY <1>0, <1>9, <1>n, <2>3, Becomes DEF ReadTarget
      <3> QED BY <1>0, <2>1, <2>3, <3>1
    <2> QED BY <2>2, <2>3
  <1>10. CASE VerifyFast(b)
    <2>1. inv' = inv /\ lit' = lit /\ await[b] = "verify_fast"
      BY <1>10, <1>r DEF VerifyFast, Awaits
    <2>2. CASE Awaits(b, "verify_fast", "verify_off") /\ UNCHANGED req
      <3>1. await'[b] = "verify_off"
        BY <1>n, <2>2
      <3> QED BY <1>0, <2>1, <2>2, <3>1
    <2>3. CASE ReadsFast(b, FALSE) /\ Awaits(b, "verify_fast", "none") /\ BecomesOnly(b, "complete")
      <3>1. ~inv[b].fc
        BY <2>3 DEF ReadsFast, Answer
      <3>2. await'[b] = "none" /\ req'[b].state = "complete" /\ SameAsked(b)
        BY <1>0, <1>n, <2>3, Becomes
      <3> QED BY <1>0, <2>1, <3>1, <3>2
    <2> QED BY <1>10, <2>2, <2>3 DEF VerifyFast
  <1>11. CASE VerifyOff(b)
    <2>1. /\ await[b] = "verify_off" /\ await'[b] = "none"
          /\ req'[b].state = "complete" /\ SameAsked(b)
      BY <1>0, <1>11, <1>n, Becomes DEF VerifyOff
    <2>2. inv'[b].mode = inv[b].mode /\ inv'[b].limit = inv[b].limit /\ ~inv'[b].fc
      BY <1>0, <1>11, WriteFastType DEF VerifyOff
    <2> QED BY <1>0, <2>1, <2>2
  <1>12. CASE VerifyRetry(b) \/ VerifyFail(b)
    <2>1. req[b].state = "verifying"
      BY <1>0, <1>12 DEF VerifyRetry, VerifyFail, Awaits
    <2>2. inv[b].mode # req[b].target
      BY <1>12 DEF VerifyRetry, VerifyFail, ReadsOther, Answer
    <2> QED BY <2>1, <2>2
  <1> QED BY <1>1, <1>2, <1>3, <1>4, <1>5, <1>6, <1>7, <1>8, <1>9, <1>10, <1>11, <1>12 DEF GoOn

\* Time passes for a battery: its timers and those of its inverter stay in order.
LEMMA TickHolds ==
    ASSUME Typed, NEW b \in Battery, HeldAt(b), Tick
    PROVE  HeldAt(b)'
  <1> DEFINE aged == [req[b] EXCEPT !.age = Older(@, 1)]
  <1>0. /\ TypeOK /\ req[b] \in Request /\ req[b].age \in 0..AgeCap
        /\ dwell[b] \in 0..AgeCap /\ lit[b] \in 0..AgeCap /\ took[b] \in 0..CallTime
        /\ AgeCap \in Nat /\ CallTime \in Nat /\ StandbyWait \in Nat
        /\ await[b] # "none" => req[b].state = StateOf(await[b])
    BY NumbersAssumption DEF Typed, TypeOK, InPlace, Request, Waits
  <1>1. /\ aged.state = req[b].state /\ aged.target = req[b].target
        /\ aged.limit = req[b].limit /\ aged.fc = req[b].fc
        /\ aged.emergency = req[b].emergency /\ aged.age = Older(req[b].age, 1)
    BY <1>0 DEF Request
  <1>2. /\ inv' = inv /\ await' = await
        /\ dwell'[b] = Older(dwell[b], 1) /\ lit'[b] = Older(lit[b], 1)
        /\ await[b] # "none" => took'[b] = took[b] + 1
        /\ req'[b] = IF Runs(b) THEN aged ELSE req[b]
    BY <1>0 DEF Tick, AgeRequests, TypeOK
  <1>3. /\ Older(req[b].age, 1) >= req[b].age /\ Older(req[b].age, 1) <= req[b].age + 1
        /\ Older(dwell[b], 1) >= dwell[b] /\ Older(lit[b], 1) <= lit[b] + 1
        /\ Older(req[b].age, 1) \in Nat /\ Older(dwell[b], 1) \in Nat /\ Older(lit[b], 1) \in Nat
        /\ lit[b] <= req[b].age => Older(lit[b], 1) <= Older(req[b].age, 1)
    BY <1>0, OlderType
  <1>4. dwell[b] + CallTime >= req[b].age =>
            Older(dwell[b], 1) + CallTime >= Older(req[b].age, 1)
    BY <1>0 DEF Older
  <1>5. /\ req'[b].state = req[b].state /\ req'[b].target = req[b].target
        /\ req'[b].limit = req[b].limit /\ req'[b].emergency = req[b].emergency
        /\ req'[b].age = IF Runs(b) THEN Older(req[b].age, 1) ELSE req[b].age
    BY <1>1, <1>2
  <1>6. req[b].state \in {"standby_wait", "complete"} \/ await[b] = "standby" => Runs(b)
    BY DEF Runs, Waiting, Terminal
  <1> HIDE DEF aged
  <1>7. KeptAt(b)'
    BY <1>0, <1>2, <1>3, <1>4, <1>5, <1>6 DEF HeldAt, KeptAt
  <1>8. MayGo(b)'
    BY <1>0, <1>2, <1>3, <1>5 DEF HeldAt, MayGo
  <1>9. Partly(b)'
    BY <1>0, <1>2, <1>3, <1>5, <1>6 DEF HeldAt, Partly
  <1>10. EmergencyDirect(b)'
    BY <1>5 DEF HeldAt, EmergencyDirect
  <1> QED BY <1>7, <1>8, <1>9, <1>10 DEF HeldAt

\* A battery nothing is done to keeps its hold.
LEMMA SameHolds ==
    ASSUME NEW b \in Battery, HeldAt(b),
           req'[b] = req[b], await'[b] = await[b], took'[b] = took[b],
           inv'[b] = inv[b], dwell'[b] = dwell[b], lit'[b] = lit[b]
    PROVE  HeldAt(b)'
  BY DEF HeldAt, KeptAt, MayGo, Partly, EmergencyDirect

\* A request that replaces another while no call is awaited.
LEMMA AskHolds ==
    ASSUME Typed, NEW b \in Battery, NEW q, Ask(b, q), q.state \in {"idle", "absent"},
           q.emergency => q.target \in EmergencyTarget,
           \A c \in Battery : HeldAt(c)
    PROVE  \A c \in Battery : HeldAt(c)'
  <1>1. /\ req' = [req EXCEPT ![b] = q] /\ req \in [Battery -> Request]
        /\ await' = await /\ took' = took /\ inv' = inv /\ dwell' = dwell /\ lit' = lit
        /\ await[b] = "none"
    BY DEF Typed, TypeOK, Ask, Free, registers
  <1>2. HeldAt(b)'
    BY <1>1 DEF HeldAt, KeptAt, MayGo, Partly, EmergencyDirect
  <1>3. ASSUME NEW c \in Battery, c # b PROVE HeldAt(c)'
    BY <1>1, <1>3, SameHolds
  <1> QED BY <1>2, <1>3

\* Every step keeps the hold, and no step makes Home Assistant fail.
LEMMA HeldStep == ~faulty /\ Held /\ [Next]_vars => (~faulty /\ Held)'
  <1> SUFFICES ASSUME ~faulty, Held, [Next]_vars
               PROVE  ~faulty' /\ \A c \in Battery : HeldAt(c)'
    BY TypeStep DEF Held
  <1>0. Typed /\ TypeOK /\ \A c \in Battery : HeldAt(c)
    BY DEF Held, Typed
  <1>1. CASE UNCHANGED vars
    BY <1>0, <1>1, SameHolds DEF vars, requests, registers
  <1>2. CASE \E b \in Battery, m \in Mode, l \in Limit : RequestChange(b, m, l)
    <2>1. PICK b \in Battery, m \in Mode, l \in Limit : Ask(b, NewRequest(m, l, FALSE, FALSE))
      BY <1>2 DEF RequestChange
    <2>2. faulty' = faulty
      BY <2>1 DEF Ask
    <2> QED BY <1>0, <2>1, <2>2, AskHolds DEF NewRequest
  <1>3. CASE \E b \in Battery, m \in EmergencyTarget, f \in BOOLEAN :
                EmergencyModeChange(b, m, f)
    <2>1. PICK b \in Battery, m \in EmergencyTarget, f \in BOOLEAN :
              Ask(b, NewRequest(m, 0, f, TRUE))
      BY <1>3 DEF EmergencyModeChange
    <2>2. faulty' = faulty
      BY <2>1 DEF Ask
    <2> QED BY <1>0, <2>1, <2>2, AskHolds DEF NewRequest
  <1>4. CASE \E b \in Battery : Cancel(b)
    <2>1. PICK b \in Battery : Ask(b, NoRequest)
      BY <1>4 DEF Cancel
    <2>2. faulty' = faulty
      BY <2>1 DEF Ask
    <2> QED BY <1>0, <2>1, <2>2, AskHolds DEF NoRequest
  <1>5. CASE Restart
    BY <1>5 DEF Restart, registers, NoRequest, HeldAt, KeptAt, MayGo, Partly, EmergencyDirect
  <1>6. CASE \E b \in Battery : Process(b)
    <2>1. PICK b \in Battery : Process(b)
      BY <1>6
    <2>2. Steps(b) /\ Writes(b)
      BY <1>0, <2>1, BeginType, GoOnType DEF Process
    <2>3. HeldAt(b)'
      BY <1>0, <2>1, BeginHolds, GoOnHolds DEF Process
    <2>4. ASSUME NEW c \in Battery, c # b PROVE HeldAt(c)'
      BY <1>0, <2>2, <2>4, SameHolds DEF Steps, Writes
    <2> QED BY <2>2, <2>3, <2>4 DEF Writes
  <1>7. CASE \E b \in Battery : Drift(b)
    <2>1. PICK b \in Battery : Drift(b)
      BY <1>7
    <2>2. /\ inv' = [inv EXCEPT ![b].fc = TRUE] /\ lit' = [lit EXCEPT ![b] = 0]
          /\ req' = req /\ await' = await /\ took' = took /\ dwell' = dwell /\ faulty' = faulty
      BY <2>1 DEF Drift, requests
    <2>3. /\ inv'[b].mode = inv[b].mode /\ inv'[b].limit = inv[b].limit /\ lit'[b] = 0
          /\ took[b] >= 0 /\ req[b].age >= 0
      BY <1>0, <2>2, NumbersAssumption DEF TypeOK, Register, Request
    <2>4. HeldAt(b)'
      BY <1>0, <2>2, <2>3 DEF HeldAt, KeptAt, MayGo, Partly, EmergencyDirect
    <2>5. ASSUME NEW c \in Battery, c # b PROVE HeldAt(c)'
      BY <1>0, <2>2, <2>5, SameHolds DEF TypeOK
    <2> QED BY <2>2, <2>4, <2>5
  <1>8. CASE Tick
    BY <1>0, <1>8, TickHolds DEF Tick
  <1> QED BY <1>1, <1>2, <1>3, <1>4, <1>5, <1>6, <1>7, <1>8 DEF Next

\* A behaviour in which Home Assistant fails stays one, and promises only its types.
Kept == Typed /\ (~faulty => Held)

LEMMA KeptStep == Kept /\ [Next]_vars => Kept'
  <1> SUFFICES ASSUME Kept, [Next]_vars PROVE Kept'
    OBVIOUS
  <1>1. Typed'
    BY TypeStep DEF Kept
  <1>2. faulty' = faulty
    <2>1. ASSUME NEW b \in Battery, Process(b) PROVE faulty' = faulty
      BY <2>1, BeginType, GoOnType DEF Process, Writes, Kept
    <2> QED BY <2>1 DEF Next, RequestChange, EmergencyModeChange, Cancel, Ask, Restart, Drift,
                        Tick, vars
  <1> QED BY <1>1, <1>2, HeldStep DEF Kept

\* Where writes land and reads tell the truth, the limits of a request that waits are cleared,
\* its timer runs ahead of the standby dwell by one call at most, the inverter holds what was
\* asked for from the moment it was written, and fast_charging is off after a discharge was
\* verified, unless it came on later: for any batteries, waits and callers.
THEOREM ProtocolHolds == Spec => []ProtocolKept
  <1>1. Init => Kept
    BY HeldInit DEF Kept, Held
  <1>2. Held => ClearedWhileWaiting /\ StandbyHeld /\ TargetHeld /\ FastVerified
    BY DEF Held, HeldAt, KeptAt, ClearedWhileWaiting, StandbyHeld, TargetHeld, FastVerified
  <1>3. Kept => ProtocolKept
    BY <1>2 DEF Kept, ProtocolKept
  <1> QED BY <1>1, <1>3, KeptStep, PTL DEF Spec

------------------------------------------------------------------------------
(* What the inverter sees.                                                 *)

\* A step that leaves mode, fast_charging and their times alone is none for the inverter.
LEMMA Stutters ==
    ASSUME UNCHANGED faulty, UNCHANGED dwell, UNCHANGED lit,
           \A c \in Battery : inv'[c].mode = inv[c].mode /\ inv'[c].fc = inv[c].fc
    PROVE  UNCHANGED Contract!vars
  BY DEF Contract!vars

\* A write of the mode is a step of the contract where the firmware may enter it.
LEMMA ModeMaps ==
    ASSUME Typed, NEW b \in Battery, NEW m \in Mode, WriteMode(b, m),
           ~faulty => \/ m = "battery_standby"
                      \/ m \in Direct
                      \/ inv[b].mode = "battery_standby" /\ dwell[b] + CallTime >= StandbyWait,
           ~faulty => ((m = "discharge_pv" /\ inv[b].fc) => lit[b] <= CallTime)
    PROVE  [Contract!Next]_Contract!vars
  <1>0. /\ TypeOK /\ inv \in [Battery -> Register] /\ inv[b] \in Register
        /\ dwell[b] \in Nat /\ CallTime \in Nat /\ StandbyWait \in Nat
        /\ dwell \in [Battery -> 0..AgeCap]
    BY NumbersAssumption DEF Typed, TypeOK, Waits
  <1>1. PICK x \in Outcome(m, inv[b].mode) :
          /\ inv' = [inv EXCEPT ![b].mode = x]
          /\ dwell' = [dwell EXCEPT ![b] = IF x = inv[b].mode THEN @ ELSE 0]
          /\ lit' = lit /\ faulty' = faulty
    BY DEF WriteMode
  <1>2. \A c \in Battery : /\ inv'[c].fc = inv[c].fc
                           /\ inv'[c].mode = IF c = b THEN x ELSE inv[c].mode
    BY <1>0, <1>1 DEF Register
  <1>3. CASE x = inv[b].mode
    <2>1. dwell' = dwell
      BY <1>0, <1>1, <1>3
    <2> QED BY <1>1, <1>2, <1>3, <2>1, Stutters
  <1>4. CASE x # inv[b].mode
    <2>1. x = m
      BY <1>1, <1>4 DEF Outcome
    <2>2. /\ [c \in Battery |-> inv'[c].mode] = [[c \in Battery |-> inv[c].mode] EXCEPT ![b] = m]
          /\ [c \in Battery |-> inv'[c].fc] = [c \in Battery |-> inv[c].fc]
      BY <1>2, <2>1
    <2>3. ~faulty => Contract!MayEnter(b, m)
      <3>1. CASE CallTime < StandbyWait
        BY <1>0, <3>1 DEF Contract!MayEnter, Direct
      <3>2. CASE ~(CallTime < StandbyWait)
        BY <1>0, <3>2 DEF Contract!MayEnter, Direct
      <3> QED BY <3>1, <3>2
    <2>4. Contract!SetMode(b, m)
      BY <1>1, <1>4, <2>1, <2>2, <2>3 DEF Contract!SetMode
    <2> QED BY <2>4 DEF Contract!Next
  <1> QED BY <1>3, <1>4

\* A write of fast_charging is one too, or changes nothing.
LEMMA FastMaps ==
    ASSUME Typed, NEW b \in Battery, NEW on \in BOOLEAN, WriteFast(b, on)
    PROVE  [Contract!Next]_Contract!vars
  <1>0. /\ inv \in [Battery -> Register] /\ inv[b] \in Register /\ inv[b].fc \in BOOLEAN
        /\ lit \in [Battery -> 0..AgeCap]
    BY DEF Typed, TypeOK, Register
  <1>1. PICK x \in Outcome(on, inv[b].fc) :
          /\ inv' = [inv EXCEPT ![b].fc = x]
          /\ lit' = [lit EXCEPT ![b] = IF x = inv[b].fc THEN @ ELSE IF x THEN 0 ELSE AgeCap]
          /\ dwell' = dwell /\ faulty' = faulty
    BY DEF WriteFast
  <1>2. x \in BOOLEAN
    BY <1>0, <1>1 DEF Outcome
  <1>3. \A c \in Battery : /\ inv'[c].mode = inv[c].mode
                           /\ inv'[c].fc = IF c = b THEN x ELSE inv[c].fc
    BY <1>0, <1>1 DEF Register
  <1>4. [c \in Battery |-> inv'[c].mode] = [c \in Battery |-> inv[c].mode]
    BY <1>3
  <1>5. CASE inv[b].fc /\ ~x
    <2>1. [c \in Battery |-> inv'[c].fc] = [[c \in Battery |-> inv[c].fc] EXCEPT ![b] = FALSE]
      BY <1>2, <1>3, <1>5
    <2>2. Contract!FastOff(b)
      BY <1>1, <1>4, <1>5, <2>1 DEF Contract!FastOff
    <2> QED BY <2>2 DEF Contract!Next
  <1>6. CASE ~inv[b].fc /\ x
    <2>1. [c \in Battery |-> inv'[c].fc] = [[c \in Battery |-> inv[c].fc] EXCEPT ![b] = TRUE]
      BY <1>3, <1>6
    <2>2. Contract!FastOn(b)
      BY <1>1, <1>4, <1>6, <2>1 DEF Contract!FastOn
    <2> QED BY <2>2 DEF Contract!Next
  <1>7. CASE inv[b].fc = x
    <2>1. lit' = lit
      BY <1>0, <1>1, <1>7
    <2> QED BY <1>1, <1>3, <1>7, <2>1, Stutters
  <1> QED BY <1>2, <1>0, <1>5, <1>6, <1>7

\* A step of process(): one write of the contract, or none.
LEMMA GoOnMaps ==
    ASSUME Kept, NEW b \in Battery, GoOn(b)
    PROVE  [Contract!Next]_Contract!vars
  <1>0. /\ Typed /\ TypeOK
        /\ ~faulty => MayGo(b)
        /\ req[b].target \in Mode /\ req[b].limit \in Limit /\ 0 \in Limit
        /\ "battery_standby" \in Mode /\ took[b] \in Nat /\ took[b] <= CallTime
        /\ lit[b] \in Nat /\ CallTime \in Nat
    BY NumbersAssumption, ModesAssumption
    DEF Kept, Typed, TypeOK, Held, HeldAt, Request, Waits
  <1>n. NoWrite => [Contract!Next]_Contract!vars
    BY Stutters DEF NoWrite, registers
  <1>1. CASE ClearLimit(b) \/ TargetLimit(b)
    <2>1. PICK w \in Limit : WriteLimit(b, w)
      BY <1>0, <1>1 DEF ClearLimit, TargetLimit
    <2> QED BY <1>0, <2>1, WriteLimitType, Stutters DEF Writes
  <1>2. CASE ClearFast(b) \/ FastOff(b) \/ TargetFast(b) \/ VerifyOff(b)
    <2>1. PICK on \in BOOLEAN : WriteFast(b, on)
      BY <1>2 DEF ClearFast, FastOff, TargetFast, VerifyOff
    <2> QED BY <1>0, <2>1, FastMaps
  <1>3. CASE WriteStandby(b)
    <2>1. WriteMode(b, "battery_standby")
      BY <1>3 DEF WriteStandby
    <2> QED BY <1>0, <2>1, ModeMaps
  <1>4. CASE TargetMode(b)
    <2>1. await[b] = "mode" /\ WriteMode(b, req[b].target)
      BY <1>4 DEF TargetMode, Awaits
    <2>2. ~faulty => \/ req[b].target \in Direct
                     \/ inv[b].mode = "battery_standby" /\ dwell[b] + CallTime >= StandbyWait
      BY <1>0, <2>1 DEF MayGo
    <2>3. ~faulty => ((req[b].target = "discharge_pv" /\ inv[b].fc) => lit[b] <= CallTime)
      BY <1>0, <2>1 DEF MayGo
    <2> QED BY <1>0, <2>1, <2>2, <2>3, ModeMaps
  <1>5. CASE CheckFast(b) \/ ReadTarget(b) \/ VerifyFast(b) \/ VerifyRetry(b) \/ VerifyFail(b)
    BY <1>5, <1>n DEF CheckFast, ReadTarget, VerifyFast, VerifyRetry, VerifyFail
  <1> QED BY <1>1, <1>2, <1>3, <1>4, <1>5 DEF GoOn

\* Every step of the manager, its callers, time and drift is one of the contract, or none.
LEMMA NextMaps == Kept /\ [Next]_vars => [Contract!Next]_Contract!vars
  <1> SUFFICES ASSUME Kept, [Next]_vars PROVE [Contract!Next]_Contract!vars
    OBVIOUS
  <1>0. inv \in [Battery -> Register] /\ lit \in [Battery -> 0..AgeCap]
    BY DEF Kept, Typed, TypeOK
  <1>1. CASE \/ UNCHANGED vars
             \/ \E b \in Battery, m \in Mode, l \in Limit : RequestChange(b, m, l)
             \/ \E b \in Battery, m \in EmergencyTarget, f \in BOOLEAN :
                   EmergencyModeChange(b, m, f)
             \/ \E b \in Battery : Cancel(b)
             \/ Restart
             \/ \E b \in Battery : Begin(b)
    <2>1. UNCHANGED <<registers, faulty>>
      BY <1>1 DEF vars, RequestChange, EmergencyModeChange, Cancel, Ask, Restart, Begin, Prepare,
                  EnterStandby, SetTarget, StartVerify, Verify, Prune, Begins, NoWrite
    <2> QED BY <2>1, Stutters DEF registers
  <1>2. CASE \E b \in Battery : GoOn(b)
    BY <1>2, GoOnMaps
  <1>3. CASE \E b \in Battery : Drift(b)
    <2>1. PICK b \in Battery : Drift(b)
      BY <1>3
    <2>2. /\ \A c \in Battery : /\ inv'[c].mode = inv[c].mode
                                /\ inv'[c].fc = IF c = b THEN TRUE ELSE inv[c].fc
          /\ ~inv[b].fc /\ lit' = [lit EXCEPT ![b] = 0] /\ dwell' = dwell /\ faulty' = faulty
      BY <1>0, <2>1 DEF Drift, Register
    <2>3. /\ [c \in Battery |-> inv'[c].mode] = [c \in Battery |-> inv[c].mode]
          /\ [c \in Battery |-> inv'[c].fc] = [[c \in Battery |-> inv[c].fc] EXCEPT ![b] = TRUE]
      BY <2>2
    <2>4. Contract!FastOn(b)
      BY <2>2, <2>3 DEF Contract!FastOn
    <2> QED BY <2>4 DEF Contract!Next
  <1>4. CASE Tick
    <2>1. /\ inv' = inv /\ faulty' = faulty
          /\ dwell' = [c \in Battery |-> Contract!Older(dwell[c])]
          /\ lit' = [c \in Battery |-> Contract!Older(lit[c])]
      BY <1>4 DEF Tick, Older, Contract!Older
    <2>2. Contract!Tick
      BY <2>1 DEF Contract!Tick
    <2> QED BY <2>2 DEF Contract!Next
  <1> QED BY <1>1, <1>2, <1>3, <1>4 DEF Next, Process

\* The manager implements InverterContract: where writes land and reads tell the truth the
\* inverter goes between charge and discharge through a standby of StandbyWait less one call, and
\* starts to discharge with fast_charging off, or on for no longer than one call.
THEOREM Implements == Spec => ImplementsContract
  <1>1. Init => Contract!Init
    BY FaultsAssumption DEF Init, Contract!Init, Register
  <1>2. Init => Kept
    BY HeldInit DEF Kept, Held
  <1> QED BY <1>1, <1>2, KeptStep, NextMaps, PTL DEF Spec, ImplementsContract, Contract!Spec
=============================================================================
