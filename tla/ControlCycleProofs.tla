-------------------------- MODULE ControlCycleProofs --------------------------
(***************************************************************************)
(* Theorems about ControlCycle.tla, for any batteries, readings, limits,   *)
(* waits and cooldowns.                                                    *)
(***************************************************************************)
EXTENDS ControlCycle, DataLemmas

------------------------------------------------------------------------------
(* The queues.                                                             *)

\* A list of commands for each battery, put together.
LEMMA QueueElements ==
    ASSUME NEW f \in [DOMAIN Order -> Seq(Command)]
    PROVE  /\ FlattenSeq(f) \in Seq(Command)
           /\ Elements(FlattenSeq(f)) = UNION {Elements(f[i]) : i \in DOMAIN Order}
<1>1. DOMAIN Order = 1..Len(Order) /\ Len(Order) \in Nat
  BY CycleAssumption
<1>2. f \in Seq(Seq(Command))
  BY <1>1, SeqDef
<1>3. Len(f) = Len(Order)
  BY <1>1, <1>2, LenProperties
<1> QED BY <1>1, <1>2, <1>3, FlattenElements

\* Commands are commands.
LEMMA CommandTypes ==
    ASSUME NEW b \in Battery
    PROVE  /\ \A m \in Mode : SetMode(b, m) \in Command
           /\ \A w \in Limit : SetLimit(b, w) \in Command
           /\ \A on \in BOOLEAN : SetFast(b, on) \in Command
           /\ Checked(SetMode(b, "discharge_pv")) \in Command
  BY DEF Command

\* A list of commands that is given under a condition.
LEMMA WhenElements ==
    ASSUME NEW p, NEW q \in Seq(Command)
    PROVE  /\ When(p, q) \in Seq(Command)
           /\ Elements(When(p, q)) \subseteq Elements(q)
           /\ p => Elements(When(p, q)) = Elements(q)
  BY DEF When, Elements

\* Short lists.
LEMMA ListElements ==
    ASSUME NEW c \in Command, NEW d \in Command, NEW e \in Command
    PROVE  /\ <<c>> \in Seq(Command) /\ Elements(<<c>>) = {c}
           /\ <<c, d, e>> \in Seq(Command)
<1>1. <<c>> \in Seq(Command) /\ Elements(<<c>>) = {c}
  BY DEF Elements
<1>2. <<c, d, e>> \in Seq(Command)
  OBVIOUS
<1> QED BY <1>1, <1>2

\* Taking the head off a queue.
LEMMA HeadTail ==
    ASSUME NEW q \in Seq(Command), q # <<>>
    PROVE  /\ Head(q) \in Command /\ Tail(q) \in Seq(Command)
           /\ Elements(q) = {Head(q)} \cup Elements(Tail(q))
<1>1. /\ Head(q) \in Command /\ Tail(q) \in Seq(Command) /\ Len(Tail(q)) = Len(q) - 1
      /\ \A i \in 1..Len(Tail(q)) : Tail(q)[i] = q[i + 1]
  BY HeadTailProperties
<1>2. Head(q) = q[1] /\ Len(q) \in Nat \ {0}
  BY EmptySeq
<1>3. ASSUME NEW c \in Elements(q) PROVE c \in {Head(q)} \cup Elements(Tail(q))
  <2>1. PICK i \in 1..Len(q) : c = q[i]
    BY DEF Elements
  <2>2. CASE i = 1
    BY <1>2, <2>1, <2>2
  <2>3. CASE i # 1
    <3>1. i - 1 \in 1..Len(Tail(q)) /\ q[i] = Tail(q)[i - 1]
      BY <1>1, <1>2, <2>3
    <3> QED BY <2>1, <3>1 DEF Elements
  <2> QED BY <2>2, <2>3
<1>4. ASSUME NEW c \in Elements(Tail(q)) PROVE c \in Elements(q)
  <2>1. PICK i \in 1..Len(Tail(q)) : c = Tail(q)[i]
    BY DEF Elements
  <2>2. i + 1 \in 1..Len(q) /\ c = q[i + 1]
    BY <1>1, <1>2, <2>1
  <2> QED BY <2>2 DEF Elements
<1>5. Head(q) \in Elements(q)
  BY <1>2 DEF Elements
<1> QED BY <1>1, <1>3, <1>4, <1>5

\* Every guard gives commands.
LEMMA GuardTypes ==
    ASSUME NEW b \in Battery, NEW s, NEW st, NEW floored
    PROVE  /\ G0(b, s, st) \in Seq(Command)
           /\ G1(b, floored) \in Seq(Command)
           /\ G2(b, s) \in Seq(Command)
           /\ G3Mode(b, st) \in Seq(Command)
           /\ G3Limit(b, st) \in Seq(Command)
           /\ G4(b, s) \in Seq(Command)
<1>1. /\ SetLimit(b, 0) \in Command /\ SetLimit(b, EmergencyLimit) \in Command
      /\ SetFast(b, FALSE) \in Command /\ SetMode(b, "battery_standby") \in Command
      /\ SetMode(b, "charge_pv") \in Command /\ SetMode(b, "discharge_pv") \in Command
  BY CommandTypes, CycleAssumption, ProtocolAssumption
<1>2. /\ <<SetLimit(b, 0)>> \in Seq(Command) /\ <<SetLimit(b, EmergencyLimit)>> \in Seq(Command)
      /\ <<SetFast(b, FALSE)>> \in Seq(Command) /\ <<SetMode(b, "battery_standby")>> \in Seq(Command)
      /\ <<SetMode(b, "charge_pv")>> \in Seq(Command) /\ <<SetMode(b, "discharge_pv")>> \in Seq(Command)
      /\ <<SetLimit(b, 0), SetFast(b, FALSE), SetMode(b, "battery_standby")>> \in Seq(Command)
  BY <1>1, ListElements
<1>3. G0(b, s, st) \in Seq(Command)
  <2> DEFINE A == When(LimitWithoutPv(s), <<SetLimit(b, 0)>>)
             B == When(LimitAtFloor(s), <<SetLimit(b, 0)>>)
             C == When(GridCharging(s),
                       <<SetLimit(b, 0), SetFast(b, FALSE), SetMode(b, "battery_standby")>>)
  <2>1. A \in Seq(Command) /\ B \in Seq(Command) /\ C \in Seq(Command)
    BY <1>2, WhenElements
  <2>2. G0(b, s, st) = When(~st.gridCharge, A \o B \o C)
    BY DEF G0
  <2> HIDE DEF A, B, C
  <2>3. A \o B \in Seq(Command)
    BY <2>1, ConcatElements
  <2>4. A \o B \o C \in Seq(Command)
    BY <2>1, <2>3, ConcatElements
  <2>5. When(~st.gridCharge, A \o B \o C) \in Seq(Command)
    BY <2>4, WhenElements
  <2> QED BY <2>2, <2>5
<1>4. G1(b, floored) \in Seq(Command) /\ G2(b, s) \in Seq(Command)
  BY <1>2, WhenElements DEF G1, G2
<1>5. G3Mode(b, st) \in Seq(Command) /\ G3Limit(b, st) \in Seq(Command)
  BY <1>2, WhenElements DEF G3Mode, G3Limit
<1>6. G4(b, s) \in Seq(Command)
  BY <1>2, WhenElements DEF G4
<1> QED BY <1>3, <1>4, <1>5, <1>6

\* The queue of the guards.
LEMMA GuardQueue ==
    ASSUME NEW S, NEW st, NEW floored
    PROVE  GuardCommands(Order, S, st, floored) \in Seq(Command)
<1>1. \A i \in DOMAIN Order : Order[i] \in Battery
  BY CycleAssumption
<1> DEFINE f0 == [i \in DOMAIN Order |-> G0(Order[i], S[Order[i]], st)]
           f1 == [i \in DOMAIN Order |-> G1(Order[i], floored)]
           f2 == [i \in DOMAIN Order |-> G2(Order[i], S[Order[i]])]
           f3 == [i \in DOMAIN Order |-> G3Mode(Order[i], st)]
           f4 == [i \in DOMAIN Order |-> G3Limit(Order[i], st)]
           f5 == [i \in DOMAIN Order |-> G4(Order[i], S[Order[i]])]
<1>2. /\ f0 \in [DOMAIN Order -> Seq(Command)] /\ f1 \in [DOMAIN Order -> Seq(Command)]
      /\ f2 \in [DOMAIN Order -> Seq(Command)] /\ f3 \in [DOMAIN Order -> Seq(Command)]
      /\ f4 \in [DOMAIN Order -> Seq(Command)] /\ f5 \in [DOMAIN Order -> Seq(Command)]
  BY <1>1, GuardTypes
<1>3. GuardCommands(Order, S, st, floored) =
        FlattenSeq(f0) \o FlattenSeq(f1) \o FlattenSeq(f2) \o FlattenSeq(f3)
          \o FlattenSeq(f4) \o FlattenSeq(f5)
  BY DEF GuardCommands, ForEach
<1> HIDE DEF f0, f1, f2, f3, f4, f5
<1>4. /\ FlattenSeq(f0) \in Seq(Command) /\ FlattenSeq(f1) \in Seq(Command)
      /\ FlattenSeq(f2) \in Seq(Command) /\ FlattenSeq(f3) \in Seq(Command)
      /\ FlattenSeq(f4) \in Seq(Command) /\ FlattenSeq(f5) \in Seq(Command)
  BY <1>2, QueueElements
<1>5. FlattenSeq(f0) \o FlattenSeq(f1) \o FlattenSeq(f2) \o FlattenSeq(f3)
        \o FlattenSeq(f4) \o FlattenSeq(f5) \in Seq(Command)
  <2>1. FlattenSeq(f0) \o FlattenSeq(f1) \in Seq(Command)
    BY <1>4, ConcatElements
  <2>2. FlattenSeq(f0) \o FlattenSeq(f1) \o FlattenSeq(f2) \in Seq(Command)
    BY <1>4, <2>1, ConcatElements
  <2>3. FlattenSeq(f0) \o FlattenSeq(f1) \o FlattenSeq(f2) \o FlattenSeq(f3) \in Seq(Command)
    BY <1>4, <2>2, ConcatElements
  <2>4. FlattenSeq(f0) \o FlattenSeq(f1) \o FlattenSeq(f2) \o FlattenSeq(f3)
          \o FlattenSeq(f4) \in Seq(Command)
    BY <1>4, <2>3, ConcatElements
  <2> QED BY <1>4, <2>4, ConcatElements
<1> QED BY <1>3, <1>5

\* What the budget asks of one battery: no mode below the floor, fast_charging off
\* above it, and never on.
LEMMA BudgetElements ==
    ASSUME TypeOK, NEW b \in Battery
    PROVE  /\ BudgetCommands(b) \in Seq(Command)
           /\ \A c \in Elements(BudgetCommands(b)) :
                 /\ c.type = "mode" => ~BelowFloor(c.target)
                 /\ c.type = "fast" => ~c.on
           /\ ~BelowFloor(b) => SetFast(b, FALSE) \in Elements(BudgetCommands(b))
<1> DEFINE A == When(~BelowFloor(b) /\ seen[b].mode # TargetMode(b), <<SetMode(b, TargetMode(b))>>)
           B == <<SetLimit(b, Plan(b).limit)>>
           C == When(~BelowFloor(b), <<SetFast(b, FALSE)>>)
<1>1. BudgetCommands(b) = A \o B \o C
  BY DEF BudgetCommands
<1>2. Plan(b).mode \in Mode /\ Plan(b).limit \in Limit
  BY CycleAssumption, ProtocolAssumption DEF Plan
<1>3. TargetMode(b) \in Mode
  <2>1. seen[b].mode \in Mode
    BY DEF TypeOK, Register, Manager!Register
  <2> QED BY <1>2, <2>1 DEF TargetMode
<1>4. /\ SetMode(b, TargetMode(b)) \in Command /\ SetLimit(b, Plan(b).limit) \in Command
      /\ SetFast(b, FALSE) \in Command
  BY <1>2, <1>3, CommandTypes
<1>5. /\ <<SetMode(b, TargetMode(b))>> \in Seq(Command) /\ <<SetFast(b, FALSE)>> \in Seq(Command)
      /\ Elements(<<SetMode(b, TargetMode(b))>>) = {SetMode(b, TargetMode(b))}
      /\ Elements(<<SetFast(b, FALSE)>>) = {SetFast(b, FALSE)}
      /\ B \in Seq(Command) /\ Elements(B) = {SetLimit(b, Plan(b).limit)}
  BY <1>4, ListElements
<1>6. /\ A \in Seq(Command) /\ Elements(A) \subseteq {SetMode(b, TargetMode(b))}
      /\ BelowFloor(b) => Elements(A) = {}
  BY <1>5, WhenElements DEF When, Elements
<1>7. /\ C \in Seq(Command) /\ Elements(C) \subseteq {SetFast(b, FALSE)}
      /\ ~BelowFloor(b) => Elements(C) = {SetFast(b, FALSE)}
  BY <1>5, WhenElements
<1> HIDE DEF A, B, C
<1>8. A \o B \in Seq(Command) /\ Elements(A \o B) = Elements(A) \cup Elements(B)
  BY <1>5, <1>6, ConcatElements
<1>9. /\ A \o B \o C \in Seq(Command)
      /\ Elements(A \o B \o C) = Elements(A \o B) \cup Elements(C)
  <2> DEFINE D == A \o B
  <2>1. C \in Seq(Command) /\ D \in Seq(Command)
    BY <1>7, <1>8
  <2>2. A \o B \o C = D \o C
    OBVIOUS
  <2> HIDE DEF D
  <2>3. D \o C \in Seq(Command) /\ Elements(D \o C) = Elements(D) \cup Elements(C)
    BY <2>1, ConcatElements
  <2>4. Elements(A \o B \o C) = Elements(D \o C)
    BY <2>2
  <2>5. D = A \o B
    BY DEF D
  <2> QED BY <2>2, <2>3, <2>5
<1>10. /\ SetMode(b, TargetMode(b)).type = "mode" /\ SetMode(b, TargetMode(b)).target = b
       /\ SetLimit(b, Plan(b).limit).type = "limit"
       /\ SetFast(b, FALSE).type = "fast" /\ SetFast(b, FALSE).on = FALSE
  BY DEF SetMode, SetLimit, SetFast
<1>11. ASSUME NEW c \in Elements(BudgetCommands(b))
       PROVE  (c.type = "mode" => ~BelowFloor(c.target)) /\ (c.type = "fast" => ~c.on)
  <2>1. c \in Elements(A) \/ c = SetLimit(b, Plan(b).limit) \/ c = SetFast(b, FALSE)
    BY <1>1, <1>5, <1>7, <1>8, <1>9
  <2>2. c \in Elements(A) => c = SetMode(b, TargetMode(b)) /\ ~BelowFloor(b)
    BY <1>6
  <2> QED BY <1>10, <2>1, <2>2
<1> QED BY <1>1, <1>7, <1>9, <1>11

\* What the battery support asks of one battery.
LEMMA SupportElements ==
    ASSUME TypeOK, NEW b \in Battery
    PROVE  /\ SupportCommands(b) \in Seq(Command)
           /\ \A c \in Elements(SupportCommands(b)) :
                 /\ c.type # "fast"
                 /\ SocMin <= NormalFloor => ~BelowFloor(c.target)
<1> DEFINE A == When(seen[b].mode # "discharge_pv", <<SetMode(b, "discharge_pv")>>)
           B == <<SetLimit(b, Power)>>
           due == read[b].support /\ read[b].soc > SupportFloor(b)
<1>1. SupportCommands(b) = When(due, A \o B)
  BY DEF SupportCommands
<1>2. SetMode(b, "discharge_pv") \in Command /\ SetLimit(b, Power) \in Command
  BY CommandTypes, CycleAssumption, ProtocolAssumption
<1>3. /\ <<SetMode(b, "discharge_pv")>> \in Seq(Command)
      /\ Elements(<<SetMode(b, "discharge_pv")>>) = {SetMode(b, "discharge_pv")}
      /\ B \in Seq(Command) /\ Elements(B) = {SetLimit(b, Power)}
  BY <1>2, ListElements
<1>4. A \in Seq(Command) /\ Elements(A) \subseteq {SetMode(b, "discharge_pv")}
  BY <1>3, WhenElements
<1>5. ~due => Elements(When(due, A \o B)) = {}
  BY DEF When, Elements
<1>6. due /\ SocMin <= NormalFloor => ~BelowFloor(b)
  <2>0. read[b] \in Reading
    BY CycleAssumption DEF TypeOK
  <2>1. read[b].soc \in Int
    BY <2>0 DEF Reading
  <2> QED BY <2>1, CycleAssumption, FloorsAssumption DEF BelowFloor, SupportFloor
<1> HIDE DEF A, B, due
<1>7. A \o B \in Seq(Command) /\ Elements(A \o B) = Elements(A) \cup Elements(B)
  BY <1>3, <1>4, ConcatElements
<1>8. /\ When(due, A \o B) \in Seq(Command)
      /\ Elements(When(due, A \o B)) \subseteq Elements(A \o B)
  BY <1>7, WhenElements
<1>9. /\ SetMode(b, "discharge_pv").type = "mode" /\ SetMode(b, "discharge_pv").target = b
      /\ SetLimit(b, Power).type = "limit" /\ SetLimit(b, Power).target = b
  BY DEF SetMode, SetLimit
<1>10. ASSUME NEW c \in Elements(SupportCommands(b))
       PROVE  c.type # "fast" /\ (SocMin <= NormalFloor => ~BelowFloor(c.target))
  <2>1. c \in {SetMode(b, "discharge_pv"), SetLimit(b, Power)}
    BY <1>1, <1>3, <1>4, <1>7, <1>8
  <2>2. due
    BY <1>1, <1>5
  <2> QED BY <1>6, <1>9, <2>1, <2>2
<1> QED BY <1>1, <1>8, <1>10

\* The queue of the executor.
LEMMA ExecutorQueue ==
    ASSUME TypeOK
    PROVE  LET q == ForEach(Order, BudgetCommands) \o ForEach(Order, SupportCommands)
           IN  /\ q \in Seq(Command)
               /\ \A c \in Elements(q) : c.type = "fast" => ~c.on
               /\ \A b \in Battery : ~BelowFloor(b) => SetFast(b, FALSE) \in Elements(q)
               /\ SocMin <= NormalFloor =>
                    \A c \in Elements(q) : c.type = "mode" => ~BelowFloor(c.target)
<1> DEFINE f == [i \in DOMAIN Order |-> BudgetCommands(Order[i])]
           g == [i \in DOMAIN Order |-> SupportCommands(Order[i])]
<1>1. \A i \in DOMAIN Order : Order[i] \in Battery
  BY CycleAssumption
<1>2. \A b \in Battery : \E i \in DOMAIN Order : Order[i] = b
  BY DEF Battery, ToSet
<1>3. f \in [DOMAIN Order -> Seq(Command)] /\ g \in [DOMAIN Order -> Seq(Command)]
  BY <1>1, BudgetElements, SupportElements
<1>4. /\ ForEach(Order, BudgetCommands) = FlattenSeq(f)
      /\ ForEach(Order, SupportCommands) = FlattenSeq(g)
  BY DEF ForEach
<1>5. /\ \A i \in DOMAIN Order : f[i] = BudgetCommands(Order[i])
      /\ \A i \in DOMAIN Order : g[i] = SupportCommands(Order[i])
  OBVIOUS
<1> HIDE DEF f, g
<1>6. /\ FlattenSeq(f) \in Seq(Command)
      /\ Elements(FlattenSeq(f)) = UNION {Elements(f[i]) : i \in DOMAIN Order}
      /\ FlattenSeq(g) \in Seq(Command)
      /\ Elements(FlattenSeq(g)) = UNION {Elements(g[i]) : i \in DOMAIN Order}
  BY <1>3, QueueElements
<1> DEFINE q == FlattenSeq(f) \o FlattenSeq(g)
<1>7. q \in Seq(Command) /\ Elements(q) = Elements(FlattenSeq(f)) \cup Elements(FlattenSeq(g))
  BY <1>6, ConcatElements
<1> HIDE DEF q
<1>8. ASSUME NEW c \in Elements(q)
      PROVE  \E b \in Battery : c \in Elements(BudgetCommands(b)) \/ c \in Elements(SupportCommands(b))
  BY <1>1, <1>5, <1>6, <1>7
<1>9. ASSUME NEW b \in Battery, ~BelowFloor(b) PROVE SetFast(b, FALSE) \in Elements(q)
  <2>1. PICK i \in DOMAIN Order : Order[i] = b
    BY <1>2
  <2>2. SetFast(b, FALSE) \in Elements(f[i])
    BY <1>5, <1>9, <2>1, BudgetElements
  <2> QED BY <1>6, <1>7, <2>2
<1>10. ASSUME NEW c \in Elements(q)
       PROVE  /\ c.type = "fast" => ~c.on
              /\ SocMin <= NormalFloor /\ c.type = "mode" => ~BelowFloor(c.target)
  BY <1>8, BudgetElements, SupportElements
<1> QED BY <1>4, <1>7, <1>9, <1>10 DEF q

------------------------------------------------------------------------------
(* The manager: the theorems of ModeChangeProofs at the constants of the   *)
(* cycle.                                                                  *)

MP == INSTANCE ModeChangeProofs WITH
    Faults <- {~Reliable}, faulty <- ~Reliable, MaxCalls <- 0, calls <- 0,
    CallTime <- 0, took <- [b \in Battery |-> 0], dwell <- [b \in Battery |-> 0],
    lit <- [b \in Battery |-> IF inv[b].fc THEN 0 ELSE AgeCap]

\* They are theorems about the same manager: its state ...
LEMMA SameState ==
    /\ Manager!Request = MP!Request /\ Manager!Awaited = MP!Awaited
    /\ Manager!Register = MP!Register /\ Manager!NoRequest = MP!NoRequest
    /\ Manager!Waiting = MP!Waiting /\ Manager!Terminal = MP!Terminal
    /\ \A m \in Mode, f \in BOOLEAN, e \in BOOLEAN :
          Manager!NewRequest(m, 0, f, e) = MP!NewRequest(m, 0, f, e)
<1> USE DEF Manager!State, MP!State, Manager!Waiting, MP!Waiting, Manager!Terminal, MP!Terminal
<1>1. Manager!Request = MP!Request
  BY DEF Manager!Request, MP!Request
<1>2. Manager!Register = MP!Register /\ Manager!Awaited = MP!Awaited
  BY DEF Manager!Register, MP!Register, Manager!Awaited, MP!Awaited
<1>3. Manager!NoRequest = MP!NoRequest
  BY DEF Manager!NoRequest, MP!NoRequest
<1>4. \A m \in Mode, f \in BOOLEAN, e \in BOOLEAN :
          Manager!NewRequest(m, 0, f, e) = MP!NewRequest(m, 0, f, e)
  BY DEF Manager!NewRequest, MP!NewRequest
<1> QED BY <1>1, <1>2, <1>3, <1>4

\* ... the beginning of its steps ...
LEMMA SameBegin ==
    ASSUME NEW b \in Battery
    PROVE  Manager!Begin(b) <=> MP!Begin(b)
  BY DEF Manager!Begin, MP!Begin, Manager!Prepare, MP!Prepare, Manager!EnterStandby, MP!EnterStandby,
         Manager!SetTarget, MP!SetTarget, Manager!StartVerify, MP!StartVerify, Manager!Verify,
         MP!Verify, Manager!Prune, MP!Prune, Manager!Begins, MP!Begins, Manager!Free, MP!Free,
         Manager!Awaits, MP!Awaits, Manager!NoWrite, MP!NoWrite, Manager!registers, MP!registers,
         Manager!GoTo, MP!GoTo, Manager!Expired, MP!Expired, Manager!FirstOfTarget,
         MP!FirstOfTarget, Manager!Terminal, MP!Terminal, Manager!NoRequest, MP!NoRequest

\* ... and their calls.
LEMMA SameGoOn ==
    ASSUME NEW b \in Battery
    PROVE  Manager!GoOn(b) <=> MP!GoOn(b)
  BY DEF Manager!GoOn, MP!GoOn, Manager!ClearLimit, MP!ClearLimit, Manager!ClearFast, MP!ClearFast,
         Manager!WriteStandby, MP!WriteStandby, Manager!CheckFast, MP!CheckFast, Manager!FastOff,
         MP!FastOff, Manager!TargetMode, MP!TargetMode, Manager!TargetLimit, MP!TargetLimit,
         Manager!TargetFast, MP!TargetFast, Manager!ReadTarget, MP!ReadTarget,
         Manager!VerifyFast, MP!VerifyFast, Manager!VerifyOff, MP!VerifyOff, Manager!VerifyRetry,
         MP!VerifyRetry, Manager!VerifyFail, MP!VerifyFail, Manager!Awaits, MP!Awaits,
         Manager!WriteMode, MP!WriteMode, Manager!WriteLimit, MP!WriteLimit, Manager!WriteFast,
         MP!WriteFast, Manager!NoWrite, MP!NoWrite, Manager!registers, MP!registers,
         Manager!Outcome, MP!Outcome, Manager!Answer, MP!Answer, Manager!ReadsFast, MP!ReadsFast,
         Manager!ReadsOther, MP!ReadsOther, Manager!BecomesOnly, MP!BecomesOnly,
         Manager!SkipsBoth, MP!SkipsBoth, Manager!FirstOfTarget, MP!FirstOfTarget

------------------------------------------------------------------------------
(* Types.                                                                  *)

\* A fresh request is a request.
LEMMA NewRequestType ==
    /\ Manager!NoRequest \in Manager!Request
    /\ \A m \in Mode, f \in BOOLEAN, e \in BOOLEAN :
          Manager!NewRequest(m, 0, f, e) \in Manager!Request
<1>1. /\ "battery_standby" \in Mode /\ 0 \in Limit /\ 0 \in 0..MaxRetries /\ 0 \in 0..AgeCap
      /\ "absent" \in Manager!State /\ "idle" \in Manager!State
  BY CycleAssumption, ProtocolAssumption DEF Manager!State
<1>2. Manager!NoRequest \in Manager!Request
  BY <1>1 DEF Manager!NoRequest, Manager!Request
<1>3. ASSUME NEW m \in Mode, NEW f \in BOOLEAN, NEW e \in BOOLEAN
      PROVE  Manager!NewRequest(m, 0, f, e) \in Manager!Request
  BY <1>1 DEF Manager!NewRequest, Manager!Request
<1> QED BY <1>2, <1>3

\* What is in a command.
LEMMA CommandFields ==
    ASSUME NEW c \in Command
    PROVE  /\ c.target \in Battery /\ c.type \in {"mode", "limit", "fast"}
           /\ c.type = "mode" => c.mode \in Mode
           /\ c.type = "limit" => c.watts \in Limit
           /\ c.type = "fast" => c.on \in BOOLEAN
<1>1. CASE \E b \in Battery, m \in Mode : c = SetMode(b, m)
  <2>1. PICK b \in Battery, m \in Mode : c = SetMode(b, m)
    BY <1>1
  <2> QED BY <2>1 DEF SetMode
<1>2. CASE \E b \in Battery, w \in Limit : c = SetLimit(b, w)
  <2>1. PICK b \in Battery, w \in Limit : c = SetLimit(b, w)
    BY <1>2
  <2> QED BY <2>1 DEF SetLimit
<1>3. CASE \E b \in Battery, on \in BOOLEAN : c = SetFast(b, on)
  <2>1. PICK b \in Battery, on \in BOOLEAN : c = SetFast(b, on)
    BY <1>3
  <2> QED BY <2>1 DEF SetFast
<1>4. CASE \E b \in Battery : c = Checked(SetMode(b, "discharge_pv"))
  <2>1. PICK b \in Battery : c = Checked(SetMode(b, "discharge_pv"))
    BY <1>4
  <2> QED BY <2>1, ProtocolAssumption DEF SetMode, Checked
<1> QED BY <1>1, <1>2, <1>3, <1>4 DEF Command

\* A command writes registers, and at most what it says.
LEMMA WrittenType ==
    ASSUME NEW c \in Command, NEW r \in Register
    PROVE  /\ Written(c, r) \subseteq Register
           /\ \A w \in Written(c, r) :
                /\ c.type # "fast" => w.fc = r.fc
                /\ Reliable /\ c.type = "fast" => w.fc = c.on
<1>1. r.mode \in Mode /\ r.limit \in Limit /\ r.fc \in BOOLEAN
  BY DEF Register, Manager!Register
<1>2. CASE c.type = "mode"
  <2>1. c.mode \in Mode
    BY <1>2, CommandFields
  <2> QED BY <1>1, <1>2, <2>1 DEF Written, Manager!Outcome, Register, Manager!Register
<1>3. CASE c.type = "limit"
  <2>1. c.watts \in Limit
    BY <1>3, CommandFields
  <2> QED BY <1>1, <1>3, <2>1 DEF Written, Manager!Outcome, Register, Manager!Register
<1>4. CASE c.type = "fast"
  <2>1. c.on \in BOOLEAN
    BY <1>4, CommandFields
  <2> QED BY <1>1, <1>4, <2>1 DEF Written, Manager!Outcome, Register, Manager!Register
<1> QED BY <1>2, <1>3, <1>4, CommandFields

\* What the next command of a queue does, whichever queue it is.
LEMMA WriteHeadStep ==
    ASSUME TypeOK, cmds # <<>>, WriteHead
    PROVE  /\ inv' \in [Battery -> Register]
           /\ \A b \in Battery \ {Head(cmds).target} : inv'[b] = inv[b]
           /\ LET b == Head(cmds).target
              IN  /\ Head(cmds).type # "fast" => inv'[b].fc = inv[b].fc
                  /\ Reliable /\ Head(cmds).type = "fast" =>
                       inv'[b].fc = Head(cmds).on
<1> DEFINE c == Head(cmds)
<1>1. c \in Command /\ c.target \in Battery
  BY HeadTail, CommandFields DEF TypeOK
<1>2. inv[c.target] \in Register
  BY <1>1 DEF TypeOK
<1>3. PICK r \in Written(c, inv[c.target]) : inv' = [inv EXCEPT ![c.target] = r]
  BY DEF WriteHead
<1>4. /\ r \in Register
      /\ c.type # "fast" => r.fc = inv[c.target].fc
      /\ Reliable /\ c.type = "fast" => r.fc = c.on
  BY <1>1, <1>2, <1>3, WrittenType
<1> HIDE DEF c
<1>5. inv' \in [Battery -> Register] /\ inv'[c.target] = r
  BY <1>1, <1>3, <1>4 DEF TypeOK
<1>6. \A b \in Battery \ {c.target} : inv'[b] = inv[b]
  BY <1>3 DEF TypeOK
<1> QED BY <1>4, <1>5, <1>6 DEF c


\* The request of a recovery.
Recovery == Manager!NewRequest("charge_battery", 0, TRUE, TRUE)

\* What a request may be: one that has not failed has a retry left (TypeOK alone
\* is not inductive), and only the recovery asks for fast_charging.
Fit(q) == /\ q \in Manager!Request
          /\ q.retries < MaxRetries \/ q.state = "failed"
          /\ q.fc => q.target = "charge_battery"

\* Calls are awaited by process() only, each in the state of its step, and for a request that
\* has been taken up.
Between ==
    /\ MP!InPlace
    /\ pc # "process" => \A b \in Battery : await[b] = "none"
    /\ \A b \in todo : await[b] = "none"

Typed == TypeOK /\ (\A b \in Battery : Fit(req[b])) /\ Between

\* Fresh requests fit.
LEMMA FreshFits ==
    /\ Fit(Manager!NoRequest) /\ Fit(Recovery)
    /\ \A m \in Mode : Fit(Manager!NewRequest(m, 0, FALSE, FALSE))
<1>1. 0 < MaxRetries /\ "charge_battery" \in Mode
  BY ProtocolAssumption
<1> QED BY <1>1, NewRequestType DEF Fit, Recovery, Manager!NewRequest, Manager!NoRequest

\* What ModeChange assumes of its constants holds.
LEMMA ManagerAssumptions ==
    /\ {"battery_standby", "discharge_pv"} \subseteq Mode
    /\ SkipClear \subseteq Mode /\ SkipStandby \subseteq Mode /\ EmergencyTarget \subseteq Mode
    /\ "discharge_pv" \notin SkipClear \cup SkipStandby \cup EmergencyTarget
    /\ Limit \subseteq Nat /\ 0 \in Limit
    /\ MP!Waits \subseteq Nat /\ AgeCap \in Nat /\ \A w \in MP!Waits : w < AgeCap
    /\ 0 \in 0..AgeCap
    /\ MaxRetries \in Nat \ {0}
    /\ {~Reliable} \subseteq BOOLEAN
  BY CycleAssumption, ProtocolAssumption DEF MP!Waits

\* So the manager is in a state of its own.
LEMMA ManagerTyped == Typed => MP!Typed
<1> SUFFICES ASSUME Typed PROVE MP!Typed
  OBVIOUS
<1>1. /\ req \in [Battery -> MP!Request] /\ await \in [Battery -> MP!Awaited]
      /\ inv \in [Battery -> MP!Register]
  BY SameState DEF Typed, TypeOK, Register
<1>2. /\ [b \in Battery |-> 0] \in [Battery -> 0..0] /\ [b \in Battery |-> 0] \in [Battery -> 0..AgeCap]
      /\ [b \in Battery |-> IF inv[b].fc THEN 0 ELSE AgeCap] \in [Battery -> 0..AgeCap]
      /\ 0 \in 0..0
  BY ProtocolAssumption
<1>b. (~Reliable) \in BOOLEAN
  OBVIOUS
<1>3. MP!TypeOK
  BY <1>1, <1>2, <1>b DEF MP!TypeOK
<1>4. MP!RetriesLeft
  BY DEF Typed, Fit, MP!RetriesLeft
<1> QED BY <1>3, <1>4 DEF MP!Typed, Typed, Between

\* What a step of the manager leaves of b's request: what was asked for, unless it is forgotten.
Asked(b) ==
    \/ req'[b] = Manager!NoRequest
    \/ req'[b].target = req[b].target /\ req'[b].fc = req[b].fc

\* A protocol under way goes on to a state of its own.
Onward(b) ==
    req[b].state \in Manager!Waiting =>
        req'[b].state \in Manager!Waiting \cup Manager!Terminal

\* Both hold of every step of the manager.
LEMMA AskedKept ==
    ASSUME Typed, NEW b \in Battery, MP!Begin(b) \/ MP!GoOn(b)
    PROVE  Asked(b) /\ Onward(b)
<1>0. /\ req \in [Battery -> MP!Request] /\ req[b] \in MP!Request
      /\ await[b] # "none" => req[b].state = MP!StateOf(await[b])
  BY SameState DEF Typed, TypeOK, Between, MP!InPlace
<1> USE DEF Manager!Waiting, Manager!Terminal, Asked, Onward
<1>1. ASSUME NEW s, MP!GoTo(b, s) \/ MP!BecomesOnly(b, s)
      PROVE  req'[b].target = req[b].target /\ req'[b].fc = req[b].fc /\ req'[b].state = s
  BY <1>0, <1>1 DEF MP!GoTo, MP!BecomesOnly, MP!Request
<1>2. CASE MP!Prepare(b)
  BY <1>0, <1>2 DEF MP!Prepare, MP!Request
<1>3. CASE MP!EnterStandby(b) \/ MP!SetTarget(b) \/ MP!StartVerify(b)
  BY <1>1, <1>3 DEF MP!EnterStandby, MP!SetTarget, MP!StartVerify
<1>4. CASE MP!Prune(b)
  BY <1>0, <1>4, SameState DEF MP!Prune, MP!Terminal
<1>5. CASE MP!ClearFast(b) \/ MP!ReadTarget(b) \/ MP!VerifyFast(b) \/ MP!VerifyOff(b)
  BY <1>1, <1>5 DEF MP!ClearFast, MP!ReadTarget, MP!VerifyFast, MP!VerifyOff
<1>6. CASE MP!VerifyRetry(b) \/ MP!VerifyFail(b)
  BY <1>0, <1>6 DEF MP!VerifyRetry, MP!VerifyFail, MP!Request
<1>7. CASE UNCHANGED req
  BY <1>7
<1> QED BY <1>2, <1>3, <1>4, <1>5, <1>6, <1>7
     DEF MP!Begin, MP!GoOn, MP!Verify, MP!ClearLimit, MP!WriteStandby, MP!CheckFast, MP!FastOff,
         MP!TargetMode, MP!TargetLimit, MP!TargetFast

\* A step of the manager keeps the types, and leaves the other batteries alone.
LEMMA ManagerStep ==
    ASSUME Typed, NEW b \in Battery, MP!Begin(b) \/ MP!GoOn(b)
    PROVE  /\ req' \in [Battery -> Manager!Request] /\ await' \in [Battery -> Manager!Awaited]
           /\ inv' \in [Battery -> Register]
           /\ \A c \in Battery : Fit(req'[c])
           /\ MP!InPlace'
           /\ \A c \in Battery \ {b} : req'[c] = req[c] /\ await'[c] = await[c] /\ inv'[c] = inv[c]
<1>1. MP!Typed
  BY ManagerTyped
<1>2. MP!Steps(b) /\ MP!Writes(b)
  BY <1>1, MP!BeginType, MP!GoOnType, ManagerAssumptions
<1>3. /\ req' \in [Battery -> Manager!Request] /\ await' \in [Battery -> Manager!Awaited]
      /\ inv' \in [Battery -> Register]
      /\ \A c \in Battery \ {b} : req'[c] = req[c] /\ await'[c] = await[c] /\ inv'[c] = inv[c]
  BY <1>2, SameState DEF MP!Steps, MP!Writes, Register
<1>4. Asked(b)
  BY AskedKept
<1>5. Fit(req'[b])
  <2>1. req'[b] \in Manager!Request /\ (req'[b].retries < MaxRetries \/ req'[b].state = "failed")
    BY <1>2, <1>3 DEF MP!Steps
  <2> QED BY <1>4, <2>1, FreshFits DEF Asked, Fit, Typed
<1>6. MP!InPlace'
  <2>1. ASSUME NEW c \in Battery, await'[c] # "none" PROVE req'[c].state = MP!StateOf(await'[c])
    BY <1>2, <1>3, <2>1 DEF MP!Steps, Typed, Between, MP!InPlace
  <2> QED BY <2>1 DEF MP!InPlace
<1> QED BY <1>3, <1>5, <1>6 DEF Typed

\* Taking up a request.
LEMMA ProcessOneStep ==
    ASSUME Typed, NEW b \in Battery, ProcessOne(b)
    PROVE  /\ Typed'
           /\ inv' = inv /\ await[b] = "none"
           /\ \A c \in Battery \ {b} : req'[c] = req[c] /\ await'[c] = await[c]
           /\ MP!Begin(b) \/ (~Manager!Due(b) /\ UNCHANGED requests)
<1>0. TypeOK /\ (\A c \in Battery : Fit(req[c])) /\ Between /\ await[b] = "none"
  BY DEF Typed, Between, ProcessOne
<1>1. CASE Manager!Begin(b)
  <2>1. MP!Begin(b)
    BY <1>1, SameBegin
  <2>2. inv' = inv
    BY <2>1 DEF MP!Begin, MP!Prepare, MP!EnterStandby, MP!SetTarget, MP!StartVerify, MP!Verify,
                MP!Prune, MP!Begins, MP!NoWrite, MP!registers
  <2>3. /\ req' \in [Battery -> Manager!Request] /\ await' \in [Battery -> Manager!Awaited]
        /\ \A c \in Battery : Fit(req'[c])
        /\ MP!InPlace'
        /\ \A c \in Battery \ {b} : req'[c] = req[c] /\ await'[c] = await[c]
    BY <2>1, ManagerStep
  <2>4. TypeOK'
    BY <1>0, <2>2, <2>3 DEF ProcessOne, TypeOK, snapshot
  <2>5. Between'
    BY <1>0, <2>3 DEF ProcessOne, Between, TypeOK
  <2> QED BY <1>0, <2>1, <2>2, <2>3, <2>4, <2>5 DEF Typed
<1>2. CASE ~Manager!Due(b) /\ UNCHANGED <<requests, inv>>
  BY <1>0, <1>2 DEF ProcessOne, Typed, TypeOK, Between, MP!InPlace, requests, snapshot
<1> QED BY <1>1, <1>2 DEF ProcessOne

\* A call of its step.
LEMMA ProcessCallStep ==
    ASSUME Typed, NEW b \in Battery, ProcessCall(b)
    PROVE  /\ Typed' /\ MP!GoOn(b) /\ await[b] # "none" /\ b \notin todo
           /\ \A c \in Battery \ {b} : req'[c] = req[c] /\ await'[c] = await[c] /\ inv'[c] = inv[c]
<1>0. TypeOK /\ Between
  BY DEF Typed
<1>1. MP!GoOn(b)
  BY SameGoOn DEF ProcessCall
<1>2. await[b] # "none"
  BY <1>1 DEF MP!GoOn, MP!ClearLimit, MP!ClearFast, MP!WriteStandby, MP!CheckFast, MP!FastOff,
              MP!TargetMode, MP!TargetLimit, MP!TargetFast, MP!ReadTarget, MP!VerifyFast,
              MP!VerifyOff, MP!VerifyRetry, MP!VerifyFail, MP!Awaits
<1>3. b \notin todo
  BY <1>0, <1>2 DEF Between
<1>4. /\ req' \in [Battery -> Manager!Request] /\ await' \in [Battery -> Manager!Awaited]
      /\ inv' \in [Battery -> Register]
      /\ \A c \in Battery : Fit(req'[c])
      /\ MP!InPlace'
      /\ \A c \in Battery \ {b} : req'[c] = req[c] /\ await'[c] = await[c] /\ inv'[c] = inv[c]
  BY <1>1, ManagerStep
<1>5. TypeOK'
  BY <1>0, <1>4 DEF ProcessCall, TypeOK, snapshot
<1>6. Between'
  BY <1>0, <1>3, <1>4 DEF ProcessCall, Between, TypeOK
<1> QED BY <1>1, <1>2, <1>3, <1>4, <1>5, <1>6 DEF Typed

\* Time keeps the requests what they are, but for their age.
LEMMA AgeStep ==
    ASSUME Typed, NEW k \in CycleTicks, Manager!AgeRequests(k)
    PROVE  req' \in [Battery -> Manager!Request] /\ \A b \in Battery : Fit(req'[b])
<1>1. k \in Nat /\ AgeCap \in Nat
  BY CycleAssumption, ProtocolAssumption
<1>2. ASSUME NEW b \in Battery PROVE req'[b] \in Manager!Request /\ Fit(req'[b])
  <2>1. req[b] \in Manager!Request /\ Fit(req[b]) /\ req[b].age \in 0..AgeCap
    BY DEF Typed, TypeOK, Manager!Request
  <2>2. Manager!Older(req[b].age, k) \in 0..AgeCap
    BY <1>1, <2>1 DEF Manager!Older
  <2>3. Fit([req[b] EXCEPT !.age = Manager!Older(@, k)])
    BY <2>1, <2>2 DEF Fit, Manager!Request
  <2>4. req'[b] \in {req[b], [req[b] EXCEPT !.age = Manager!Older(@, k)]}
    BY DEF Manager!AgeRequests
  <2> QED BY <2>1, <2>3, <2>4 DEF Fit
<1>3. req' = [b \in Battery |-> req'[b]]
  BY DEF Manager!AgeRequests
<1> QED BY <1>2, <1>3

\* What is left of a command for discharge_pv after its check is a command.
LEMMA CheckedType ==
    ASSUME NEW h \in Command, h.type = "mode", h.mode = "discharge_pv"
    PROVE  Checked(h) \in Command /\ Checked(h).target = h.target /\ Checked(h).type = "mode"
<1>1. CASE \E c \in Battery, m \in Mode : h = SetMode(c, m)
  <2>1. PICK c \in Battery, m \in Mode : h = SetMode(c, m)
    BY <1>1
  <2>2. m = "discharge_pv"
    BY <2>1 DEF SetMode
  <2> QED BY <2>1, <2>2, CommandTypes DEF Checked, SetMode
<1>2. CASE \E c \in Battery : h = Checked(SetMode(c, "discharge_pv"))
  <2>1. PICK c \in Battery : h = Checked(SetMode(c, "discharge_pv"))
    BY <1>2
  <2>2. Checked(h) = h
    BY <2>1 DEF Checked, SetMode
  <2> QED BY <2>2
<1>3. CASE \E c \in Battery, w \in Limit : h = SetLimit(c, w)
  <2>1. PICK c \in Battery, w \in Limit : h = SetLimit(c, w)
    BY <1>3
  <2> QED BY <2>1 DEF SetLimit
<1>4. CASE \E c \in Battery, on \in BOOLEAN : h = SetFast(c, on)
  <2>1. PICK c \in Battery, on \in BOOLEAN : h = SetFast(c, on)
    BY <1>4
  <2> QED BY <2>1 DEF SetFast
<1> QED BY <1>1, <1>2, <1>3, <1>4 DEF Command

\* A check of fast_charging before a discharge: what it leaves in the queue.
LEMMA ExecuteCheckStep ==
    ASSUME Typed, ExecuteCheck
    PROVE  /\ Head(cmds) \in Command /\ Checked(Head(cmds)) \in Command
           /\ cmds' \in Seq(Command)
           /\ Elements(Tail(cmds)) \subseteq Elements(cmds')
           /\ \A c \in Elements(cmds') :
                 \/ c \in Elements(Tail(cmds))
                 \/ c.target = Head(cmds).target /\ c.type = "mode"
                 \/ c.type = "fast" /\ ~c.on
<1> DEFINE b == Head(cmds).target
           C == <<Checked(Head(cmds))>>
           T == Tail(cmds)
<1>1. /\ Head(cmds) \in Command /\ T \in Seq(Command) /\ b \in Battery
      /\ Head(cmds).type = "mode" /\ Head(cmds).mode = "discharge_pv"
  BY HeadTail, CommandFields DEF ExecuteCheck, Typed, TypeOK
<1>2. /\ Checked(Head(cmds)) \in Command
      /\ Checked(Head(cmds)).target = b /\ Checked(Head(cmds)).type = "mode"
  BY <1>1, CheckedType
<1>3. PICK on \in BOOLEAN : cmds' = When(on, <<SetFast(b, FALSE)>>) \o C \o T
  BY DEF ExecuteCheck
<1> DEFINE F == When(on, <<SetFast(b, FALSE)>>)
<1>4. SetFast(b, FALSE) \in Command /\ SetFast(b, FALSE).type = "fast" /\ ~SetFast(b, FALSE).on
  BY <1>1, CommandTypes DEF SetFast
<1>5. /\ <<SetFast(b, FALSE)>> \in Seq(Command) /\ Elements(<<SetFast(b, FALSE)>>) = {SetFast(b, FALSE)}
      /\ C \in Seq(Command) /\ Elements(C) = {Checked(Head(cmds))}
  BY <1>2, <1>4, ListElements
<1>6. F \in Seq(Command) /\ Elements(F) \subseteq {SetFast(b, FALSE)}
  BY <1>5, WhenElements
<1> HIDE DEF b, C, T, F
<1>7. F \o C \in Seq(Command) /\ Elements(F \o C) = Elements(F) \cup Elements(C)
  BY <1>5, <1>6, ConcatElements
<1>8. /\ F \o C \o T \in Seq(Command)
      /\ Elements(F \o C \o T) = Elements(F \o C) \cup Elements(T)
  <2> DEFINE D == F \o C
  <2>1. D \in Seq(Command) /\ F \o C \o T = D \o T
    BY <1>7
  <2> HIDE DEF D
  <2>2. D \o T \in Seq(Command) /\ Elements(D \o T) = Elements(D) \cup Elements(T)
    BY <1>1, <2>1, ConcatElements
  <2>3. D = F \o C
    BY DEF D
  <2> QED BY <2>1, <2>2, <2>3
<1>9. cmds' = F \o C \o T
  BY <1>3 DEF F
<1>10. ASSUME NEW c \in Elements(cmds')
       PROVE  \/ c \in Elements(T)
              \/ c.target = b /\ c.type = "mode"
              \/ c.type = "fast" /\ ~c.on
  BY <1>2, <1>4, <1>5, <1>6, <1>7, <1>8, <1>9, <1>10
<1> QED BY <1>1, <1>2, <1>7, <1>8, <1>9, <1>10 DEF b, T

\* A command for a mode, given to the manager.
LEMMA ExecuteModeStep ==
    ASSUME Typed, ExecuteMode
    PROVE  LET b == Head(cmds).target
           IN  /\ b \in Battery /\ Head(cmds) \in Command /\ Tail(cmds) \in Seq(Command)
               /\ req' \in [Battery -> Manager!Request]
               /\ \A c \in Battery : Fit(req'[c])
               /\ \A c \in Battery \ {b} : req'[c] = req[c]
               /\ \/ req'[b] = req[b]
                  \/ req'[b].state = "idle" /\ req[b].state \notin Manager!Waiting
<1> DEFINE b == Head(cmds).target
           m == Head(cmds).mode
<1>1. /\ Head(cmds) \in Command /\ Tail(cmds) \in Seq(Command) /\ b \in Battery /\ m \in Mode
  BY HeadTail, CommandFields DEF ExecuteMode, Typed, TypeOK
<1> HIDE DEF b, m
<1>2. req \in [Battery -> Manager!Request]
  BY DEF Typed, TypeOK
<1>3. \/ req' = req
      \/ /\ ~Manager!InProgress(b)
         /\ req' = [req EXCEPT ![b] = Manager!NewRequest(m, 0, FALSE, FALSE)]
  BY DEF ExecuteMode, b, m
<1>4. CASE req' = req
  BY <1>1, <1>2, <1>4 DEF Typed, b
<1>5. CASE /\ ~Manager!InProgress(b)
           /\ req' = [req EXCEPT ![b] = Manager!NewRequest(m, 0, FALSE, FALSE)]
  <2>1. Fit(Manager!NewRequest(m, 0, FALSE, FALSE))
    BY <1>1, FreshFits
  <2>2. req' \in [Battery -> Manager!Request] /\ req'[b] = Manager!NewRequest(m, 0, FALSE, FALSE)
    BY <1>1, <1>2, <1>5, <2>1 DEF Fit
  <2>3. \A c \in Battery \ {b} : req'[c] = req[c]
    BY <1>2, <1>5
  <2>4. req'[b].state = "idle" /\ req[b].state \notin Manager!Waiting
    BY <1>5, <2>2 DEF Manager!NewRequest, Manager!InProgress
  <2>5. \A c \in Battery : Fit(req'[c])
    BY <2>1, <2>2, <2>3 DEF Typed
  <2> QED BY <1>1, <2>2, <2>3, <2>4, <2>5 DEF b
<1> QED BY <1>3, <1>4, <1>5

\* The types hold at the start.
LEMMA TypedInit == Init => Typed
<1> SUFFICES ASSUME Init PROVE Typed
  OBVIOUS
<1>1. req \in [Battery -> Manager!Request] /\ \A b \in Battery : Fit(req[b])
  BY FreshFits, NewRequestType DEF Init
<1>2. cmds \in Seq(Command)
  BY DEF Init
<1>3. since \in [Battery -> 0..Cooldown]
  BY CycleAssumption DEF Init
<1>4. await \in [Battery -> Manager!Awaited] /\ \A b \in Battery : await[b] = "none"
  BY DEF Init, Manager!Awaited
<1> QED BY <1>1, <1>2, <1>3, <1>4 DEF Init, Typed, TypeOK, Between, MP!InPlace

\* Outside process() no call is awaited, whatever becomes of the requests.
LEMMA BetweenStep ==
    ASSUME Typed, await' = await, todo' \subseteq Battery,
           \A b \in Battery : await[b] = "none"
    PROVE  Between'
  BY DEF Between, MP!InPlace

\* Every step keeps them.
LEMMA TypedStep ==
    ASSUME Typed, [Next]_vars
    PROVE  Typed'
<1> USE DEF TypeOK
<1>0. TypeOK /\ (\A b \in Battery : Fit(req[b])) /\ Between
  BY DEF Typed
<1>f. ASSUME pc # "process", await' = await, todo' \subseteq Battery PROVE Between'
  BY <1>0, <1>f, BetweenStep DEF Between
<1> USE DEF requests, snapshot
<1>1. CASE StartCycle
  <2>1. cmds' \in Seq(Command)
    BY <1>1, GuardQueue DEF StartCycle
  <2>2. atFloor' \subseteq Battery
    <3>1. atFloor' = AtFloor(atFloor, Snapshot')
      BY <1>1 DEF StartCycle
    <3>2. DOMAIN Snapshot' = Battery
      BY DEF Snapshot
    <3>3. AtFloor(atFloor, Snapshot') \subseteq (DOMAIN Snapshot') \cup atFloor
      BY DEF AtFloor
    <3> QED BY <1>0, <3>1, <3>2, <3>3
  <2> QED BY <1>0, <1>f, <1>1, <2>1, <2>2 DEF StartCycle, Typed
<1>2. CASE GuardWrite \/ ExecuteWrite
  <2>1. inv' \in [Battery -> Register]
    BY <1>0, <1>2, WriteHeadStep DEF GuardWrite, ExecuteWrite
  <2>2. Tail(cmds) \in Seq(Command)
    BY <1>0, <1>2, HeadTail DEF GuardWrite, ExecuteWrite
  <2> QED BY <1>0, <1>f, <1>2, <2>1, <2>2 DEF GuardWrite, ExecuteWrite, Typed
<1>3. CASE Freeze
  BY <1>0, <1>f, <1>3 DEF Freeze, Typed
<1>4. CASE Decide
  <2>1. req' = [b \in Battery |-> IF BelowFloor(b) THEN Recovery ELSE req[b]]
    BY <1>4 DEF Decide, Recovery
  <2>2. Fit(Recovery) /\ Recovery \in Manager!Request
    BY FreshFits DEF Fit
  <2>3. req' \in [Battery -> Manager!Request] /\ \A b \in Battery : Fit(req'[b])
    BY <1>0, <2>1, <2>2
  <2>4. cmds' \in Seq(Command)
    BY <1>0, <1>4, ExecutorQueue DEF Decide
  <2> QED BY <1>0, <1>f, <1>4, <2>3, <2>4 DEF Decide, Typed
<1>5. CASE ExecuteDropped
  <2>1. Tail(cmds) \in Seq(Command)
    BY <1>0, <1>5, HeadTail DEF ExecuteDropped
  <2> QED BY <1>0, <1>f, <1>5, <2>1 DEF ExecuteDropped, Typed
<1>6. CASE ExecuteMode
  <2>1. /\ Tail(cmds) \in Seq(Command)
        /\ req' \in [Battery -> Manager!Request]
        /\ \A c \in Battery : Fit(req'[c])
    BY <1>6, ExecuteModeStep
  <2>2. since' \in [Battery -> 0..Cooldown]
    <3>1. 0 \in 0..Cooldown
      BY CycleAssumption
    <3>2. since' = since \/ since' = [since EXCEPT ![Head(cmds).target] = 0]
      BY <1>6 DEF ExecuteMode
    <3> QED BY <1>0, <3>1, <3>2
  <2> QED BY <1>0, <1>f, <1>6, <2>1, <2>2 DEF ExecuteMode, Typed
<1>7. CASE ExecuteDone
  BY <1>0, <1>f, <1>7 DEF ExecuteDone, Typed
<1>c. CASE ExecuteCheck
  <2>1. cmds' \in Seq(Command)
    BY <1>c, ExecuteCheckStep
  <2> QED BY <1>0, <1>f, <1>c, <2>1 DEF ExecuteCheck, Typed
<1>8. ASSUME NEW b \in Battery, ProcessOne(b) \/ ProcessCall(b) PROVE Typed'
  BY <1>8, ProcessOneStep, ProcessCallStep
<1>9. CASE ProcessDone
  <2>1. Between'
    BY <1>0, <1>9 DEF ProcessDone, Between, Manager!Free, MP!InPlace
  <2> QED BY <1>0, <1>9, <2>1 DEF ProcessDone, Typed
<1>10. CASE NightPlan
  <2> DEFINE Q == Manager!NewRequest("charge_pv", 0, FALSE, FALSE)
  <2>1. req' = [b \in Battery |-> IF site.nightPlan /\ ~Manager!InProgress(b) THEN Q ELSE req[b]]
    BY <1>10 DEF NightPlan
  <2>2. Fit(Q) /\ Q \in Manager!Request
    BY FreshFits, ProtocolAssumption DEF Fit
  <2> HIDE DEF Q
  <2>3. req' \in [Battery -> Manager!Request] /\ \A b \in Battery : Fit(req'[b])
    BY <1>0, <2>1, <2>2
  <2> QED BY <1>0, <1>f, <1>10, <2>3 DEF NightPlan, Typed
<1>11. CASE Sleep
  <2>1. PICK k \in CycleTicks :
          /\ Manager!AgeRequests(k)
          /\ since' = [b \in Battery |->
                          IF since[b] + k < Cooldown THEN since[b] + k ELSE Cooldown]
    BY <1>11 DEF Sleep
  <2>2. req' \in [Battery -> Manager!Request] /\ \A b \in Battery : Fit(req'[b])
    BY <2>1, AgeStep
  <2>3. since' \in [Battery -> 0..Cooldown]
    BY <1>0, <2>1, CycleAssumption
  <2> QED BY <1>0, <1>f, <1>11, <2>2, <2>3 DEF Sleep, Typed
<1>12. CASE Restart
  <2>1. req' \in [Battery -> Manager!Request] /\ \A b \in Battery : Fit(req'[b])
    BY <1>12, FreshFits, NewRequestType DEF Restart
  <2>2. cmds' \in Seq(Command) /\ since' \in [Battery -> 0..Cooldown]
    BY <1>12, CycleAssumption DEF Restart
  <2>3. await' \in [Battery -> Manager!Awaited] /\ Between'
    BY <1>12 DEF Restart, Between, MP!InPlace, Manager!Awaited
  <2> QED BY <1>0, <1>12, <2>1, <2>2, <2>3 DEF Restart, Typed
<1>13. CASE \E b \in Battery : Drift(b)
  <2>1. PICK b \in Battery : Drift(b)
    BY <1>13
  <2>2. [inv[b] EXCEPT !.fc = TRUE] \in Register
    BY <1>0 DEF Register, Manager!Register
  <2>3. inv' = [inv EXCEPT ![b] = [inv[b] EXCEPT !.fc = TRUE]]
    BY <1>0, <2>1 DEF Drift
  <2>4. inv' \in [Battery -> Register]
    BY <1>0, <2>2, <2>3
  <2>5. Between'
    BY <1>0, <2>1 DEF Drift, Between, MP!InPlace
  <2> QED BY <1>0, <2>1, <2>4, <2>5 DEF Drift, Typed
<1>14. CASE UNCHANGED vars
  BY <1>0, <1>14 DEF vars, Typed, Between, MP!InPlace
<1> QED BY <1>1, <1>2, <1>3, <1>4, <1>5, <1>6, <1>c, <1>7, <1>8, <1>9, <1>10, <1>11,
          <1>12, <1>13, <1>14 DEF Next, Loop

\* Type correctness of the cycle: whatever the sensors say, whatever is lost and
\* whenever the service restarts, the queue holds commands the inverters know, and
\* no request is retried more than max_retries times.
THEOREM CycleTyped == Spec => []TypeOK
<1>1. Spec => []Typed
  BY TypedInit, TypedStep, PTL DEF Spec
<1> QED BY <1>1, PTL DEF Typed

------------------------------------------------------------------------------
(* Protocols run out.                                                      *)

\* PLAT-1696, for every battery and every cycle, lossy or not: a protocol under way
\* is replaced by an emergency only.
THEOREM ProtocolsRunOut == Spec => RunsOut
<1> DEFINE Cut(b) == /\ pc' # "idle"
                     /\ req[b].state \in Manager!Waiting
                     /\ req'[b].state \notin Manager!Waiting \cup Manager!Terminal
           Kept == \A b \in Battery : Cut(b) => req'[b].emergency
<1>1. ASSUME Typed, [Next]_vars PROVE Kept
  <2>1. CASE UNCHANGED req
    BY <2>1
  <2>2. CASE Decide
    BY <2>2 DEF Decide, Manager!NewRequest
  <2>3. CASE ExecuteMode
    <3>1. ASSUME NEW b \in Battery, Cut(b) PROVE FALSE
      <4>1. req'[b] = req[b] \/ req[b].state \notin Manager!Waiting
        BY <1>1, <2>3, ExecuteModeStep
      <4> QED BY <3>1, <4>1
    <3> QED BY <3>1
  <2>4. ASSUME NEW b \in Battery, ProcessOne(b) \/ ProcessCall(b) PROVE Kept
    <3>1. ASSUME NEW c \in Battery, Cut(c) PROVE FALSE
      <4>1. \/ req'[c] = req[c]
            \/ c = b /\ (MP!Begin(b) \/ MP!GoOn(b))
        BY <1>1, <2>4, ProcessOneStep, ProcessCallStep DEF requests
      <4>2. req'[c] = req[c] \/ Onward(c)
        BY <1>1, <4>1, AskedKept
      <4> QED BY <3>1, <4>2 DEF Onward
    <3> QED BY <3>1
  <2>5. CASE NightPlan
    BY <2>5 DEF NightPlan, Manager!InProgress
  <2>6. CASE Sleep \/ Restart
    BY <2>6 DEF Sleep, Restart
  <2> QED BY <1>1, <2>1, <2>2, <2>3, <2>4, <2>5, <2>6
       DEF Next, Loop, StartCycle, GuardWrite, Freeze, ExecuteDropped, ExecuteCheck,
           ExecuteWrite, ExecuteDone, ProcessDone, Drift, requests, vars
<1>2. Spec => []Typed
  BY TypedInit, TypedStep, PTL DEF Spec
<1>3. Typed /\ [Next]_vars => [Kept]_vars
  BY <1>1
<1>4. [][Kept]_vars => RunsOut
  <2>1. [Kept]_vars => [\A b \in Battery :
         (/\ pc' # "idle"
          /\ req[b].state \in Manager!Waiting
          /\ req'[b].state \notin Manager!Waiting \cup Manager!Terminal) =>
             req'[b].emergency]_vars
    OBVIOUS
  <2> QED BY <2>1, PTL DEF RunsOut
<1> HIDE DEF Kept
<1> QED BY <1>2, <1>3, <1>4, PTL DEF Spec

------------------------------------------------------------------------------
(* The calls of the manager when they land.                                *)

\* What a call of b's step does to the request, the call awaited, the mode and fast_charging.
Landed(b) ==
    \/ /\ await[b] = "clear_limit" /\ await'[b] = "clear_fast" /\ req'[b] = req[b]
    \/ /\ await[b] = "clear_fast" /\ await'[b] \in {"none", "check_fast", "mode"}
       /\ ~inv'[b].fc
       /\ req'[b].target = req[b].target /\ req'[b].fc = req[b].fc
       /\ req[b].emergency /\ req[b].target # "discharge_pv" => await'[b] = "mode"
    \/ /\ await[b] \in {"standby", "check_fast", "fast_off", "read_mode", "verify_fast", "verify_off"}
       /\ await'[b] \in {"none", "check_fast", "fast_off", "mode", "verify_fast", "verify_off"}
       /\ inv'[b].fc => inv[b].fc
    \/ /\ await[b] = "mode" /\ await'[b] = "limit" /\ req'[b] = req[b]
       /\ inv'[b].mode = req[b].target /\ inv'[b].fc = inv[b].fc
    \/ /\ await[b] = "limit" /\ await'[b] = (IF req[b].fc THEN "fast_on" ELSE "none")
       /\ req'[b] = req[b]
       /\ inv'[b].mode = inv[b].mode /\ inv'[b].fc = inv[b].fc
    \/ /\ await[b] = "fast_on" /\ await'[b] = "none"
       /\ inv'[b].mode = inv[b].mode /\ inv'[b].fc

\* Every call does one of these.
LEMMA CallLands ==
    ASSUME Reliable, Typed, NEW b \in Battery, MP!GoOn(b)
    PROVE  Landed(b)
<1>0. /\ MP!TypeOK /\ req \in [Battery -> MP!Request] /\ req[b] \in MP!Request
      /\ req[b].target \in Mode /\ req[b].limit \in Limit
      /\ "battery_standby" \in Mode /\ 0 \in Limit
  BY ManagerTyped, ManagerAssumptions DEF MP!Typed, MP!TypeOK, MP!Request
<1>1. ASSUME NEW from, NEW to \in MP!Awaited, MP!Awaits(b, from, to)
      PROVE  await[b] = from /\ await'[b] = to
  BY <1>0, <1>1 DEF MP!Awaits, MP!TypeOK
<1>2. MP!FirstOfTarget(req[b]) = IF req[b].target = "discharge_pv" THEN "check_fast" ELSE "mode"
  BY DEF MP!FirstOfTarget
<1>3. ASSUME MP!NoWrite PROVE inv' = inv
  BY <1>3 DEF MP!NoWrite, MP!registers
<1>4. ASSUME NEW m \in Mode, MP!WriteMode(b, m)
      PROVE  inv'[b].mode = m /\ inv'[b].fc = inv[b].fc
  BY <1>0, <1>4, MP!WriteModeType, ManagerAssumptions
<1>5. ASSUME NEW w \in Limit, MP!WriteLimit(b, w)
      PROVE  inv'[b].mode = inv[b].mode /\ inv'[b].fc = inv[b].fc
  BY <1>0, <1>5, MP!WriteLimitType, ManagerAssumptions
<1>6. ASSUME NEW on \in BOOLEAN, MP!WriteFast(b, on)
      PROVE  inv'[b].mode = inv[b].mode /\ inv'[b].fc = on
  BY <1>0, <1>6, MP!WriteFastType, ManagerAssumptions
<1> USE DEF Landed, MP!Awaited
<1>7. CASE MP!ClearLimit(b)
  BY <1>1, <1>7 DEF MP!ClearLimit
<1>8. CASE MP!ClearFast(b)
  <2>1. ~inv'[b].fc
    BY <1>6, <1>8 DEF MP!ClearFast
  <2>2. ASSUME NEW s, MP!BecomesOnly(b, s)
        PROVE  req'[b].target = req[b].target /\ req'[b].fc = req[b].fc
    BY <1>0, <2>2 DEF MP!BecomesOnly, MP!Request
  <2>3. CASE ~MP!SkipsBoth(req[b])
    BY <1>1, <1>8, <2>1, <2>2, <2>3 DEF MP!ClearFast, MP!SkipsBoth
  <2>4. CASE MP!SkipsBoth(req[b])
    BY <1>1, <1>2, <1>8, <2>1, <2>2, <2>4 DEF MP!ClearFast
  <2> QED BY <2>3, <2>4
<1>9. CASE MP!WriteStandby(b)
  BY <1>0, <1>1, <1>4, <1>9 DEF MP!WriteStandby
<1>10. CASE MP!CheckFast(b)
  BY <1>1, <1>3, <1>10 DEF MP!CheckFast
<1>11. CASE MP!FastOff(b) \/ MP!VerifyOff(b)
  BY <1>1, <1>6, <1>11 DEF MP!FastOff, MP!VerifyOff
<1>12. CASE MP!TargetMode(b)
  BY <1>0, <1>1, <1>4, <1>12 DEF MP!TargetMode
<1>13. CASE MP!TargetLimit(b)
  BY <1>0, <1>1, <1>5, <1>13 DEF MP!TargetLimit
<1>14. CASE MP!TargetFast(b)
  BY <1>1, <1>6, <1>14 DEF MP!TargetFast
<1>15. CASE MP!ReadTarget(b) \/ MP!VerifyFast(b)
  BY <1>1, <1>3, <1>15 DEF MP!ReadTarget, MP!VerifyFast
<1>16. CASE MP!VerifyRetry(b) \/ MP!VerifyFail(b)
  BY <1>1, <1>2, <1>3, <1>16 DEF MP!VerifyRetry, MP!VerifyFail
<1> QED BY <1>7, <1>8, <1>9, <1>10, <1>11, <1>12, <1>13, <1>14, <1>15, <1>16 DEF MP!GoOn

------------------------------------------------------------------------------
(* INV-3 once the cycle is over.                                           *)

\* The executor switches fast_charging off wherever nothing recovers; what
\* recovers has a fresh request.
SwitchingOff ==
    pc = "execute" =>
        /\ \A c \in Elements(cmds) : c.type = "fast" => ~c.on
        /\ \A b \in Battery :
             IF BelowFloor(b) THEN req[b].state = "idle"
             ELSE b \in drifted \/ ~inv[b].fc \/ SetFast(b, FALSE) \in Elements(cmds)

\* Within a step of the manager it is off, or about to be cleared, or the battery charges.
Dark(b) ==
    \/ await[b] \in {"clear_limit", "clear_fast"}
    \/ /\ ~inv[b].fc
       /\ await[b] = "limit" /\ req[b].fc => inv[b].mode = "charge_battery"
       /\ await[b] = "fast_on" => inv[b].mode = "charge_battery"

\* So the manager finds it off, or clears it before it sets a target.
OffOrIdle ==
    pc = "process" =>
        \A b \in Battery \ drifted :
            /\ b \in todo => req[b].state = "idle" \/ ~inv[b].fc
            /\ b \notin todo /\ await[b] = "none" => ~(inv[b].mode = "discharge_pv" /\ inv[b].fc)
            /\ await[b] # "none" => Dark(b)

FastOffInv == Typed /\ SwitchingOff /\ OffOrIdle /\ FastOffAtRest

\* The invariant holds at the start.
LEMMA FastOffInit == Init => FastOffInv
  BY TypedInit DEF Init, FastOffInv, SwitchingOff, OffOrIdle, FastOffAtRest, CycleDone

\* A call of the manager leaves a battery dark, or done and not discharging with it on.
LEMMA StaysDark ==
    ASSUME Reliable, Typed, NEW b \in Battery, MP!GoOn(b), Dark(b)
    PROVE  /\ await'[b] # "none" => Dark(b)'
           /\ await'[b] = "none" => ~(inv'[b].mode = "discharge_pv" /\ inv'[b].fc)
<1>1. Landed(b)
  BY CallLands
<1>2. req[b].fc => req[b].target = "charge_battery"
  BY DEF Typed, Fit
<1> QED BY <1>1, <1>2 DEF Landed, Dark

\* Every step keeps it, when every write lands.
LEMMA FastOffStep ==
    ASSUME Reliable, FastOffInv, [Next]_vars
    PROVE  FastOffInv'
<1> USE DEF SwitchingOff, OffOrIdle, FastOffAtRest, CycleDone, requests, snapshot
<1>0. Typed /\ TypeOK /\ Between /\ SwitchingOff /\ OffOrIdle /\ FastOffAtRest
  BY DEF FastOffInv, Typed
<1>t. Typed'
  BY <1>0, TypedStep
<1> DEFINE Goal == SwitchingOff' /\ OffOrIdle' /\ FastOffAtRest'
<1> SUFFICES Goal
  BY <1>t DEF FastOffInv
<1>1. CASE StartCycle \/ GuardWrite \/ NightPlan \/ Sleep \/ Restart
  BY <1>1 DEF StartCycle, GuardWrite, NightPlan, Sleep, Restart
<1>2. CASE Freeze
  BY <1>2 DEF Freeze, Frozen
<1>3. CASE Decide
  <2>1. pc' = "execute" /\ UNCHANGED <<inv, read, drifted>>
    BY <1>3 DEF Decide
  <2>2. \A b \in Battery : BelowFloor(b)' = BelowFloor(b)
    BY <2>1 DEF BelowFloor
  <2>3. \A b \in Battery : BelowFloor(b) => req'[b].state = "idle"
    BY <1>3 DEF Decide, Manager!NewRequest
  <2>4. /\ \A c \in Elements(cmds') : c.type = "fast" => ~c.on
        /\ \A b \in Battery : ~BelowFloor(b) => SetFast(b, FALSE) \in Elements(cmds')
    BY <1>0, <1>3, ExecutorQueue DEF Decide
  <2>5. SwitchingOff'
    BY <2>2, <2>3, <2>4
  <2> QED BY <2>1, <2>5
<1>4. ASSUME pc = "execute", pc' = "execute", cmds # <<>>,
             Elements(Tail(cmds)) \subseteq Elements(cmds'),
             \A c \in Elements(cmds') : c \in Elements(Tail(cmds)) \/ (c.type = "fast" => ~c.on),
             UNCHANGED <<read, drifted>>,
             \A b \in Battery : req[b].state = "idle" => req'[b].state = "idle",
             \A b \in Battery : ~inv[b].fc => ~inv'[b].fc,
             Head(cmds).type = "fast" => ~inv'[Head(cmds).target].fc
      PROVE  Goal
  <2>1. cmds \in Seq(Command) /\ Elements(cmds) = {Head(cmds)} \cup Elements(Tail(cmds))
    BY <1>0, <1>4, HeadTail DEF TypeOK
  <2>2. \A b \in Battery : BelowFloor(b)' = BelowFloor(b)
    BY <1>4 DEF BelowFloor
  <2>3. ASSUME NEW b \in Battery, ~BelowFloor(b)
        PROVE  b \in drifted' \/ ~inv'[b].fc \/ SetFast(b, FALSE) \in Elements(cmds')
    <3>1. CASE Head(cmds) = SetFast(b, FALSE)
      <4>0. SetFast(b, FALSE).type = "fast" /\ SetFast(b, FALSE).target = b
        BY DEF SetFast
      <4>1. Head(cmds).type = "fast" /\ Head(cmds).target = b
        BY <3>1, <4>0
      <4> QED BY <1>4, <4>1
    <3>2. CASE Head(cmds) # SetFast(b, FALSE)
      BY <1>0, <1>4, <2>1, <2>3, <3>2
    <3> QED BY <3>1, <3>2
  <2>4. SwitchingOff'
    BY <1>0, <1>4, <2>1, <2>2, <2>3
  <2> QED BY <1>4, <2>4
<1>5. CASE ExecuteDropped
  BY <1>4, <1>5 DEF ExecuteDropped
<1>c. CASE ExecuteCheck
  <2>1. /\ pc = "execute" /\ pc' = "execute" /\ cmds # <<>> /\ UNCHANGED <<req, inv, read, drifted>>
        /\ Head(cmds).type = "mode"
    BY <1>c DEF ExecuteCheck
  <2>2. /\ Elements(Tail(cmds)) \subseteq Elements(cmds')
        /\ \A c \in Elements(cmds') : c \in Elements(Tail(cmds)) \/ (c.type = "fast" => ~c.on)
    BY <1>0, <1>c, ExecuteCheckStep
  <2> QED BY <1>4, <2>1, <2>2
<1>6. CASE ExecuteMode
  <2>1. \A b \in Battery : req[b].state = "idle" => req'[b].state = "idle"
    BY <1>0, <1>6, ExecuteModeStep
  <2>2. /\ pc = "execute" /\ pc' = "execute" /\ cmds # <<>> /\ cmds' = Tail(cmds)
        /\ UNCHANGED <<inv, read, drifted>> /\ Head(cmds).type # "fast"
    BY <1>6 DEF ExecuteMode
  <2> QED BY <1>4, <2>1, <2>2
<1>7. CASE ExecuteWrite
  <2>1. /\ pc = "execute" /\ pc' = "execute" /\ cmds # <<>> /\ cmds' = Tail(cmds)
        /\ UNCHANGED <<req, read, drifted>> /\ WriteHead
    BY <1>7 DEF ExecuteWrite
  <2>2. Head(cmds).type = "fast" => ~Head(cmds).on
    BY <1>0, <2>1, HeadTail DEF TypeOK
  <2>3. /\ \A b \in Battery \ {Head(cmds).target} : inv'[b] = inv[b]
        /\ Head(cmds).type # "fast" => inv'[Head(cmds).target].fc = inv[Head(cmds).target].fc
        /\ Head(cmds).type = "fast" => inv'[Head(cmds).target].fc = Head(cmds).on
    BY <1>0, <2>1, WriteHeadStep
  <2>4. Head(cmds).type = "fast" => ~inv'[Head(cmds).target].fc
    BY <2>2, <2>3
  <2>5. \A b \in Battery : ~inv[b].fc => ~inv'[b].fc
    BY <2>3, <2>4
  <2> QED BY <1>4, <2>1, <2>4, <2>5
<1>8. CASE ExecuteDone
  <2>1. /\ pc = "execute" /\ pc' = "process" /\ todo' = {b \in Battery : req[b].state # "absent"}
        /\ UNCHANGED <<req, await, inv, drifted>> /\ cmds = <<>>
    BY <1>8 DEF ExecuteDone
  <2>2. Elements(cmds) = {} /\ \A b \in Battery : await[b] = "none"
    BY <1>0, <2>1 DEF Elements, Between
  <2>3. \A b \in Battery \ drifted : IF BelowFloor(b) THEN req[b].state = "idle" ELSE ~inv[b].fc
    BY <1>0, <2>1, <2>2
  <2>4. OffOrIdle'
    BY <2>1, <2>2, <2>3
  <2> QED BY <2>1, <2>4
<1>9. ASSUME NEW b \in Battery, ProcessOne(b) PROVE Goal
  <2>1. /\ pc = "process" /\ pc' = "process" /\ b \in todo /\ todo' = todo \ {b}
        /\ UNCHANGED drifted
    BY <1>9 DEF ProcessOne
  <2>2. /\ \A c \in Battery \ {b} : req'[c] = req[c] /\ await'[c] = await[c]
        /\ inv' = inv /\ await[b] = "none"
        /\ MP!Begin(b) \/ (~Manager!Due(b) /\ UNCHANGED requests)
    BY <1>0, <1>9, ProcessOneStep
  <2>3. ASSUME b \notin drifted
        PROVE  /\ await'[b] # "none" => Dark(b)'
               /\ await'[b] = "none" => ~(inv'[b].mode = "discharge_pv" /\ inv'[b].fc)
    <3>1. req[b].state = "idle" \/ ~inv[b].fc
      BY <1>0, <2>1, <2>3
    <3>2. CASE MP!Begin(b) /\ req[b].state = "idle"
      <4>1. MP!Prepare(b)
        BY <3>2 DEF MP!Begin, MP!EnterStandby, MP!SetTarget, MP!StartVerify, MP!Verify, MP!Prune,
                    MP!Terminal
      <4>2. await'[b] = "clear_limit"
        BY <1>0, <4>1 DEF MP!Prepare, MP!Begins, MP!Awaits, TypeOK
      <4> QED BY <4>2 DEF Dark
    <3>3. CASE MP!Begin(b) /\ req[b].state # "idle"
      <4>1. await'[b] \notin {"limit", "fast_on"}
        BY <1>0, <3>3 DEF MP!Begin, MP!Prepare, MP!EnterStandby, MP!SetTarget, MP!StartVerify,
                          MP!Verify, MP!Prune, MP!Begins, MP!Awaits, MP!FirstOfTarget, TypeOK
      <4> QED BY <2>2, <3>1, <3>3, <4>1 DEF Dark
    <3>4. CASE ~Manager!Due(b) /\ UNCHANGED requests
      BY <2>2, <3>1, <3>4 DEF Manager!Due
    <3> QED BY <2>2, <3>2, <3>3, <3>4
  <2>4. ASSUME NEW c \in Battery \ drifted, c # b PROVE Dark(c)' = Dark(c)
    BY <2>2, <2>4 DEF Dark
  <2>5. OffOrIdle'
    BY <1>0, <2>1, <2>2, <2>3, <2>4
  <2> QED BY <2>1, <2>5
<1>p. ASSUME NEW b \in Battery, ProcessCall(b) PROVE Goal
  <2>1. pc = "process" /\ pc' = "process" /\ todo' = todo /\ UNCHANGED drifted
    BY <1>p DEF ProcessCall
  <2>2. /\ MP!GoOn(b) /\ await[b] # "none" /\ b \notin todo
        /\ \A c \in Battery \ {b} : req'[c] = req[c] /\ await'[c] = await[c] /\ inv'[c] = inv[c]
    BY <1>0, <1>p, ProcessCallStep
  <2>3. ASSUME b \notin drifted
        PROVE  /\ await'[b] # "none" => Dark(b)'
               /\ await'[b] = "none" => ~(inv'[b].mode = "discharge_pv" /\ inv'[b].fc)
    <3>1. Dark(b)
      BY <1>0, <2>1, <2>2, <2>3
    <3> QED BY <1>0, <2>2, <3>1, StaysDark
  <2>4. ASSUME NEW c \in Battery \ drifted, c # b PROVE Dark(c)' = Dark(c)
    BY <2>2, <2>4 DEF Dark
  <2>5. OffOrIdle'
    BY <1>0, <2>1, <2>2, <2>3, <2>4
  <2> QED BY <2>1, <2>5
<1>10. CASE ProcessDone
  BY <1>0, <1>10 DEF ProcessDone, Manager!Free
<1>11. ASSUME NEW b \in Battery, Drift(b) PROVE Goal
  <2>1. /\ UNCHANGED <<req, await, pc, cmds, todo, read, site>> /\ drifted' = drifted \cup {b}
        /\ inv' = [inv EXCEPT ![b].fc = TRUE]
    BY <1>11 DEF Drift
  <2>2. \A c \in Battery \ {b} : inv'[c] = inv[c]
    BY <1>0, <2>1 DEF TypeOK
  <2>3. \A c \in Battery : BelowFloor(c)' = BelowFloor(c)
    BY <2>1 DEF BelowFloor
  <2>4. SwitchingOff'
    BY <1>0, <2>1, <2>2, <2>3
  <2>5. OffOrIdle'
    BY <1>0, <2>1, <2>2 DEF Dark
  <2>6. FastOffAtRest'
    BY <1>0, <2>1, <2>2 DEF Frozen
  <2> QED BY <2>4, <2>5, <2>6
<1>12. CASE UNCHANGED vars
  BY <1>0, <1>12 DEF vars, BelowFloor, Frozen, Dark
<1> QED BY <1>1, <1>2, <1>3, <1>5, <1>c, <1>6, <1>7, <1>8, <1>9, <1>p, <1>10, <1>11, <1>12
     DEF Next, Loop

\* INV-3 at the end of a cycle, for any batteries and any readings, with any drift
\* between any two calls and any restart: when every write lands and every read tells the
\* truth, no battery is left discharging with fast_charging on, unless it came on during
\* the cycle.
THEOREM FastOffHolds ==
    ASSUME Reliable
    PROVE  Spec => []FastOffAtRest
<1>1. FastOffInv /\ [Next]_vars => FastOffInv'
  BY FastOffStep
<1>2. FastOffInv => FastOffAtRest
  BY DEF FastOffInv
<1> QED BY <1>1, <1>2, FastOffInit, PTL DEF Spec

------------------------------------------------------------------------------
(* The recovery is immediate.                                              *)

\* No command of the executor replaces a recovery.
RecoveryAsked ==
    pc = "execute" =>
        /\ \A c \in Elements(cmds) : c.type = "mode" => ~BelowFloor(c.target)
        /\ \A b \in Battery : BelowFloor(b) => req[b] = Recovery

\* The calls of a recovery: all of them within one process().
Recovering(b) ==
    /\ req[b].target = "charge_battery" /\ req[b].fc
    /\ await[b] \in {"clear_limit", "clear_fast", "mode", "limit", "fast_on"}
    /\ await[b] \in {"clear_limit", "clear_fast"} => req[b].emergency
    /\ await[b] \in {"limit", "fast_on"} => inv[b].mode = "charge_battery"

\* The manager carries it out in its next pass.
RecoveryComes ==
    pc = "process" =>
        \A b \in Battery : BelowFloor(b) =>
            /\ b \in todo => req[b] = Recovery
            /\ b \notin todo /\ await[b] = "none" => inv[b].mode = "charge_battery" /\ inv[b].fc
            /\ await[b] # "none" => Recovering(b)

RecoveryInv == Typed /\ RecoveryAsked /\ RecoveryComes /\ RecoveredAtOnce

\* The invariant holds at the start.
LEMMA RecoveryInit == Init => RecoveryInv
  BY TypedInit DEF Init, RecoveryInv, RecoveryAsked, RecoveryComes, RecoveredAtOnce, CycleDone

\* A call of a recovery is followed by the next one, the last by nothing.
LEMMA RecoversOn ==
    ASSUME Reliable, Typed, NEW b \in Battery, MP!GoOn(b), Recovering(b)
    PROVE  /\ await'[b] # "none" => Recovering(b)'
           /\ await'[b] = "none" => inv'[b].mode = "charge_battery" /\ inv'[b].fc
<1>1. Landed(b)
  BY CallLands
<1> QED BY <1>1 DEF Landed, Recovering

\* Every step keeps it, when every write lands and the support controller leaves
\* alone what the budget recovers.
LEMMA RecoveryStep ==
    ASSUME Reliable, SocMin <= NormalFloor, RecoveryInv, [Next]_vars
    PROVE  RecoveryInv'
<1> USE DEF RecoveryAsked, RecoveryComes, RecoveredAtOnce, CycleDone, requests, snapshot
<1>0. Typed /\ TypeOK /\ Between /\ RecoveryAsked /\ RecoveryComes /\ RecoveredAtOnce
  BY DEF RecoveryInv, Typed
<1>t. Typed'
  BY <1>0, TypedStep
<1> DEFINE Goal == RecoveryAsked' /\ RecoveryComes' /\ RecoveredAtOnce'
<1> SUFFICES Goal
  BY <1>t DEF RecoveryInv
<1>1. CASE StartCycle \/ GuardWrite \/ NightPlan \/ Sleep \/ Restart
  BY <1>1 DEF StartCycle, GuardWrite, NightPlan, Sleep, Restart
<1>2. CASE Freeze
  BY <1>2 DEF Freeze, Frozen
<1>3. CASE Decide
  <2>1. /\ pc' = "execute" /\ UNCHANGED read
        /\ req' = [b \in Battery |-> IF BelowFloor(b) THEN Recovery ELSE req[b]]
    BY <1>3 DEF Decide, Recovery
  <2>2. \A b : BelowFloor(b)' = BelowFloor(b)
    BY <2>1 DEF BelowFloor
  <2>3. \A c \in Elements(cmds') : c.type = "mode" => ~BelowFloor(c.target)
    BY <1>0, <1>3, ExecutorQueue DEF Decide
  <2>4. RecoveryAsked'
    BY <2>1, <2>2, <2>3
  <2> QED BY <2>1, <2>4
<1>4. ASSUME pc = "execute", pc' = "execute", cmds # <<>>, UNCHANGED read,
             \A c \in Elements(cmds') :
                c \in Elements(Tail(cmds)) \/ (c.type = "mode" => ~BelowFloor(c.target)),
             \A b \in Battery : BelowFloor(b) => req'[b] = req[b]
      PROVE  Goal
  <2>1. Elements(cmds) = {Head(cmds)} \cup Elements(Tail(cmds))
    BY <1>0, <1>4, HeadTail DEF TypeOK
  <2>2. \A b : BelowFloor(b)' = BelowFloor(b)
    BY <1>4 DEF BelowFloor
  <2>3. RecoveryAsked'
    BY <1>0, <1>4, <2>1, <2>2
  <2> QED BY <1>4, <2>3
<1>5. CASE ExecuteDropped \/ ExecuteWrite
  BY <1>4, <1>5 DEF ExecuteDropped, ExecuteWrite
<1>c. CASE ExecuteCheck
  <2>1. /\ pc = "execute" /\ pc' = "execute" /\ cmds # <<>> /\ UNCHANGED <<req, read>>
        /\ Head(cmds).type = "mode"
    BY <1>c DEF ExecuteCheck
  <2>2. ~BelowFloor(Head(cmds).target)
    BY <1>0, <2>1, HeadTail DEF TypeOK
  <2>3. \A c \in Elements(cmds') :
            c \in Elements(Tail(cmds)) \/ (c.type = "mode" => ~BelowFloor(c.target))
    <3>1. \A c \in Elements(cmds') :
             \/ c \in Elements(Tail(cmds))
             \/ c.target = Head(cmds).target /\ c.type = "mode"
             \/ c.type = "fast" /\ ~c.on
      BY <1>0, <1>c, ExecuteCheckStep
    <3> QED BY <2>2, <3>1
  <2> QED BY <1>4, <2>1, <2>3
<1>6. CASE ExecuteMode
  <2>1. /\ pc = "execute" /\ pc' = "execute" /\ cmds # <<>> /\ cmds' = Tail(cmds)
        /\ UNCHANGED read /\ Head(cmds).type = "mode"
    BY <1>6 DEF ExecuteMode
  <2>2. ~BelowFloor(Head(cmds).target)
    BY <1>0, <2>1, HeadTail DEF TypeOK
  <2>3. \A b \in Battery \ {Head(cmds).target} : req'[b] = req[b]
    BY <1>0, <1>6, ExecuteModeStep
  <2>4. \A b \in Battery : BelowFloor(b) => req'[b] = req[b]
    BY <2>2, <2>3
  <2> QED BY <1>4, <2>1, <2>4
<1>7. CASE ExecuteDone
  <2>1. /\ pc = "execute" /\ pc' = "process" /\ todo' = {b \in Battery : req[b].state # "absent"}
        /\ UNCHANGED <<req, await, read>>
    BY <1>7 DEF ExecuteDone
  <2>2. Recovery.state = "idle" /\ \A b \in Battery : await[b] = "none"
    BY <1>0, <2>1 DEF Recovery, Manager!NewRequest, Between
  <2>3. \A b : BelowFloor(b)' = BelowFloor(b)
    BY <2>1 DEF BelowFloor
  <2>4. RecoveryComes'
    BY <1>0, <2>1, <2>2, <2>3
  <2> QED BY <2>1, <2>4
<1>8. ASSUME NEW b \in Battery, ProcessOne(b) PROVE Goal
  <2>1. /\ pc = "process" /\ pc' = "process" /\ b \in todo /\ todo' = todo \ {b}
        /\ UNCHANGED read
    BY <1>8 DEF ProcessOne
  <2>2. /\ \A c \in Battery \ {b} : req'[c] = req[c] /\ await'[c] = await[c]
        /\ inv' = inv /\ await[b] = "none"
        /\ MP!Begin(b) \/ (~Manager!Due(b) /\ UNCHANGED requests)
    BY <1>0, <1>8, ProcessOneStep
  <2>3. \A c : BelowFloor(c)' = BelowFloor(c)
    BY <2>1 DEF BelowFloor
  <2>4. ASSUME BelowFloor(b) PROVE await'[b] = "clear_limit" /\ Recovering(b)'
    <3>1. req[b] = Recovery
      BY <1>0, <2>1, <2>4
    <3>2. /\ req[b].state = "idle" /\ req[b].target = "charge_battery"
          /\ req[b].fc /\ req[b].emergency
      BY <3>1 DEF Recovery, Manager!NewRequest
    <3>3. MP!Prepare(b)
      BY <2>2, <3>2 DEF Manager!Due, MP!Begin, MP!EnterStandby, MP!SetTarget, MP!StartVerify,
                        MP!Verify, MP!Prune, MP!Terminal
    <3>4. await'[b] = "clear_limit"
      BY <1>0, <3>3 DEF MP!Prepare, MP!Begins, MP!Awaits, TypeOK
    <3>5. req'[b] = [req[b] EXCEPT !.age = 0]
      BY <1>0, <3>3 DEF MP!Prepare, TypeOK
    <3>6. req[b] \in Manager!Request
      BY <1>0 DEF TypeOK
    <3>7. req'[b].target = req[b].target /\ req'[b].fc = req[b].fc
          /\ req'[b].emergency = req[b].emergency
      BY <3>5, <3>6 DEF Manager!Request
    <3> QED BY <3>2, <3>4, <3>7 DEF Recovering
  <2>5. ASSUME NEW c \in Battery, c # b PROVE Recovering(c)' = Recovering(c)
    BY <2>2, <2>5 DEF Recovering
  <2>6. RecoveryComes'
    BY <1>0, <2>1, <2>2, <2>3, <2>4, <2>5
  <2> QED BY <2>1, <2>6
<1>p. ASSUME NEW b \in Battery, ProcessCall(b) PROVE Goal
  <2>1. pc = "process" /\ pc' = "process" /\ todo' = todo /\ UNCHANGED read
    BY <1>p DEF ProcessCall
  <2>2. /\ MP!GoOn(b) /\ await[b] # "none" /\ b \notin todo
        /\ \A c \in Battery \ {b} : req'[c] = req[c] /\ await'[c] = await[c] /\ inv'[c] = inv[c]
    BY <1>0, <1>p, ProcessCallStep
  <2>3. \A c : BelowFloor(c)' = BelowFloor(c)
    BY <2>1 DEF BelowFloor
  <2>4. ASSUME BelowFloor(b)
        PROVE  /\ await'[b] # "none" => Recovering(b)'
               /\ await'[b] = "none" => inv'[b].mode = "charge_battery" /\ inv'[b].fc
    <3>1. Recovering(b)
      BY <1>0, <2>1, <2>2, <2>4
    <3> QED BY <1>0, <2>2, <3>1, RecoversOn
  <2>5. ASSUME NEW c \in Battery, c # b PROVE Recovering(c)' = Recovering(c)
    BY <2>2, <2>5 DEF Recovering
  <2>6. RecoveryComes'
    BY <1>0, <2>1, <2>2, <2>3, <2>4, <2>5
  <2> QED BY <2>1, <2>6
<1>9. CASE ProcessDone
  <2>1. /\ pc = "process" /\ pc' = "plan" /\ todo = {} /\ UNCHANGED <<inv, read>>
        /\ \A b \in Battery : await[b] = "none"
    BY <1>9 DEF ProcessDone, Manager!Free
  <2>2. \A c : BelowFloor(c)' = BelowFloor(c)
    BY <2>1 DEF BelowFloor
  <2> QED BY <1>0, <2>1, <2>2
<1>10. ASSUME NEW b \in Battery, Drift(b) PROVE Goal
  <2>1. /\ UNCHANGED <<req, await, pc, cmds, todo, read, site>>
        /\ inv' = [inv EXCEPT ![b].fc = TRUE]
    BY <1>10 DEF Drift
  <2>2. /\ \A c \in Battery \ {b} : inv'[c] = inv[c]
        /\ inv'[b].mode = inv[b].mode /\ inv'[b].fc
    BY <1>0, <2>1 DEF TypeOK, Register, Manager!Register
  <2>3. \A c : BelowFloor(c)' = BelowFloor(c)
    BY <2>1 DEF BelowFloor
  <2>4. RecoveryAsked'
    BY <1>0, <2>1, <2>3
  <2>r. \A c \in Battery : Recovering(c)' = Recovering(c)
    BY <2>1, <2>2 DEF Recovering
  <2>5. RecoveryComes'
    BY <1>0, <2>1, <2>2, <2>3, <2>r
  <2>6. RecoveredAtOnce'
    BY <1>0, <2>1, <2>2, <2>3 DEF Frozen
  <2> QED BY <2>4, <2>5, <2>6
<1>11. CASE UNCHANGED vars
  <2>1. \A c : BelowFloor(c)' = BelowFloor(c) /\ Recovering(c)' = Recovering(c)
    BY <1>11 DEF vars, BelowFloor, Recovering
  <2> QED BY <1>0, <1>11, <2>1 DEF vars, Frozen
<1> QED BY <1>1, <1>2, <1>3, <1>5, <1>c, <1>6, <1>7, <1>8, <1>p, <1>9, <1>10, <1>11 DEF Next, Loop

\* For any batteries and readings: when every write lands and the floor of the budget
\* is not above the one of the battery support, a battery seen below it is being
\* force-charged when the cycle is over, whatever the guards made of it and whatever
\* protocol was under way.
THEOREM RecoveredHolds ==
    ASSUME Reliable, SocMin <= NormalFloor
    PROVE  Spec => []RecoveredAtOnce
<1>1. RecoveryInv /\ [Next]_vars => RecoveryInv'
  BY RecoveryStep
<1>2. RecoveryInv => RecoveredAtOnce
  BY DEF RecoveryInv
<1> QED BY <1>1, <1>2, RecoveryInit, PTL DEF Spec
=============================================================================
