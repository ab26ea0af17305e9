--------------------------- MODULE ServicesProofs ---------------------------
(***************************************************************************)
(* The parts MCServices.tla runs side by side, each for every choice of    *)
(* its constants: the scenarios keep their order, the hub marks only what  *)
(* it has read, override and Slack go with the scenario in force, the      *)
(* breaker counts no further than it must; and the four together.          *)
(***************************************************************************)
EXTENDS MCServices, FiniteSetTheorems, TLAPS

------------------------------------------------------------------------------
(* StateMachine, for thresholds in their order: it never enters a scenario *)
(* whose exit condition already holds.                                     *)

(* _SCENARIO_PRIORITY names every scenario. *)
LEMMA PriorityComplete ==
    \A s \in Scenario : \E i \in 1..9 : Priority[i] = s
<1> TAKE s \in Scenario
<1>1. /\ Priority[1] = "NIGHT_EV" /\ Priority[2] = "MORNING_DISCHARGE"
      /\ Priority[3] = "FORENOON_PV_EV" /\ Priority[4] = "PV_SURPLUS_DAY"
      /\ Priority[5] = "EVENING_DISCHARGE" /\ Priority[6] = "NIGHT_HIGH_PV"
      /\ Priority[7] = "NIGHT_LOW_PV" /\ Priority[8] = "NIGHT_GRID_CHARGE"
      /\ Priority[9] = "PV_SURPLUS"
  BY DEF Priority
<1>2. {1, 2, 3, 4, 5, 6, 7, 8, 9} \subseteq 1..9
  OBVIOUS
<1> QED
  BY <1>1, <1>2 DEF Scenario, Night

(* A nonempty set of positions has a first one. *)
LEMMA FirstPosition ==
    ASSUME NEW I \in SUBSET (1..9), I # {}
    PROVE  \E i \in I : \A j \in I : ~(j < i)
<1> SUFFICES ASSUME \A i \in I : \E j \in I : j < i
             PROVE  FALSE
  OBVIOUS
<1>1. 1 \notin I  OBVIOUS
<1>2. 2 \notin I  BY <1>1
<1>3. 3 \notin I  BY <1>1, <1>2
<1>4. 4 \notin I  BY <1>1, <1>2, <1>3
<1>5. 5 \notin I  BY <1>1, <1>2, <1>3, <1>4
<1>6. 6 \notin I  BY <1>1, <1>2, <1>3, <1>4, <1>5
<1>7. 7 \notin I  BY <1>1, <1>2, <1>3, <1>4, <1>5, <1>6
<1>8. 8 \notin I  BY <1>1, <1>2, <1>3, <1>4, <1>5, <1>6, <1>7
<1>9. 9 \notin I  BY <1>1, <1>2, <1>3, <1>4, <1>5, <1>6, <1>7, <1>8
<1>10. PICK i \in I : TRUE
  OBVIOUS
<1>11. i \in Nat /\ 1 <= i /\ i <= 9
  OBVIOUS
<1> QED
  BY <1>1, <1>2, <1>3, <1>4, <1>5, <1>6, <1>7, <1>8, <1>9, <1>10, <1>11

(* FirstOf chooses among the scenarios it is given. *)
LEMMA FirstOfMember ==
    ASSUME NEW T \in SUBSET Scenario, T # {}
    PROVE  FirstOf(T) \in T
<1> DEFINE I == {i \in 1..9 : Priority[i] \in T}
<1>1. PICK s \in T : TRUE
  OBVIOUS
<1>2. PICK k \in 1..9 : Priority[k] = s
  BY <1>1, PriorityComplete
<1>3. I \in SUBSET (1..9) /\ I # {}
  BY <1>1, <1>2
<1>4. PICK i \in I : \A j \in I : ~(j < i)
  BY <1>3, FirstPosition
<1>5. \E n \in 1..9 : Priority[n] \in T /\ \A j \in 1..9 : j < n => Priority[j] \notin T
  BY <1>4
<1> QED
  BY <1>5 DEF FirstOf

(* evaluate() stays, or moves to a scenario that may be entered. *)
LEMMA TargetEntered ==
    ASSUME NEW s \in Scenario, NEW x
    PROVE  Target(s, x) = s \/ (Target(s, x) \in Scenario /\ Entry(Target(s, x), x))
<1> DEFINE T == Enterable(s, x)
           A == T \cap Allowed[s]
<1>1. T \in SUBSET Scenario /\ A \in SUBSET Scenario
  BY DEF Enterable
<1>2. \A t \in T : t \in Scenario /\ Entry(t, x)
  BY DEF Enterable
<1>3. CASE A # {}
  <2>1. FirstOf(A) \in A
    BY <1>1, <1>3, FirstOfMember
  <2>2. Target(s, x) = FirstOf(A)
    BY <1>3 DEF Target
  <2> QED
    BY <1>2, <2>1, <2>2
<1>4. CASE A = {} /\ Exit(s, x) /\ T # {}
  <2>1. FirstOf(T) \in T
    BY <1>1, <1>4, FirstOfMember
  <2>2. Target(s, x) = FirstOf(T)
    BY <1>4 DEF Target
  <2> QED
    BY <1>2, <2>1, <2>2
<1>5. CASE A = {} /\ ~(Exit(s, x) /\ T # {})
  BY <1>5 DEF Target
<1> QED
  BY <1>3, <1>4, <1>5

(* A scenario that may be entered is not over, PV_SURPLUS_DAY excepted. *)
LEMMA EntryExcludesExit ==
    ASSUME NEW s \in Scenario \ {"PV_SURPLUS_DAY"}, NEW x \in Snapshot, Entry(s, x)
    PROVE  ~Exit(s, x)
<1>1. x.hour \in Nat /\ x.soc \in Nat /\ x.pv \in Nat
  BY DEF Snapshot
<1>2. /\ MorningStart \in Nat /\ MorningEnd \in Nat /\ ForenoonEnd \in Nat
      /\ MiddayEnd \in Nat /\ EveningEnd \in Nat /\ Floor \in Nat /\ MorningMin \in Nat
      /\ EveningMargin \in Nat /\ SurplusEntry \in Nat /\ SurplusExit \in Nat
      /\ SurplusPv \in Nat /\ SurplusExitPv \in Nat /\ GridChargeMax \in Nat
      /\ MorningStart < MorningEnd /\ MorningEnd < ForenoonEnd
      /\ ForenoonEnd < MiddayEnd /\ MiddayEnd < EveningEnd
      /\ Floor <= MorningMin /\ SurplusExit <= SurplusEntry /\ SurplusExitPv <= SurplusPv
  BY ThresholdAssumption
<1>3. CASE s = "MORNING_DISCHARGE"
  BY <1>1, <1>2, <1>3 DEF Entry, Exit, Between
<1>4. CASE s = "FORENOON_PV_EV"
  BY <1>1, <1>2, <1>4 DEF Entry, Exit, Between
<1>5. CASE s = "EVENING_DISCHARGE"
  BY <1>5 DEF Entry, Exit
<1>6. CASE s = "NIGHT_HIGH_PV"
  BY <1>1, <1>2, <1>6 DEF Entry, Exit, IsNight, IsDay, Between
<1>10. CASE s = "NIGHT_LOW_PV"
  BY <1>1, <1>2, <1>10 DEF Entry, Exit, IsNight, IsDay, Between
<1>7. CASE s = "NIGHT_GRID_CHARGE"
  BY <1>1, <1>2, <1>7 DEF Entry, Exit, IsNight, IsDay, Between
<1>8. CASE s = "PV_SURPLUS"
  BY <1>1, <1>2, <1>8 DEF Entry, Exit
<1>9. CASE s = "NIGHT_EV"
  BY <1>1, <1>2, <1>9 DEF Entry, Exit, IsNight, IsDay, Between
<1> QED
  BY <1>3, <1>4, <1>5, <1>6, <1>7, <1>8, <1>9, <1>10 DEF Scenario, Night

------------------------------------------------------------------------------

(* The types hold at the start. *)
LEMMA TypeInit == Init => TypeOK
<1>1. 1 \in 1..MinDwell
  BY ScenarioAssumption
<1> QED
  BY <1>1, ScenarioAssumption DEF Init, TypeOK

(* transition_to keeps the types, when it is given a scenario. *)
LEMMA EnterType ==
    ASSUME TypeOK, NEW s \in Scenario, Enter(s)
    PROVE  current' \in Scenario /\ dwell' \in 1..MinDwell
BY ScenarioAssumption DEF TypeOK, Enter, Longer

(* Every cycle keeps the types. *)
LEMMA TypeStep == TypeOK /\ [Next]_vars => TypeOK'
<1> SUFFICES ASSUME TypeOK, [Next]_vars PROVE TypeOK'
  OBVIOUS
<1> USE ScenarioAssumption
<1>1. CASE Override
  BY <1>1, EnterType DEF Override, TypeOK
<1>2. CASE TooSoon
  BY <1>2, EnterType DEF TooSoon, TypeOK
<1>3. CASE Evaluate
  <2>1. Target(current, snap') \in Scenario
    BY TargetEntered DEF TypeOK
  <2> QED
    BY <1>3, <2>1, EnterType DEF Evaluate, TypeOK
<1>4. CASE Skip
  BY <1>4 DEF Skip, Longer, TypeOK
<1>5. CASE Restart
  BY <1>5 DEF Restart, TypeOK
<1>6. CASE UNCHANGED vars
  BY <1>6 DEF vars, TypeOK
<1> QED
  BY <1>1, <1>2, <1>3, <1>4, <1>5, <1>6 DEF Next, Cycle

(* Every behaviour stays within the nine scenarios, whatever the sensors, the *)
(* overrides and the restarts bring.                                          *)
THEOREM ScenarioTypeCorrect == Spec => []TypeOK
BY TypeInit, TypeStep, PTL DEF Spec

(* evaluate() never enters a scenario that its own exit condition would end on *)
(* the same snapshot, PV_SURPLUS_DAY excepted: for every value of the          *)
(* thresholds that keeps their order.                                          *)
THEOREM NoBounceHolds == Spec => NoBounce
<1>1. TypeOK /\ [Next]_vars =>
        [(Evaluate /\ current' \notin {current, "PV_SURPLUS_DAY"}) =>
            ~Exit(current', snap')]_vars
  <2> SUFFICES ASSUME TypeOK, Evaluate, current' \notin {current, "PV_SURPLUS_DAY"}
               PROVE  ~Exit(current', snap')
    OBVIOUS
  <2>1. snap' \in Snapshot /\ current' = Target(current, snap') /\ current \in Scenario
    BY ScenarioAssumption DEF TypeOK, Evaluate, Enter
  <2>2. current' \in Scenario /\ Entry(current', snap')
    BY <2>1, TargetEntered
  <2> QED
    BY <2>1, <2>2, EntryExcludesExit
<1> QED
  BY <1>1, ScenarioTypeCorrect, PTL DEF Spec, NoBounce

------------------------------------------------------------------------------
(* HubLog, for any tables, batches and bounds.  The mark goes by an id:    *)
(* no unsynced row below that id was left out of the batch, or came after  *)
(* it.                                                                     *)

\* The rows of a table are numbered and dated within bounds.
LEMMA TableFinite ==
    ASSUME NEW t \in Table
    PROVE  IsFiniteSet({r \in Row : r.table = t /\ ~r.synced})
  <1> DEFINE P == (1..MaxRows) \X (1..LastDay)
             T == {r \in Row : r.table = t /\ ~r.synced}
             f == [p \in P |-> [table |-> t, id |-> p[1], day |-> p[2], synced |-> FALSE]]
  <1>1. IsFiniteSet(P)
    <2>1. IsFiniteSet(1..MaxRows) /\ IsFiniteSet(1..LastDay)
      BY FS_Interval, HubLogAssumption
    <2> QED BY <2>1, FS_Product
  <1>2. f \in Surjection(P, T)
    <2>1. f \in [P -> T]
      BY DEF Row
    <2>2. ASSUME NEW r \in T PROVE \E p \in P : f[p] = r
      <3>1. <<r.id, r.day>> \in P /\ r = [table |-> t, id |-> r.id, day |-> r.day, synced |-> FALSE]
        BY DEF Row
      <3>2. f[<<r.id, r.day>>] = r
        BY <3>1
      <3> QED BY <3>1, <3>2
    <2> QED BY <2>1, <2>2 DEF Surjection
  <1> QED BY <1>1, <1>2, FS_Surjection

\* A batch is closed downwards: who has a lower id than one of its rows is in it.
LEMMA BatchIsLowest ==
    ASSUME NEW t \in Table, log.rows \subseteq Row,
           NEW r \in Fetched(t), NEW q \in Unsynced(t), q.id <= r.id
    PROVE  q \in Fetched(t)
  <1> DEFINE Below(x) == {y \in Unsynced(t) : y.id < x.id}
  <1>1. IsFiniteSet(Unsynced(t))
    <2>1. Unsynced(t) \in SUBSET {x \in Row : x.table = t /\ ~x.synced}
      BY DEF Unsynced
    <2> QED BY <2>1, TableFinite, FS_Subset
  <1>2. Below(r) \in SUBSET Unsynced(t)
    OBVIOUS
  <1>3. IsFiniteSet(Below(r))
    BY <1>1, <1>2, FS_Subset
  <1>4. Below(q) \in SUBSET Below(r)
    <2>1. \A y \in Unsynced(t) : y.id \in Int
      BY DEF Unsynced, Row
    <2>2. r \in Unsynced(t)
      BY DEF Fetched
    <2> QED BY <2>1, <2>2
  <1>5. Cardinality(Below(q)) <= Cardinality(Below(r)) /\ IsFiniteSet(Below(q))
    BY <1>3, <1>4, FS_Subset
  <1>6. Cardinality(Below(q)) \in Nat /\ Cardinality(Below(r)) \in Nat
    BY <1>3, <1>5, FS_CardinalityType
  <1>7. Cardinality(Below(r)) < BatchSize
    BY DEF Fetched
  <1> QED BY <1>5, <1>6, <1>7, HubLogAssumption DEF Fetched

------------------------------------------------------------------------------
(* The invariant.                                                          *)

\* Of what the connection sees and of what is on disk alike: ids are below the highest ever
\* given, and a mark means that the row was read.
Honest(l) ==
    \A r \in l.rows :
        /\ r.id <= l.seq[r.table]
        /\ r.synced => ~hub.dry /\ [r EXCEPT !.synced = FALSE] \in taken

\* What the hub is about to mark is what it has read: a row that comes later has a higher id.
AboutToMark ==
    hub.table # NoTable =>
        /\ ~hub.dry /\ hub.last <= log.seq[hub.table]
        /\ \A r \in Unsynced(hub.table) : r.id <= hub.last => r \in taken

HubInv == HubTypeOK /\ Honest(log) /\ Honest(logDisk) /\ AboutToMark

\* With empty tables nothing is marked and the hub is about to mark nothing.
LEMMA HubInvInit == HubInit => HubInv
  BY HubLogAssumption DEF HubInit, HubInv, HubTypeOK, Honest, AboutToMark, NoThinning

HubState ==
    [dry : BOOLEAN, left : SUBSET Table, table : Table \cup {NoTable}, last : 0..MaxRows]

Log == [rows : SUBSET Row, seq : [Table -> 0..MaxRows]]

ThinningState == [on : BOOLEAN, left : SUBSET Table]

\* new may take the place of the log while the hub is between its two steps: it is honest, no
\* id is taken back, and what was not in the log before has a higher one.
Follows(new) ==
    /\ new \in Log /\ Honest(new)
    /\ \A t \in Table : log.seq[t] <= new.seq[t]
    /\ \A r \in new.rows : ~r.synced => r \in log.rows \/ r.id > log.seq[r.table]

\* A statement of the control task, whether it lands, is left to a later commit, or fails.
LEMMA WriterStep ==
    ASSUME HubInv, NEW new, Follows(new), log' \in {log, new}, logDisk' \in {logDisk, new},
           logFaults' \in 0..MaxLogFaults, thinning' \in ThinningState,
           UNCHANGED <<logDay, hub, taken>>
    PROVE  HubInv'
  <1> USE DEF HubInv, Follows
  <1>1. Follows(log)
    <2>1. \A t \in Table : log.seq[t] <= log.seq[t]
      BY DEF HubTypeOK
    <2> QED BY <2>1 DEF HubTypeOK, Log
  <1>2. log' \in {log, new} /\ logDisk' \in {logDisk, new}
    OBVIOUS
  <1>3. Follows(log')
    BY <1>1, <1>2
  <1>4. log' \in Log /\ logDisk' \in Log
    BY <1>2, <1>3 DEF HubTypeOK, Log
  <1>5. HubTypeOK'
    BY <1>2, <1>4 DEF HubTypeOK, Log, ThinningState
  <1>6. Honest(log)' /\ Honest(logDisk)'
    BY <1>2, <1>3 DEF Honest
  <1>7. AboutToMark'
    <2> SUFFICES ASSUME hub.table # NoTable PROVE AboutToMark'
      BY DEF AboutToMark
    <2>1. hub.table \in Table /\ hub.last \in Int /\ ~hub.dry /\ hub.last <= log.seq[hub.table]
      BY DEF HubTypeOK, AboutToMark
    <2>2. log.seq[hub.table] \in Int /\ log'.seq[hub.table] \in Int
      BY <1>4, <2>1 DEF HubTypeOK, Log
    <2>3. hub.last <= log'.seq[hub.table]
      BY <1>3, <2>1, <2>2
    <2>4. ASSUME NEW r \in Unsynced(hub.table)', r.id <= hub.last PROVE r \in taken
      <3>1. r \in log'.rows /\ r.table = hub.table /\ ~r.synced /\ r.id \in Int
        BY <1>4, <2>4 DEF Unsynced, Log, Row
      <3>2. r \in log.rows
        BY <1>3, <2>1, <2>2, <2>4, <3>1
      <3> QED BY <2>4, <3>1, <3>2 DEF Unsynced, AboutToMark
    <2> QED BY <2>1, <2>3, <2>4 DEF AboutToMark
  <1> QED BY <1>5, <1>6, <1>7

\* What a commit, or a failure, leaves.
LEMMA CommitLeaves ==
    ASSUME HubInv, NEW new, LogCommitted(new) \/ LogNotCommitted(new)
    PROVE  /\ log' \in {log, new} /\ logDisk' \in {logDisk, new}
           /\ logFaults' \in 0..MaxLogFaults
  BY HubLogAssumption DEF LogCommitted, LogNotCommitted, HubInv, HubTypeOK

\* A new row is the one with the highest id of its table.
LEMMA NewRowFollows ==
    ASSUME HubInv, NEW t \in Table, log.seq[t] < MaxRows
    PROVE  Follows(WithRow(t))
  <1> DEFINE row == [table |-> t, id |-> log.seq[t] + 1, day |-> logDay, synced |-> FALSE]
             seq == [log.seq EXCEPT ![t] = @ + 1]
  <1>1. log.seq \in [Table -> 0..MaxRows] /\ log.rows \subseteq Row /\ logDay \in 1..LastDay
    BY DEF HubInv, HubTypeOK
  <1>2. log.seq[t] + 1 \in 1..MaxRows
    BY <1>1, HubLogAssumption
  <1>3. row \in Row /\ seq \in [Table -> 0..MaxRows]
    BY <1>1, <1>2 DEF Row
  <1>4. WithRow(t).rows = log.rows \cup {row} /\ WithRow(t).seq = seq
    BY DEF WithRow
  <1>5. WithRow(t) \in Log
    BY <1>1, <1>3 DEF WithRow, Log
  <1>6. \A u \in Table : log.seq[u] <= seq[u]
    BY <1>1
  <1>7. Honest(WithRow(t))
    <2> SUFFICES ASSUME NEW r \in log.rows \cup {row}
                 PROVE  /\ r.id <= seq[r.table]
                        /\ r.synced => ~hub.dry /\ [r EXCEPT !.synced = FALSE] \in taken
      BY <1>4 DEF Honest
    <2>1. CASE r = row
      BY <1>1, <1>2, <2>1
    <2>2. CASE r \in log.rows
      <3>1. r.table \in Table /\ r.id \in Int /\ log.seq[r.table] \in Int /\ seq[r.table] \in Int
        BY <1>1, <1>3, <2>2 DEF Row
      <3>2. r.id <= log.seq[r.table] /\ log.seq[r.table] <= seq[r.table]
        BY <1>6, <2>2, <3>1 DEF HubInv, Honest
      <3>3. r.synced => ~hub.dry /\ [r EXCEPT !.synced = FALSE] \in taken
        BY <2>2 DEF HubInv, Honest
      <3> QED BY <3>1, <3>2, <3>3
    <2> QED BY <2>1, <2>2
  <1>8. \A r \in WithRow(t).rows : ~r.synced => r \in log.rows \/ r.id > log.seq[r.table]
    BY <1>1, <1>4
  <1> QED BY <1>4, <1>5, <1>6, <1>7, <1>8 DEF Follows

\* Retention only takes rows away.
LEMMA CleanupFollows ==
    ASSUME HubInv, NEW t \in Table
    PROVE  Follows(WithoutOld(t))
  <1>1. log \in Log
    BY DEF HubInv, HubTypeOK, Log
  <1>2. /\ WithoutOld(t).rows \subseteq log.rows /\ WithoutOld(t).seq = log.seq
        /\ WithoutOld(t) \in Log
    BY <1>1 DEF WithoutOld, Log
  <1>3. \A u \in Table : log.seq[u] <= log.seq[u]
    BY <1>1 DEF Log
  <1>4. Honest(WithoutOld(t))
    BY <1>2 DEF HubInv, Honest
  <1> QED BY <1>2, <1>3, <1>4 DEF Follows

\* As does the log itself.
LEMMA SameFollows == HubInv => Follows(log)
  <1>1. HubInv => \A u \in Table : log.seq[u] <= log.seq[u]
    BY DEF HubInv, HubTypeOK
  <1> QED BY <1>1 DEF HubInv, HubTypeOK, Follows, Log

\* A statement of the retention, one that fails, and its commit.
LEMMA ThinningStep ==
    ASSUME HubInv, CleanupRetention \/ CommitCleanup
    PROVE  HubInv'
  <1>1. CASE CleanupRetention
    <2> DEFINE left == IF thinning.on THEN thinning.left ELSE Table
    <2>1. PICK t \in FirstIn(left) :
            \/ /\ log' = WithoutOld(t) /\ UNCHANGED logFaults
               /\ thinning' = [on |-> TRUE, left |-> left \ {t}]
            \/ /\ logFaults < MaxLogFaults /\ logFaults' = logFaults + 1 /\ UNCHANGED log
               /\ thinning' = NoThinning
      BY <1>1 DEF CleanupRetention
    <2>2. left \subseteq Table /\ t \in Table /\ logFaults \in 0..MaxLogFaults
      BY DEF HubInv, HubTypeOK, FirstIn
    <2> HIDE DEF left
    <2>3. thinning' \in ThinningState /\ logFaults' \in 0..MaxLogFaults
      <3>1. [on |-> TRUE, left |-> left \ {t}] \in ThinningState /\ NoThinning \in ThinningState
        BY <2>2 DEF ThinningState, NoThinning
      <3>2. logFaults < MaxLogFaults => logFaults + 1 \in 0..MaxLogFaults
        BY <2>2, HubLogAssumption
      <3> QED BY <2>1, <2>2, <3>1, <3>2
    <2>4. log' \in {log, WithoutOld(t)} /\ logDisk' = logDisk /\ UNCHANGED <<logDay, hub, taken>>
      BY <1>1, <2>1 DEF CleanupRetention
    <2> QED BY <2>2, <2>3, <2>4, CleanupFollows, WriterStep
  <1>2. CASE CommitCleanup
    <2>1. /\ thinning' \in ThinningState /\ UNCHANGED <<logDay, hub, taken>>
          /\ LogCommitted(log) \/ LogNotCommitted(log)
      BY <1>2 DEF CommitCleanup, NoThinning, ThinningState
    <2>2. log' \in {log, log} /\ logDisk' \in {logDisk, log} /\ logFaults' \in 0..MaxLogFaults
      BY <2>1, CommitLeaves
    <2> QED BY <2>1, <2>2, SameFollows, WriterStep
  <1> QED BY <1>1, <1>2

------------------------------------------------------------------------------
(* The hub task.                                                           *)

\* What a step of the hub task may make of its own state.
LEMMA HubStates ==
    ASSUME hub \in HubState, NEW L \in SUBSET Table, NEW t \in Table \cup {NoTable},
           NEW n \in 0..MaxRows, hub' = [hub EXCEPT !.left = L, !.table = t, !.last = n]
    PROVE  hub' \in HubState /\ hub'.dry = hub.dry /\ hub'.table = t /\ hub'.last = n
  BY DEF HubState

\* The mark takes the unsynced rows below last, each of which was read.
LEMMA MarkHonest ==
    ASSUME HubInv, hub.table # NoTable
    PROVE  WithMark(hub.table, hub.last) \in Log /\ Honest(WithMark(hub.table, hub.last))
  <1> DEFINE marked == {r \in Unsynced(hub.table) : r.id <= hub.last}
             new == (log.rows \ marked) \cup {[r EXCEPT !.synced = TRUE] : r \in marked}
  <1>1. log \in Log /\ marked \subseteq log.rows
    BY DEF HubInv, HubTypeOK, Log, Unsynced
  <1>2. WithMark(hub.table, hub.last).rows = new /\ WithMark(hub.table, hub.last).seq = log.seq
    BY <1>1 DEF WithMark, Log
  <1>3. ASSUME NEW r \in marked PROVE [r EXCEPT !.synced = TRUE] \in Row
    <2>1. r \in Row
      BY <1>1 DEF Log
    <2> QED BY <2>1 DEF Row
  <1>4. WithMark(hub.table, hub.last) \in Log
    BY <1>1, <1>3 DEF WithMark, Log
  <1>5. ASSUME NEW r \in new
        PROVE  /\ r.id <= log.seq[r.table]
               /\ r.synced => ~hub.dry /\ [r EXCEPT !.synced = FALSE] \in taken
    <2>1. CASE r \in log.rows
      BY <2>1 DEF HubInv, Honest
    <2>2. CASE r \notin log.rows
      <3>1. PICK q \in marked : r = [q EXCEPT !.synced = TRUE]
        BY <2>2
      <3>2. q \in Row /\ q.synced = FALSE /\ q \in log.rows
        BY <1>1, <3>1 DEF Log, Row, Unsynced
      <3>3. r.id = q.id /\ r.table = q.table /\ [r EXCEPT !.synced = FALSE] = q
        BY <3>1, <3>2 DEF Row
      <3>4. q \in taken /\ ~hub.dry
        BY <3>1 DEF HubInv, AboutToMark
      <3> QED BY <3>2, <3>3, <3>4 DEF HubInv, Honest
    <2> QED BY <2>1, <2>2
  <1> QED BY <1>2, <1>4, <1>5 DEF Honest

\* Marking the rows up to the last one read marks rows that were read, in memory and,
\* if the commit succeeds, on disk.
LEMMA MarkStep ==
    ASSUME HubInv, MarkTable
    PROVE  HubInv'
  <1> DEFINE new == WithMark(hub.table, hub.last)
  <1>1. new \in Log /\ Honest(new)
    BY MarkHonest DEF MarkTable
  <1>2. log' \in {log, new} /\ logDisk' \in {logDisk, new} /\ logFaults' \in 0..MaxLogFaults
    BY HubLogAssumption DEF MarkTable, LogCommitted, LogNotCommitted, HubInv, HubTypeOK
  <1>3. /\ hub' \in HubState
        /\ hub'.dry = hub.dry /\ hub'.table = NoTable
    <2>1. hub \in HubState /\ 0 \in 0..MaxRows
      BY HubLogAssumption DEF HubInv, HubTypeOK, HubState
    <2>2. hub.left \ {hub.table} \in SUBSET Table /\ {} \in SUBSET Table /\ NoTable \in Table \cup {NoTable}
      BY <2>1 DEF HubState
    <2>3. PICK L \in SUBSET Table : hub' = [hub EXCEPT !.left = L, !.table = NoTable, !.last = 0]
      BY <2>2 DEF MarkTable
    <2> QED BY <2>1, <2>2, <2>3, HubStates
  <1>4. UNCHANGED <<logDay, thinning, taken>>
    BY DEF MarkTable
  <1>5. HubTypeOK'
    BY <1>1, <1>2, <1>3, <1>4 DEF HubInv, HubTypeOK, HubState, Log
  <1>6. Honest(log)' /\ Honest(logDisk)'
    BY <1>1, <1>2, <1>3, <1>4 DEF HubInv, Honest
  <1> QED BY <1>3, <1>5, <1>6 DEF HubInv, AboutToMark

\* The batch is all there is up to its highest id.
LEMMA ReadStep ==
    ASSUME HubInv, ReadTable
    PROVE  HubInv'
  <1>1. PICK t \in FirstIn(hub.left) :
          IF Fetched(t) = {} \/ hub.dry
          THEN hub' = [hub EXCEPT !.left = @ \ {t}] /\ UNCHANGED taken
          ELSE /\ \E r \in Fetched(t) :
                    /\ \A q \in Fetched(t) : q.id <= r.id
                    /\ hub' = [hub EXCEPT !.table = t, !.last = r.id]
               /\ taken' = taken \cup Fetched(t)
    BY DEF ReadTable
  <1>2. t \in Table /\ log \in Log /\ UNCHANGED <<log, logDisk, logDay, thinning, logFaults>>
    BY DEF ReadTable, HubInv, HubTypeOK, Log, FirstIn
  <1>3. Fetched(t) \subseteq Row /\ Fetched(t) \subseteq log.rows
    BY <1>2 DEF Fetched, Unsynced, Log
  <1>4. CASE Fetched(t) = {} \/ hub.dry
    <2>1. hub' = [hub EXCEPT !.left = @ \ {t}] /\ taken' = taken
      BY <1>1, <1>4
    <2>2. HubTypeOK'
      BY <1>2, <2>1 DEF HubInv, HubTypeOK
    <2>3. hub'.dry = hub.dry /\ hub'.table = NoTable
      BY <2>1 DEF HubInv, HubTypeOK, ReadTable
    <2> QED BY <1>2, <2>1, <2>2, <2>3 DEF HubInv, Honest, AboutToMark
  <1>5. CASE ~(Fetched(t) = {} \/ hub.dry)
    <2>1. PICK r \in Fetched(t) :
            /\ \A q \in Fetched(t) : q.id <= r.id
            /\ hub' = [hub EXCEPT !.table = t, !.last = r.id]
      BY <1>1, <1>5
    <2>2. taken' = taken \cup Fetched(t)
      BY <1>1, <1>5
    <2>3. r \in Row /\ r \in log.rows /\ r.table = t
      BY <1>2, <1>3, <2>1 DEF Fetched, Unsynced
    <2>4. /\ hub' \in HubState
          /\ hub'.dry = hub.dry /\ hub'.table = t /\ hub'.last = r.id
      <3>1. hub \in HubState /\ r.id \in 0..MaxRows
        BY <2>3, HubLogAssumption DEF HubInv, HubTypeOK, HubState, Row
      <3>2. hub' = [hub EXCEPT !.left = hub.left, !.table = t, !.last = r.id]
        BY <2>1, <3>1 DEF HubState
      <3>3. hub.left \in SUBSET Table
        BY <3>1 DEF HubState
      <3> QED BY <1>2, <3>1, <3>2, <3>3, HubStates
    <2>5. HubTypeOK'
      BY <1>2, <1>3, <2>2, <2>4 DEF HubInv, HubTypeOK, HubState
    <2>6. Honest(log)' /\ Honest(logDisk)'
      BY <1>2, <2>2, <2>4 DEF HubInv, Honest
    <2>7. r.id <= log.seq[t]
      BY <2>3 DEF HubInv, Honest
    <2>8. \A q \in Unsynced(t) : q.id <= r.id => q \in Fetched(t)
      BY <1>2, <2>1, BatchIsLowest DEF Log
    <2>9. AboutToMark'
      BY <1>2, <1>5, <2>2, <2>4, <2>7, <2>8 DEF AboutToMark, Unsynced
    <2> QED BY <2>5, <2>6, <2>9 DEF HubInv
  <1> QED BY <1>4, <1>5

\* A crash takes what is not on disk, and what was read of it, away.
LEMMA RestartStep ==
    ASSUME HubInv, HubRestart
    PROVE  HubInv'
  <1>1. /\ logDisk \in Log /\ log' = logDisk /\ logDisk' = logDisk /\ logDay' = logDay
        /\ thinning' \in [on : BOOLEAN, left : SUBSET Table]
    BY DEF HubRestart, HubInv, HubTypeOK, Log, NoThinning
  <1>2. logFaults' \in 0..MaxLogFaults /\ taken' \subseteq taken
    BY HubLogAssumption DEF HubRestart, HubInv, HubTypeOK
  <1>3. /\ hub' \in HubState
        /\ hub'.dry = hub.dry /\ hub'.table = NoTable
    <2>1. hub \in HubState /\ 0 \in 0..MaxRows /\ {} \in SUBSET Table /\ NoTable \in Table \cup {NoTable}
      BY HubLogAssumption DEF HubInv, HubTypeOK, HubState
    <2>2. hub' = [hub EXCEPT !.left = {}, !.table = NoTable, !.last = 0]
      BY DEF HubRestart
    <2> QED BY <2>1, <2>2, HubStates
  <1>4. HubTypeOK'
    BY <1>1, <1>2, <1>3 DEF HubInv, HubTypeOK, HubState, Log
  <1>5. ASSUME NEW r \in logDisk.rows
        PROVE  /\ r.id <= logDisk.seq[r.table]
               /\ r.synced => ~hub.dry /\ [r EXCEPT !.synced = FALSE] \in taken'
    <2>1. r \in Row /\ r.id <= logDisk.seq[r.table]
      BY <1>1 DEF HubInv, Honest, Log
    <2>2. [r EXCEPT !.synced = FALSE].id = r.id /\ [r EXCEPT !.synced = FALSE].table = r.table
      BY <2>1 DEF Row
    <2> QED BY <2>1, <2>2 DEF HubInv, Honest, HubRestart
  <1>6. Honest(log)' /\ Honest(logDisk)'
    BY <1>1, <1>3, <1>5 DEF Honest
  <1> QED BY <1>3, <1>4, <1>6 DEF HubInv, AboutToMark

\* One step per action of the log and of the hub.
LEMMA HubInvStep == HubInv /\ [HubNext]_hubVars => HubInv'
  <1> SUFFICES ASSUME HubInv, [HubNext]_hubVars PROVE HubInv'
    OBVIOUS
  <1>1. CASE Sync
    BY <1>1 DEF Sync, HubInv, HubTypeOK, Honest, AboutToMark, Unsynced
  <1>2. CASE ReadTable
    BY <1>2, ReadStep
  <1>3. CASE MarkTable
    BY <1>3, MarkStep
  <1>4. CASE Persist
    <2>1. PICK t \in Table : /\ log.seq[t] < MaxRows
                             /\ LogCommitted(WithRow(t)) \/ LogNotCommitted(WithRow(t))
      BY <1>4 DEF Persist
    <2>2. thinning' \in ThinningState /\ UNCHANGED <<logDay, hub, taken>>
      BY <1>4 DEF Persist, HubInv, HubTypeOK, ThinningState
    <2>3. /\ log' \in {log, WithRow(t)} /\ logDisk' \in {logDisk, WithRow(t)}
          /\ logFaults' \in 0..MaxLogFaults
      BY <2>1, CommitLeaves
    <2>4. Follows(WithRow(t))
      BY <2>1, NewRowFollows
    <2> QED BY <2>2, <2>3, <2>4, WriterStep
  <1>5. CASE CleanupRetention \/ CommitCleanup
    BY <1>5, ThinningStep
  <1>6. CASE NewLogDay
    <2>1. logDay' \in 1..LastDay
      BY <1>6, HubLogAssumption DEF NewLogDay, HubInv, HubTypeOK
    <2> QED BY <1>6, <2>1 DEF NewLogDay, HubInv, HubTypeOK, Honest, AboutToMark, Unsynced
  <1>7. CASE HubRestart
    BY <1>7, RestartStep
  <1>8. CASE UNCHANGED hubVars
    BY <1>8 DEF hubVars, HubInv, HubTypeOK, Honest, AboutToMark, Unsynced
  <1> QED BY <1>1, <1>2, <1>3, <1>4, <1>5, <1>6, <1>7, <1>8 DEF HubNext

\* So the marks are honest in every reachable state.
LEMMA HubInvariant == HubSpec => []HubInv
  BY HubInvInit, HubInvStep, PTL DEF HubSpec

\* The types of the log, on the connection and on disk, and of the hub task.
THEOREM HubTyped == HubSpec => []HubTypeOK
  <1>1. HubInv => HubTypeOK
    BY DEF HubInv
  <1> QED BY <1>1, HubInvariant, PTL

\* A row counts as synced only if the hub has read it, for any batch size, whatever is written,
\* thinned, left uncommitted or lost between its reading and its marking.
THEOREM MarkedHolds == HubSpec => []MarkedWereRead
  <1>1. HubInv => MarkedWereRead
    BY DEF HubInv, Honest, MarkedWereRead
  <1> QED BY <1>1, HubInvariant, PTL

------------------------------------------------------------------------------
(* Service, for any scenarios, helpers and days: the override the engine   *)
(* follows was asked for, and Slack knows the scenario in force.           *)

USE DEF Up, outputs, Go

\* While there is a world there is a day in it.
LEMMA DayExists == env \in World => AnyDay \in Days
  BY DEF World, AnyDay

\* The service starts well typed.
LEMMA ServiceTypeInit == ServiceInit => ServiceTypeOK
  <1> SUFFICES ASSUME ServiceInit PROVE ServiceTypeOK
    OBVIOUS
  <1>1. AnyDay \in Days
    BY DayExists DEF ServiceInit
  <1>2. health \in [scenario : Scenarios, connected : BOOLEAN]
    BY ServiceAssumption DEF ServiceInit, NoHealth
  <1> QED BY <1>1, <1>2, ServiceAssumption DEF ServiceInit, ServiceTypeOK

\* Every part of a cycle, and every way in and out of it, keeps the types.
LEMMA ServiceTypeStep == ServiceTypeOK /\ [ServiceNext]_serviceVars => ServiceTypeOK'
  <1> SUFFICES ASSUME ServiceTypeOK, [ServiceNext]_serviceVars PROVE ServiceTypeOK'
    OBVIOUS
  <1>0. AnyDay \in Days /\ Started \in Scenarios /\ NoHealth \in [scenario : Scenarios, connected : BOOLEAN]
    BY DayExists, ServiceAssumption DEF ServiceTypeOK, NoHealth
  <1>1. CASE Collect
    BY <1>0, <1>1 DEF Collect, ServiceTypeOK, Reachable, World
  <1>2. CASE ReadEnabled \/ ReadChoice
    BY <1>2 DEF ReadEnabled, ReadChoice, ServiceTypeOK
  <1>3. CASE Engine
    BY <1>3 DEF Engine, ServiceTypeOK
  <1>4. CASE Dashboard
    BY <1>4 DEF Dashboard, ServiceTypeOK
  <1>5. CASE ExportLimit
    <2>0. daySeen.hour \in 0..23 /\ EveningHour \in 0..24 /\ daySeen.sun \in BOOLEAN
      BY ServiceAssumption DEF ServiceTypeOK
    <2>1. limit' \in BOOLEAN
      <3>1. CASE ~Reachable
        BY <1>5, <3>1 DEF ExportLimit, ServiceTypeOK
      <3>2. CASE Reachable /\ Producing /\ daySeen.hour < EveningHour
        BY <1>5, <2>0, <3>2 DEF ExportLimit
      <3>3. CASE Reachable /\ (daySeen.hour >= EveningHour \/ ~Producing)
        BY <1>5, <2>0, <3>3 DEF ExportLimit
      <3> QED BY <2>0, <3>1, <3>2, <3>3
    <2> QED BY <1>0, <1>5, <2>1 DEF ExportLimit, ServiceTypeOK
  <1>6. CASE Status
    BY <1>6 DEF Status, ServiceTypeOK
  <1>7. CASE Slack
    BY <1>7 DEF Slack, Notify, ServiceTypeOK
  <1>8. CASE Sleep \/ Stop
    BY <1>8 DEF Sleep, Stop, ServiceTypeOK
  <1>9. CASE Crash
    BY <1>0, <1>9 DEF Crash, ServiceTypeOK
  <1>10. CASE SystemdRestart \/ OperatorStart
    BY <1>0, <1>10 DEF SystemdRestart, OperatorStart, StartService, ServiceTypeOK
  <1>11. CASE WorldChanges
    <2>1. env' \in World
      BY <1>11 DEF WorldChanges, ServiceTypeOK, World
    <2>2. touched' \in BOOLEAN
      BY <1>11 DEF WorldChanges, ServiceTypeOK
    <2> QED BY <1>11, <2>1, <2>2 DEF WorldChanges, ServiceTypeOK
  <1>12. CASE UNCHANGED serviceVars
    BY <1>12 DEF serviceVars, ServiceTypeOK
  <1> QED
    BY <1>1, <1>2, <1>3, <1>4, <1>5, <1>6, <1>7, <1>8, <1>9, <1>10, <1>11, <1>12
    DEF ServiceNext, ServiceLoop, Cycles

\* The state of the service stays within its types through cycles, outages, crashes and
\* restarts, whatever the helpers hold.
THEOREM ServiceTyped == ServiceSpec => []ServiceTypeOK
  BY ServiceTypeInit, ServiceTypeStep, PTL DEF ServiceSpec

------------------------------------------------------------------------------
(* The override.                                                           *)

\* Between the two reads the first of them must still be true.
AskedSoFar ==
    /\ doing = "choice" /\ ~touched => env.enabled
    /\ OverrideWasAsked

\* One step per action of the cycle: the two reads bind the override to what was asked.
LEMMA AskedStep == ServiceTypeOK /\ AskedSoFar /\ [ServiceNext]_serviceVars => AskedSoFar'
  <1> SUFFICES ASSUME ServiceTypeOK, AskedSoFar, [ServiceNext]_serviceVars PROVE AskedSoFar'
    OBVIOUS
  <1> USE DEF AskedSoFar, OverrideWasAsked
  <1>1. CASE ReadEnabled
    BY <1>1 DEF ReadEnabled
  <1>2. CASE ReadChoice
    BY <1>2 DEF ReadChoice
  <1>3. CASE Collect \/ Engine \/ Dashboard \/ ExportLimit \/ Status \/ Slack \/ Sleep
    BY <1>3 DEF Collect, Engine, Dashboard, ExportLimit, Status, Slack, Sleep
  <1>4. CASE Stop
    BY <1>4 DEF Stop
  <1>5. CASE Crash \/ SystemdRestart \/ OperatorStart
    BY <1>5 DEF Crash, SystemdRestart, OperatorStart, StartService
  <1>6. CASE WorldChanges
    \* A change of a helper after the first read is what touched remembers.
    <2>1. CASE doing \in {"choice", "engine"} /\ ~touched'
      <3>1. env'.enabled = env.enabled /\ env'.choice = env.choice
        BY <1>6, <2>1 DEF WorldChanges
      <3> QED BY <1>6, <2>1, <3>1 DEF WorldChanges
    <2>2. CASE doing \notin {"choice", "engine"} \/ touched'
      BY <1>6, <2>2 DEF WorldChanges
    <2> QED BY <2>1, <2>2
  <1>7. CASE UNCHANGED serviceVars
    BY <1>7 DEF serviceVars
  <1> QED
    BY <1>1, <1>2, <1>3, <1>4, <1>5, <1>6, <1>7 DEF ServiceNext, ServiceLoop, Cycles

\* The engine never follows an override that nobody asks for, in whatever order reads, touches
\* of the helpers, skipped cycles, crashes and restarts come.
THEOREM OverrideHolds == ServiceSpec => []OverrideWasAsked
  <1>1. ServiceInit => AskedSoFar
    BY DEF ServiceInit, AskedSoFar, OverrideWasAsked
  <1>2. AskedSoFar => OverrideWasAsked
    BY DEF AskedSoFar
  <1> QED BY <1>1, <1>2, AskedStep, ServiceTyped, PTL DEF ServiceSpec

------------------------------------------------------------------------------
(* Slack.                                                                  *)

\* Slack has the scenario that was compared last, and until the engine runs again that is
\* the one in force.
Told ==
    /\ heard \in {Away, lastTold}
    /\ doing \in {"sleep", "collect", "enabled", "choice", "engine"} =>
         lastTold \in {Away, scenario}

\* One step per action of the cycle: only the engine changes the scenario, and Slack is told.
LEMMA ToldStep == Told /\ [ServiceNext]_serviceVars => Told'
  <1> SUFFICES ASSUME Told, [ServiceNext]_serviceVars PROVE Told'
    OBVIOUS
  <1> USE DEF Told
  <1>1. CASE Collect \/ ReadEnabled \/ ReadChoice \/ Engine
    BY <1>1 DEF Collect, ReadEnabled, ReadChoice, Engine
  <1>2. CASE Dashboard \/ ExportLimit \/ Status
    BY <1>2 DEF Dashboard, ExportLimit, Status
  <1>3. CASE Slack
    BY <1>3 DEF Slack, Notify
  <1>4. CASE Sleep \/ Stop \/ Crash
    BY <1>4 DEF Sleep, Stop, Crash
  <1>5. CASE SystemdRestart \/ OperatorStart
    BY <1>5 DEF SystemdRestart, OperatorStart, StartService
  <1>6. CASE WorldChanges \/ UNCHANGED serviceVars
    BY <1>6 DEF WorldChanges, serviceVars
  <1> QED
    BY <1>1, <1>2, <1>3, <1>4, <1>5, <1>6 DEF ServiceNext, ServiceLoop, Cycles

\* At the end of every cycle the last message that reached Slack names the scenario in force,
\* through skipped cycles, stale data and restarts.
THEOREM SlackHolds == ServiceSpec => []SlackIsCurrent
  <1>1. ServiceInit => Told
    BY DEF ServiceInit, Told
  <1>2. Told => SlackIsCurrent
    BY DEF Told, SlackIsCurrent
  <1> QED BY <1>1, <1>2, ToldStep, PTL DEF ServiceSpec

------------------------------------------------------------------------------
(* CircuitBreaker: types.                                                  *)

\* A call, an answer, a tick or a change of the service keeps the types.
LEMMA BreakerStep == BreakerTypeOK /\ [BreakerNext]_breakerVars => BreakerTypeOK'
<1> SUFFICES ASSUME BreakerTypeOK, [BreakerNext]_breakerVars PROVE BreakerTypeOK'
  OBVIOUS
<1> USE BreakerAssumption DEF BreakerTypeOK
<1>1. CASE Flip
  BY <1>1 DEF Flip
<1>2. CASE BreakerTick
  BY <1>2 DEF BreakerTick
<1>3. ASSUME NEW c \in Caller, Allow(c) PROVE BreakerTypeOK'
  <2>1. /\ calling' = calling \cup {c} /\ UNCHANGED <<failures, openFor, up>>
        /\ \/ breaker' = "half_open" /\ successes' = 0
           \/ UNCHANGED <<breaker, successes>>
    BY <1>3 DEF Allow
  <2> QED BY <2>1
<1>4. ASSUME NEW c \in Caller, OnSuccess(c) PROVE BreakerTypeOK'
  <2>1. /\ calling' = calling \ {c} /\ UNCHANGED <<openFor, up>>
        /\ \/ breaker' = "closed" /\ failures' = 0 /\ successes' = 0
           \/ /\ ~Enough /\ successes' = successes + 1 /\ UNCHANGED <<breaker, failures>>
           \/ failures' = 0 /\ UNCHANGED <<breaker, successes>>
    BY <1>4 DEF OnSuccess, Report
  <2>2. ~Enough => successes + 1 \in 0..SuccessThreshold - 1
    BY DEF Enough
  <2> QED BY <2>1, <2>2
<1>5. ASSUME NEW c \in Caller, OnFailure(c) PROVE BreakerTypeOK'
  <2>1. /\ calling' = calling \ {c} /\ UNCHANGED up
        /\ \/ breaker' = "open" /\ openFor' = 0
           \/ UNCHANGED <<breaker, openFor>>
        /\ successes' \in {0, successes}
        /\ failures' \in {failures, IF failures < FailureThreshold THEN failures + 1 ELSE failures}
    BY <1>5 DEF OnFailure, Report, Open
  <2>2. failures' \in 0..FailureThreshold /\ openFor' \in 0..BreakerCooldown
    BY <2>1
  <2> QED BY <2>1, <2>2
<1>6. CASE UNCHANGED breakerVars
  BY <1>6 DEF breakerVars
<1> QED BY <1>1, <1>2, <1>3, <1>4, <1>5, <1>6 DEF BreakerNext

\* The counters of the breaker stay below what opens and closes it, whatever late answers come
\* in whatever state: a success more would have closed it and set them back.
THEOREM BreakerTyped == BreakerSpec => []BreakerTypeOK
<1>1. BreakerInit => BreakerTypeOK
  BY BreakerAssumption DEF BreakerInit, BreakerTypeOK
<1>2. BreakerTypeOK /\ [BreakerNext]_breakerVars => BreakerTypeOK'
  BY BreakerStep
<1> QED BY <1>1, <1>2, PTL DEF BreakerSpec

------------------------------------------------------------------------------
(* The four side by side.                                                  *)

\* The inductive invariant: theirs.
ServicesInv == TypeOK /\ BreakerTypeOK /\ HubInv /\ ServiceTypeOK

\* The scenarios, the breaker, the logs and the service keep their types, whichever of them runs,
\* if the states in which MCServices.tla has the scenarios and the service sleep are such states:
\* the override and the snapshot are possible ones, the helper can say "Auto", and there is a day.
THEOREM ServicesTyped ==
    ASSUME "NIGHT_EV" \in Overrides, [Base EXCEPT !.hour = 12] \in Snapshots,
           "Auto" \in SelectOptions, Days # {}
    PROVE  ServicesSpec => []ServicesTypeOK
<1>1. ServicesInit => ServicesInv
  <2> SUFFICES ASSUME ServicesInit PROVE ServicesInv
    OBVIOUS
  <2>1. TypeOK
    <3>1. ScenariosAsleep => TypeOK
      BY ScenarioAssumption DEF ScenariosAsleep, TypeOK
    <3> QED BY <3>1, TypeInit DEF ServicesInit
  <2>2. BreakerTypeOK
    BY BreakerAssumption DEF ServicesInit, BreakerInit, BreakerTypeOK
  <2>3. HubInv
    BY HubInvInit DEF ServicesInit
  <2>4. ServiceTypeOK
    <3>1. AnyDay \in Days /\ NoHealth \in [scenario : Scenarios, connected : BOOLEAN]
      BY ServiceAssumption DEF AnyDay, NoHealth
    <3>2. ServiceAsleep => env \in World
      BY <3>1 DEF ServiceAsleep, World
    <3>3. ServiceAsleep => ServiceTypeOK
      BY <3>1, <3>2, ServiceAssumption DEF ServiceAsleep, ServiceTypeOK
    <3> QED BY <3>3, ServiceTypeInit DEF ServicesInit
  <2> QED BY <2>1, <2>2, <2>3, <2>4 DEF ServicesInv
<1>2. ServicesInv /\ [ServicesNext]_servicesVars => ServicesInv'
  <2> SUFFICES ASSUME ServicesInv, [ServicesNext]_servicesVars PROVE ServicesInv'
    OBVIOUS
  <2>1. /\ [Next]_vars /\ [BreakerNext]_breakerVars
        /\ [HubNext]_hubVars /\ [ServiceNext]_serviceVars
    BY DEF ServicesNext, servicesVars, Runs
  <2> QED BY <2>1, TypeStep, BreakerStep, HubInvStep, ServiceTypeStep DEF ServicesInv
<1>3. ServicesInv => ServicesTypeOK
  BY DEF ServicesInv, ServicesTypeOK, HubInv
<1> QED BY <1>1, <1>2, <1>3, PTL DEF ServicesSpec
=============================================================================
