------------------------------ MODULE Sessions ------------------------------
(***************************************************************************)
(* storage/session_tracker.py: sessions of the batteries and of the EV and *)
(* the PV production of the day, held in memory and written by             *)
(* storage/local_db.py when they are over.  The engine drives it at the    *)
(* end of every cycle; an exception on the way ends what the engine does   *)
(* in that cycle.                                                          *)
(*                                                                         *)
(* rows is what the connection sees, rowsDisk what is committed.  A write  *)
(* may fail at its statement, which leaves nothing, or at its commit,      *)
(* which leaves the statement to whoever commits next on this connection.  *)
(***************************************************************************)
EXTENDS Integers, FiniteSets

CONSTANTS
    Battery,
    Mode,      \* the EMS modes a battery may be seen in
    MaxSessions, LastDate, MaxProduced, MaxWriteFaults   \* bounds: sessions of a battery
               \* or of the EV, days, PV samples of a day, failed writes and crashes

ASSUME SessionsAssumption ==
    /\ "ev" \notin Battery
    /\ MaxSessions \in Nat /\ LastDate \in Nat \ {0} /\ MaxProduced \in Nat
    /\ MaxWriteFaults \in Nat

VARIABLES
    rows, rowsDisk,
    date,      \* _today_date()
    step, todo,  \* of a cycle: the part that is next, the batteries still to come
    seen,      \* the snapshot: modes of the batteries, EV charging, PV power
    session,   \* _open_battery, _open_ev: number (0: none) and kind of the open session
    lastEv,    \* _last_ev_charging of the engine
    accum,     \* _pv_accum: day (0: none) and sum
    writeFaults,
    begun,     \* history: sessions begun so far
    broken,    \* history: sessions a crash cut off
    doubtful,  \* history: sessions a commit of which failed
    produced, gaps  \* history: PV samples of a day, days with a crash or a lost sample

trackerVars == <<session, lastEv, accum>>
histories == <<begun, broken, doubtful, produced, gaps>>
sessionsVars == <<rows, rowsDisk, date, step, todo, seen, trackerVars, writeFaults, histories>>

Source == Battery \cup {"ev"}
Charging == {"charge_pv", "import_ac"}
Discharging == {"discharge_pv", "export_ac"}
Active == Charging \cup Discharging

\* copy tells two rows of one session apart.
SessionRow == [source : Source, n : 1..MaxSessions, kind : {"charge", "discharge", "ev"},
               copy : 1..MaxWriteFaults + 1]
Rows == [sessions : SUBSET SessionRow, pv : [1..LastDate -> 0..MaxProduced]]
SessionsSnapshot == [mode : [Battery -> Mode], charging : BOOLEAN, sun : 0..1]

NoSession == [n |-> 0, kind |-> "none"]

SessionsTypeOK ==
    /\ rows \in Rows /\ rowsDisk \in Rows
    /\ date \in 1..LastDate
    /\ step \in {"idle", "tracker", "pv"} /\ todo \subseteq Battery
    /\ seen \in SessionsSnapshot
    /\ session \in [Source -> [n : 0..MaxSessions, kind : {"none", "charge", "discharge", "ev"}]]
    /\ lastEv \in {"unknown", "yes", "no"}
    /\ accum \in [day : 0..LastDate, sum : 0..MaxProduced]
    /\ writeFaults \in 0..MaxWriteFaults
    /\ begun \in [Source -> 0..MaxSessions]
    /\ broken \cup doubtful \subseteq Source \X (1..MaxSessions)
    /\ produced \in [1..LastDate -> 0..MaxProduced] /\ gaps \subseteq 0..LastDate

SessionsInit ==
    /\ rows = [sessions |-> {}, pv |-> [d \in 1..LastDate |-> 0]] /\ rowsDisk = rows
    /\ date = 1 /\ step = "idle" /\ todo = {} /\ seen \in SessionsSnapshot
    /\ session = [s \in Source |-> NoSession] /\ lastEv = "unknown"
    /\ accum = [day |-> 0, sum |-> 0]
    /\ writeFaults = 0
    /\ begun = [s \in Source |-> 0] /\ broken = {} /\ doubtful = {}
    /\ produced = [d \in 1..LastDate |-> 0] /\ gaps = {}

------------------------------------------------------------------------------
(* local_db.                                                               *)

RowsCommitted(new) == rows' = new /\ rowsDisk' = new /\ UNCHANGED writeFaults

RowsNotCommitted(new) ==
    /\ writeFaults < MaxWriteFaults /\ writeFaults' = writeFaults + 1
    /\ rows' \in {rows, new} /\ UNCHANGED rowsDisk

NoWrite == UNCHANGED <<rows, rowsDisk, writeFaults>>

RowsOf(stored, s, n) == {r \in stored.sessions : r.source = s /\ r.n = n}

\* write_battery_session, write_ev_session.
WithSession(s) ==
    [rows EXCEPT !.sessions =
        @ \cup {[source |-> s, n |-> session[s].n, kind |-> session[s].kind,
                 copy |-> Cardinality(RowsOf(rows, s, session[s].n)) + 1]}]

\* Mutant: the row of the present day is.
WithPvToday == [rows EXCEPT !.pv[date] = accum.sum]

\* upsert_pv_daily_summary: the row of the day is replaced.
WithPv == [rows EXCEPT !.pv[accum.day] = accum.sum]

------------------------------------------------------------------------------
(* A cycle.                                                                *)

\* The snapshot.  (The bound: who has had all the sessions there may be does not
\* become active again.)
Observe ==
    /\ step = "idle" /\ step' = "tracker" /\ todo' = Battery
    /\ seen' \in SessionsSnapshot
    /\ \A b \in Battery :
         begun[b] = MaxSessions /\ session[b].n = 0 => seen'.mode[b] \notin Active
    /\ begun["ev"] = MaxSessions /\ session["ev"].n = 0 => ~seen'.charging
    /\ NoWrite /\ UNCHANGED <<date, trackerVars, histories>>

OpenSession(s, kind) ==
    /\ session' = [session EXCEPT ![s] = [n |-> begun[s] + 1, kind |-> kind]]
    /\ begun' = [begun EXCEPT ![s] = @ + 1]

\* Mutant: a session is forgotten before its row is written.
CloseSessionFirst(s, next) ==
    /\ session' = [session EXCEPT ![s] = NoSession]
    /\ \/ RowsCommitted(WithSession(s)) /\ step' = next /\ UNCHANGED doubtful
       \/ RowsNotCommitted(WithSession(s)) /\ step' = "idle" /\ UNCHANGED doubtful

\* A session is forgotten when its row is committed; if the write fails it stays
\* open, and the exception ends the cycle.
CloseSession(s, next) ==
    \/ /\ RowsCommitted(WithSession(s))
       /\ session' = [session EXCEPT ![s] = NoSession]
       /\ step' = next /\ UNCHANGED doubtful
    \/ /\ RowsNotCommitted(WithSession(s))
       /\ step' = "idle" /\ UNCHANGED session
       /\ doubtful' = IF rows' # rows THEN doubtful \cup {<<s, session[s].n>>} ELSE doubtful

OnBatteryModeChange(b) ==
    /\ step = "tracker" /\ b \in todo
    /\ todo' = todo \ {b}
    /\ LET runs == seen.mode[b] \in Active
           has == session[b].n # 0
       IN  \/ /\ runs /\ ~has
              /\ OpenSession(b, IF seen.mode[b] \in Charging THEN "charge" ELSE "discharge")
              /\ NoWrite /\ UNCHANGED <<step, doubtful>>
           \/ /\ ~runs /\ has
              /\ CloseSession(b, step) /\ UNCHANGED begun
           \/ /\ runs <=> has
              /\ NoWrite /\ UNCHANGED <<step, session, begun, doubtful>>
    /\ UNCHANGED <<date, seen, lastEv, accum, broken, produced, gaps>>

Charges == IF seen.charging THEN "yes" ELSE "no"

\* on_ev_event, called when the EV has changed; that it did is remembered only
\* when the event went through.
OnEvEvent ==
    /\ step = "tracker" /\ todo = {}
    /\ LET has == session["ev"].n # 0
           starts == lastEv = "no" /\ seen.charging /\ ~has
           stops == lastEv = "yes" /\ ~seen.charging /\ has
       IN  \/ /\ starts
              /\ OpenSession("ev", "ev") /\ step' = "pv"
              /\ NoWrite /\ UNCHANGED doubtful
           \/ /\ stops
              /\ CloseSession("ev", "pv") /\ UNCHANGED begun
           \/ /\ ~starts /\ ~stops /\ step' = "pv"
              /\ NoWrite /\ UNCHANGED <<session, begun, doubtful>>
    /\ lastEv' = IF step' = "pv" THEN Charges ELSE lastEv
    /\ UNCHANGED <<date, todo, seen, accum, broken, produced, gaps>>

NewDay(sun) == [day |-> date, sum |-> sun]

\* The row of the day that is over is written before the sample of the new one is
\* added; if that fails the sample is lost, and the next cycle tries again.
UpdatePvDaily ==
    /\ step = "pv" /\ step' = "idle"
    /\ LET sun == IF produced[date] < MaxProduced THEN seen.sun ELSE 0
       IN  /\ produced' = [produced EXCEPT ![date] = @ + sun]
           /\ \/ /\ accum.day = date
                 /\ accum' = [accum EXCEPT !.sum = @ + sun]
                 /\ NoWrite /\ UNCHANGED gaps
              \/ /\ accum.day # date
                 /\ IF accum.day # 0 THEN RowsCommitted(WithPv) ELSE NoWrite
                 /\ accum' = NewDay(sun) /\ UNCHANGED gaps
              \/ /\ accum.day \notin {0, date}
                 /\ RowsNotCommitted(WithPv)
                 /\ gaps' = gaps \cup {date} /\ UNCHANGED accum
    /\ UNCHANGED <<date, todo, seen, session, lastEv, begun, broken, doubtful>>

------------------------------------------------------------------------------
(* Beside the cycle.                                                       *)

\* flush.
Flush ==
    /\ step = "idle" /\ accum.day # 0 /\ rows.pv[accum.day] # accum.sum
    /\ RowsCommitted(WithPv) \/ RowsNotCommitted(WithPv)
    /\ UNCHANGED <<date, step, todo, seen, trackerVars, histories>>

\* commit() of another task on the same connection.
CommitOther ==
    /\ rows # rowsDisk /\ rowsDisk' = rows
    /\ UNCHANGED <<rows, date, step, todo, seen, trackerVars, writeFaults, histories>>

Midnight ==
    /\ date < LastDate /\ date' = date + 1
    /\ NoWrite /\ UNCHANGED <<step, todo, seen, trackerVars, histories>>

\* The process dies and comes back: what was not committed is gone, and so is the
\* memory of the tracker.
SessionsRestart ==
    /\ writeFaults < MaxWriteFaults /\ writeFaults' = writeFaults + 1
    /\ rows' = rowsDisk /\ UNCHANGED rowsDisk
    /\ step' = "idle" /\ todo' = {}
    /\ session' = [s \in Source |-> NoSession] /\ lastEv' = "unknown"
    /\ accum' = [day |-> 0, sum |-> 0]
    /\ broken' = broken \cup {<<s, session[s].n>> : s \in {q \in Source : session[q].n # 0}}
    /\ gaps' = gaps \cup {date, accum.day}
    /\ UNCHANGED <<date, seen, begun, doubtful, produced>>

SessionsNext ==
    \/ Observe \/ OnEvEvent \/ UpdatePvDaily \/ Flush \/ CommitOther \/ Midnight
    \/ SessionsRestart
    \/ \E b \in Battery : OnBatteryModeChange(b)

SessionsSpec == SessionsInit /\ [][SessionsNext]_sessionsVars

------------------------------------------------------------------------------
(* Properties.                                                             *)

\* A session that is over is on disk unless a crash cut it off, whatever writes failed
\* on the way; and it is there once, unless a commit of its row failed.
SessionsKept ==
    \A s \in Source, n \in 1..MaxSessions :
        LET stored == RowsOf(rowsDisk, s, n)
        IN  /\ n <= begun[s] /\ n # session[s].n /\ <<s, n>> \notin broken => stored # {}
            /\ Cardinality(stored) > 1 => <<s, n>> \in doubtful

\* When the tracker has gone on to a later day, the row of a day without a crash or a
\* lost sample says what was produced, however often it had to be written.
PvComplete ==
    \A d \in 1..LastDate : d < accum.day /\ d \notin gaps => rowsDisk.pv[d] = produced[d]
=============================================================================
