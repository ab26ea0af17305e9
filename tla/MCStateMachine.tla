--------------------------- MODULE MCStateMachine ---------------------------
(***************************************************************************)
(* StateMachine.tla for TLC: the thresholds of StateMachineConfig and      *)
(* snapshots on both sides of each of them.                                *)
(***************************************************************************)
EXTENDS StateMachine

Base == [hour |-> 13, soc |-> 50, pvToday |-> FALSE, pvTomorrow |-> FALSE,
         plugged |-> FALSE, evBelow |-> TRUE, cheap |-> TRUE, pv |-> 0,
         exporting |-> FALSE]

\* The last hour of the night, the first of every window and one after midnight;
\* empty, medium and full batteries; EV and forecast in every state; a sunny day
\* that exports.
MCSnapshots ==
    {[Base EXCEPT !.hour = h, !.soc = n, !.plugged = p] :
        h \in {2, 5, 6, 9, 12, 17, 22}, n \in {20, 50}, p \in BOOLEAN}
      \cup {[Base EXCEPT !.hour = h, !.soc = 96, !.pv = 600, !.exporting = TRUE] :
               h \in {7, 14, 19}}
      \cup {[Base EXCEPT !.hour = h, !.pvToday = TRUE, !.pvTomorrow = TRUE] : h \in {2, 7, 12}}

MCOverrides == Scenario
=============================================================================
