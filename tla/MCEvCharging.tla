---------------------------- MODULE MCEvCharging ----------------------------
(***************************************************************************)
(* EvCharging.tla for TLC.  The charger takes 6 or 7 A, the budget may ask *)
(* for 8: config/site.yaml too has a budget above what the charger takes.  *)
(***************************************************************************)
EXTENDS EvCharging

Quiet == [hour |-> "night", plugged |-> TRUE, takes |-> TRUE, soc |-> "below",
          breach |-> FALSE, late |-> FALSE, nightEv |-> TRUE, surplus |-> FALSE,
          support |-> FALSE, grid |-> "even", load |-> "low", headroom |-> "ample"]

Day == [Quiet EXCEPT !.hour = "forenoon", !.nightEv = FALSE]

\* Night: quiet, loaded, a small and a large breach, late data, another scenario, the car full,
\* almost full, away or asleep.
MCNights ==
    {Quiet,
     [Quiet EXCEPT !.load = "high", !.headroom = "over"],
     [Quiet EXCEPT !.load = "high", !.headroom = "over", !.breach = TRUE],
     [Quiet EXCEPT !.load = "high", !.headroom = "far", !.breach = TRUE],
     [Quiet EXCEPT !.late = TRUE],
     [Quiet EXCEPT !.nightEv = FALSE],
     [Quiet EXCEPT !.soc = "almost"],
     [Quiet EXCEPT !.soc = "target"],
     [Quiet EXCEPT !.plugged = FALSE],
     [Quiet EXCEPT !.soc = "unknown"]}

\* Day: export, slight and large import with and without surplus, afternoon with
\* and without support, a breach, a (nearly) full car, one that takes nothing, late data,
\* and a NIGHT_EV that outlasts the night.
MCDays ==
    {[Day EXCEPT !.grid = "export", !.surplus = TRUE],
     [Day EXCEPT !.grid = "slight"],
     [Day EXCEPT !.grid = "import"],
     [Day EXCEPT !.grid = "import", !.late = TRUE],
     [Day EXCEPT !.hour = "afternoon", !.grid = "export", !.surplus = TRUE, !.support = TRUE],
     [Day EXCEPT !.hour = "afternoon"],
     [Day EXCEPT !.grid = "import", !.breach = TRUE, !.surplus = TRUE],
     [Day EXCEPT !.soc = "almost", !.surplus = TRUE],
     [Day EXCEPT !.soc = "target", !.surplus = TRUE],
     [Day EXCEPT !.takes = FALSE, !.surplus = TRUE],
     [Day EXCEPT !.nightEv = TRUE]}

MCViews == MCNights \cup MCDays
=============================================================================
