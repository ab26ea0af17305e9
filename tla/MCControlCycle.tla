--------------------------- MODULE MCControlCycle ---------------------------
(***************************************************************************)
(* ControlCycle.tla for TLC: one battery, the numbers of config/site.yaml  *)
(* (a cycle of 15 s is one unit of time), and small sets of sensor values  *)
(* on both sides of every threshold.                                       *)
(***************************************************************************)
EXTENDS ControlCycle

MCOrder == <<"kontor">>
MCModes == {"battery_standby", "charge_pv", "charge_battery", "discharge_pv"}
MCSkips == {"charge_battery"}
MCLimits == {0, 3000, 5000, 6000}
MCOneTick == {1}

Calm == [soc |-> 60, temp |-> "warm", soh |-> "good", pv |-> TRUE,
         charging |-> FALSE, wish |-> "none", support |-> FALSE]

QuietSite == [grid |-> "ok", gridCharge |-> FALSE, late |-> FALSE,
              steady |-> FALSE, nightPlan |-> FALSE]

\* Below the floor, in the hysteresis of G1 and well above it; a dark PV input
\* with grid charging, freezing cells, battery support.
MCReadings ==
    {[Calm EXCEPT !.soc = n, !.wish = "discharge"] : n \in {14, 18, 60}}
      \cup {[Calm EXCEPT !.wish = "charge"],
            [Calm EXCEPT !.pv = FALSE, !.charging = TRUE],
            [Calm EXCEPT !.temp = "freezing", !.wish = "discharge"],
            [Calm EXCEPT !.wish = "charge", !.support = TRUE]}

MCSites ==
    {QuietSite, [QuietSite EXCEPT !.steady = TRUE], [QuietSite EXCEPT !.nightPlan = TRUE],
     [QuietSite EXCEPT !.grid = "critical"], [QuietSite EXCEPT !.late = TRUE]}

\* For the liveness properties: every wish in calm weather and at the floor,
\* and a breach that comes and goes.
MCLiveReadings ==
    {[Calm EXCEPT !.soc = n, !.wish = w] : n \in {15, 60}, w \in Wish}

MCLiveSites == {QuietSite, [QuietSite EXCEPT !.grid = "critical"]}

\* For the claims: the floor, cold cells just above it, every wish at 60 %,
\* and a night hour far above the tak.
MCClaimReadings ==
    {[Calm EXCEPT !.soc = n] : n \in {14, 15}}
      \cup {[Calm EXCEPT !.soc = 18, !.temp = t, !.wish = w] :
                t \in {"warm", "cold"}, w \in {"charge", "discharge"}}
      \cup {[Calm EXCEPT !.wish = "discharge"]}

MCClaimSites == {QuietSite, [QuietSite EXCEPT !.grid = "critical"]}

MCQuietSites == {QuietSite}
=============================================================================
