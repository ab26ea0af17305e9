---------------------------- MODULE MCModeChange ----------------------------
(***************************************************************************)
(* ModeChange.tla for TLC.  The waits are a few units long: enough for a   *)
(* step taken one unit early, or a timer one call ahead, to show.          *)
(***************************************************************************)
EXTENDS ModeChange

\* A mode that charges and takes the full protocol, one that charges and
\* skips it, the mode that discharges, and standby.
MCModes == {"battery_standby", "charge_pv", "charge_battery", "discharge_pv"}

\* _DEFAULT_TRANSITION_MATRIX
MCSkips == {"charge_battery"}

\* test_skip_standby_only_clears_then_sets_target: a matrix of its own.
MCSkipStandby == {"charge_battery", "charge_pv"}

MCLimits == {0, 3000}
=============================================================================
