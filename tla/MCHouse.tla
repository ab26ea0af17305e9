------------------------------- MODULE MCHouse -------------------------------
(***************************************************************************)
(* For TLC: the loops that run power through the house, side by side: the  *)
(* charging of the car, the switched consumers, the batteries.  One of     *)
(* them runs, from any of its initial states, the others sleep in one of   *)
(* theirs, in which nothing is asked of them.                              *)
(***************************************************************************)
EXTENDS MCEvCharging, Relays, ZeroGrid

VARIABLE part

houseVars == <<part, vars, relayVars, zgVars>>

Part == {"car", "relays", "batteries"}

------------------------------------------------------------------------------
(* The consumers of config/site.yaml, and one that runs without a relay;   *)
(* pool and heater wait for a pump that is no consumer.  Power in 100 W.   *)

MCConsumer == {"kontor", "pool", "heater", "miner"}
MCRelay == {"kontor", "pool", "miner"}

MCPriority == [c \in MCConsumer |-> CASE c = "kontor" -> 3 [] c = "pool" -> 4
                                      [] c = "heater" -> 5 [] c = "miner" -> 99]
MCShed == [c \in MCConsumer |-> CASE c = "kontor" -> 2 [] c = "pool" -> 3
                                  [] c = "heater" -> 4 [] c = "miner" -> 1]
MCRequires == [c \in MCConsumer |-> IF c \in {"pool", "heater"} THEN "pump_pool" ELSE ""]

MCPower == [c \in MCConsumer |-> CASE c = "kontor" -> 15 [] c = "pool" -> 20
                                   [] c = "heater" -> 30 [] c = "miner" -> 4]
MCDraw == [S \in SUBSET MCConsumer |-> MapThenSumSet(LAMBDA c : MCPower[c], S)]

Fair0 == [house |-> 0, full |-> TRUE, late |-> FALSE, need |-> 0, cold |-> FALSE, slow |-> FALSE]

\* No surplus, with fresh and with late data; more than all consumers use; a medium and a small
\* surplus; a car that needs room, cold, and both at once in a slow cycle.
MCWeather ==
    {Fair0,
     [Fair0 EXCEPT !.late = TRUE],
     [Fair0 EXCEPT !.house = -72],
     [Fair0 EXCEPT !.house = -18],
     [Fair0 EXCEPT !.house = -4],
     [Fair0 EXCEPT !.house = -18, !.need = 14],
     [Fair0 EXCEPT !.house = -18, !.cold = TRUE],
     [Fair0 EXCEPT !.house = -18, !.need = 14, !.cold = TRUE, !.slow = TRUE]}

------------------------------------------------------------------------------
(* A large and a small battery; PV or an oven.                             *)

MCRank == [b \in Battery |-> IF b = "forrad" THEN 2 ELSE 1]
MCCap == [b \in Battery |-> IF b = "forrad" THEN 5 ELSE 15]
MCTiers == {5, 7, 10}
MCCorrection == [t \in MCTiers |-> CASE t = 5 -> 10 [] t = 7 -> 30 [] t = 10 -> 50]
MCHouseLoad == {-40, 60}

------------------------------------------------------------------------------
HouseInit ==
    /\ part \in Part
    /\ part # "car" => enabled = FALSE /\ amps = MinA /\ view = Quiet
    /\ part # "relays" => relayView = Fair0
    /\ part # "batteries" => tuner = TRUE /\ house = 60 /\ soc = [b \in Battery |-> SocMax]
    /\ Init /\ RelaysInit /\ ZgInit

Runs(p) ==
    /\ part = p /\ UNCHANGED part
    /\ IF p = "car" THEN TRUE ELSE UNCHANGED vars
    /\ IF p = "relays" THEN TRUE ELSE UNCHANGED relayVars
    /\ IF p = "batteries" THEN TRUE ELSE UNCHANGED zgVars

HouseNext ==
    \/ Runs("car") /\ Next
    \/ Runs("relays") /\ RelaysNext
    \/ Runs("batteries") /\ ZgNext

\* Each is part of the control cycle, which the event loop runs again and again.
HouseSpec ==
    /\ HouseInit /\ [][HouseNext]_houseVars
    /\ WF_houseVars(Runs("car") /\ Cycle)
    /\ WF_houseVars(Runs("relays") /\ RelaysLoop)
    /\ WF_houseVars(Runs("batteries") /\ ZgLoop)

\* The types of the three.
HouseTypeOK == TypeOK /\ RelaysTypeOK /\ ZgTypeOK
=============================================================================
