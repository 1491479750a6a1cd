------------------------------ MODULE MCLiveness ------------------------------
(* Two currents, sun that comes and goes, a veto and two caps; no force      *)
(* charge and no pause, so that every evaluation is surplus regulation's own.*)
EXTENDS ControllerLiveness

MCLadder == {1, 2}
MCAppCurrents == {2}

Reading(cap, surplus, external) ==
  [cap |-> cap, surplus |-> surplus, battery |-> TRUE, external |-> external,
   tariff |-> "off"]

MCReadings ==
  {Reading(None, 2, TRUE), Reading(1, 0, TRUE), Reading(0, 2, TRUE), Reading(None, 2, FALSE)}

MCSettings ==
  {[mode |-> TRUE, capOnly |-> FALSE, stayAtMin |-> FALSE, offPeak |-> FALSE,
    gridSensor |-> TRUE]}

MCForce == {}
MCPauses == {}
=============================================================================
