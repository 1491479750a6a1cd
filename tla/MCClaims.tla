------------------------------ MODULE MCClaims ------------------------------
(* The smallest instances on which the claims of RegulationClaims fail.     *)
EXTENDS RegulationClaims

MCLadder == {1}

Reading(cap, surplus, tariff) ==
  [cap |-> cap, surplus |-> surplus, battery |-> TRUE, external |-> TRUE, tariff |-> tariff]

Options(mode) ==
  [mode |-> mode, capOnly |-> TRUE, stayAtMin |-> FALSE, offPeak |-> FALSE,
   gridSensor |-> TRUE]

SunAndClouds == {Reading(None, 2, "off"), Reading(None, 0, "off")}
OffPeakWindow == {Reading(1, None, "allowed")}

SurplusMode == {Options(TRUE)}
CapOnlyMode == {Options(FALSE)}

NoForce == {}
MCPauses == {2}
=============================================================================
