---------------------------- MODULE MCController ----------------------------
(* Every mode of regulation on a ladder with a gap, with caps that come and *)
(* go, vetoes, tariff windows, force charges, lost writes and the app.     *)
EXTENDS SchedulerRefinement

MCLadder == {1, 3, 4}
MCAppCurrents == {4}

Reading(cap, surplus, battery, external, tariff) ==
  [cap |-> cap, surplus |-> surplus, battery |-> battery, external |-> external,
   tariff |-> tariff]

\* Plenty of sun, too little sun at peak hours, a tight cap, an exhausted one, the
\* external veto and an off-peak window with the house battery empty.
MCReadings ==
  {Reading(None, 4, TRUE, TRUE, "off"), Reading(None, 1, TRUE, TRUE, "forbidden"),
   Reading(3, 4, TRUE, TRUE, "off"), Reading(0, 4, TRUE, TRUE, "off"),
   Reading(3, 4, TRUE, FALSE, "off"), Reading(None, None, FALSE, TRUE, "allowed")}

Options(mode, capOnly, stayAtMin) ==
  [mode |-> mode, capOnly |-> capOnly, stayAtMin |-> stayAtMin, offPeak |-> FALSE,
   gridSensor |-> TRUE]

MCSettings == {Options(TRUE, FALSE, TRUE), Options(FALSE, TRUE, FALSE)}

MCForce == {[left |-> 1, current |-> 4]}
MCPauses == {}
=============================================================================
