----------------------------- MODULE MCContactor -----------------------------
(* Surplus regulation switching a charge on and off, with pauses, force     *)
(* charges and the off-peak and cap-only modes in between.                 *)
EXTENDS ContactorSpacing

MCLadder == {1, 2}

Reading(cap, surplus, battery, tariff) ==
  [cap |-> cap, surplus |-> surplus, battery |-> battery, external |-> TRUE,
   tariff |-> tariff]

\* Sun, no sun in an off-peak window, no grid reading, and an off-peak window with the
\* house battery empty.
MCReadings ==
  {Reading(1, 3, TRUE, "off"), Reading(None, 0, TRUE, "allowed"), Reading(None, None, TRUE, "off"),
   Reading(None, 3, FALSE, "allowed")}

Options(mode, capOnly, offPeak) ==
  [mode |-> mode, capOnly |-> capOnly, stayAtMin |-> FALSE, offPeak |-> offPeak,
   gridSensor |-> ~offPeak]

\* Surplus mode, cap-only mode, and off-peak charging without a grid sensor.
MCSettings ==
  {Options(TRUE, FALSE, FALSE), Options(FALSE, TRUE, FALSE), Options(TRUE, FALSE, TRUE)}

MCForce == {[left |-> 1, current |-> None]}
MCPauses == {1}
=============================================================================
