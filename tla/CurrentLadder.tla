---------------------------- MODULE CurrentLadder ----------------------------
(***************************************************************************)
(* The currents that may be offered for one charger (helpers.py): what the *)
(* hardware reports, narrowed to what the installation allows.  A ladder   *)
(* is a set of currents.  An unreadable limit has been read as 0, "none".  *)
(***************************************************************************)
EXTENDS ChargeGates

CONSTANT AllowedCurrents   \* ALLOWED_CURRENTS of const.py

ASSUME AllowedAssumption ==
  AllowedCurrents \subseteq Nat /\ AllowedCurrents # {} /\ IsFiniteSet(AllowedCurrents)

\* What the charger reports: its hardware limit, None if it reports none, and
\* the currents its app proposes.
HardwareType == [limit : Nat \union {None}, presets : SUBSET Nat]

HardwareMax(h) ==
  IF h.limit = None THEN Max(AllowedCurrents) ELSE Min({Max(AllowedCurrents), h.limit})

\* Every ampere: from the lowest preset, up to the highest only when the
\* hardware limit is not known.
ContinuousLadder(h) ==
  LET lowest  == IF h.presets = {} THEN Min(AllowedCurrents) ELSE Min(h.presets)
      highest == IF h.presets # {} /\ h.limit = None THEN Max(h.presets) ELSE HardwareMax(h)
  IN  lowest..highest

PresetLadder(h) ==
  LET range == Min(AllowedCurrents)..HardwareMax(h)
      presets == h.presets \intersect range
  IN  IF presets = {} THEN range ELSE presets

HardwareLadder(h, continuous) == IF continuous THEN ContinuousLadder(h) ELSE PresetLadder(h)

\* Mutant of WithCeiling: a ceiling under every current leaves nothing.
WithCeilingBare(ladder, ceiling) ==
  IF ceiling = 0 THEN ladder ELSE {a \in ladder : a <= ceiling}

\* A limit that would leave nothing keeps the current that is nearest to it.
WithCeiling(ladder, ceiling) ==
  IF ceiling = 0 THEN ladder
  ELSE IF \E a \in ladder : a <= ceiling THEN {a \in ladder : a <= ceiling}
  ELSE {Min(ladder)}

WithFloor(ladder, floor) ==
  IF floor = 0 THEN ladder
  ELSE IF \E a \in ladder : a >= floor THEN {a \in ladder : a >= floor}
  ELSE {Max(ladder)}

\* The ceiling first: the floor cannot lift a current over it again.
InstallationLimits(ladder, ceiling, floor) ==
  IF ladder = {} THEN {} ELSE WithFloor(WithCeiling(ladder, ceiling), floor)

OfferedCurrents(h, continuous, ceiling, floor) ==
  InstallationLimits(HardwareLadder(h, continuous), ceiling, floor)
=============================================================================
