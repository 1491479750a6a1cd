----------------------------- MODULE SensorReader -----------------------------
(***************************************************************************)
(* What the sensors say and what becomes of it: the reader of Home         *)
(* Assistant's states (surplus_reader.py), the solar surplus               *)
(* (surplus_decision.py), the protection caps (surplus_caps.py) and the    *)
(* reservations of appliances that announce themselves (preemption.py).    *)
(*                                                                         *)
(* s is the value of every sensor, None when it is unavailable, unknown or *)
(* no number; units are converted by the sensor's unit attribute, so all   *)
(* powers are in watts.  o is the settings: which sensors are configured,  *)
(* which are inverted, and the limits; settings have the shape of the      *)
(* options they are made from, whose other numbers keep their bounds.      *)
(***************************************************************************)
EXTENDS TariffPlan

CONSTANTS
  Appliances,         \* entities of the load reservations
  ReservationWindow,  \* DEFAULT_RESERVATION_WINDOW_S, in ticks
  MinSoc, MaxSoc,     \* bounds of the battery thresholds
  ForecastWeight,     \* percent
  Smoothing,          \* FIXED_FORECAST_SMOOTHING_S, in ticks
  DropGuard           \* FIXED_FORECAST_DROP_GUARD_W

ASSUME ReaderAssumption ==
  /\ {MinSoc, MaxSoc, ForecastWeight, DropGuard} \subseteq Nat
  /\ {ReservationWindow, Smoothing} \subseteq Nat \ {0}
  /\ MinSoc < MaxSoc /\ ForecastWeight <= 100
  /\ IsFiniteSet(Appliances)
ASSUME AnswerAssumption == None \notin BOOLEAN

Sensors == {"grid", "load", "curtailment", "discharge", "soc", "forecast",
            "external", "offPeak", "critical"}

OptionsType ==
  [sensors : SUBSET Sensors, inverted : SUBSET Sensors, mode : BOOLEAN,
   capOnly : BOOLEAN, stayAtMin : BOOLEAN, chargeInOffPeak : BOOLEAN,
   loadLimit : Nat, inverterLimit : Nat, reserves : [Appliances -> Nat],
   high : Int, low : Int, allowBatteryDischarge : BOOLEAN, batteryBudget : Nat,
   windows : SUBSET [from : Moments, to : Moments],
   departure : Moments \union {None}, departureEnergy : Nat,
   ceiling : Nat, floor : Nat, continuous : BOOLEAN]

-----------------------------------------------------------------------------
(* Reading.                                                                *)

Read(o, s, name) == IF name \in o.sensors THEN s[name] ELSE None

\* A power with the sign the options give it; None stays None.
Signed(o, s, name) ==
  LET value == Read(o, s, name)
  IN  IF value # None /\ name \in o.inverted THEN -value ELSE value

GridPower(o, s) == Signed(o, s, "grid")

\* A power that is never negative, 0 when it cannot be read.
PowerOrNothing(o, s, name) ==
  LET value == Signed(o, s, name) IN IF value = None THEN 0 ELSE Max({0, value})

\* A yes or no, as the options read it; `unread` when it cannot be read.
Answered(o, s, name, unread) ==
  LET value == Read(o, s, name)
  IN  IF value = None THEN unread ELSE value # (name \in o.inverted)

\* A safety veto: it fails closed.
ExternalAllowed(o, s) == Answered(o, s, "external", "external" \notin o.sensors)

\* An off-peak sensor is the sole source once configured, and fails open.
OffPeakNow(o, s, moment) ==
  IF "offPeak" \in o.sensors THEN Answered(o, s, "offPeak", None)
  ELSE IF UsableWindows(o.windows) = {} THEN None
  ELSE WithinWindows(moment, UsableWindows(o.windows))

CriticalPeakNow(o, s, offPeak) ==
  offPeak = FALSE /\ Answered(o, s, "critical", FALSE)

-----------------------------------------------------------------------------
(* The house battery: two thresholds and a flag between them.              *)

OptionInt(value, lowest, highest) == Max({lowest, Min({highest, value})})
Threshold(value) == OptionInt(value, MinSoc, MaxSoc)

\* Mutant of SettingsFromEntry: the two thresholds may cross.
SettingsFromEntryCrossing(entry) ==
  [entry EXCEPT !.high = Threshold(entry.high), !.low = Threshold(entry.low)]

\* The settings of an entry's options: the thresholds are clamped, then kept apart.
SettingsFromEntry(entry) ==
  LET high == Max({Threshold(entry.high), MinSoc + 1})
  IN  [entry EXCEPT !.high = high, !.low = Min({Threshold(entry.low), high - 1})]

BatteryHysteresis(soc, o, flag) ==
  IF flag = TRUE THEN soc > o.low ELSE soc >= o.high

\* The flag after a reading; an unreadable one leaves it alone.
BatteryFlag(o, s, flag) ==
  LET soc == Read(o, s, "soc")
  IN  IF soc = None THEN flag ELSE BatteryHysteresis(soc, o, flag)

\* An unreadable battery is not ready.
BatteryReady(o, s, flag) ==
  \/ "soc" \notin o.sensors
  \/ s.soc # None /\ BatteryFlag(o, s, flag)

-----------------------------------------------------------------------------
(* The surplus.                                                            *)

\* What the house battery may give the car.
AllowedBatteryDischarge(o) == IF o.allowBatteryDischarge THEN o.batteryBudget ELSE 0

\* What the surplus would be without the car.
RawSurplus(o, s, car, ready) ==
  LET curtailed == IF ready THEN PowerOrNothing(o, s, "curtailment") ELSE 0
      overLimit == Max({0, PowerOrNothing(o, s, "discharge") - AllowedBatteryDischarge(o)})
  IN  car - GridPower(o, s) + curtailed - overLimit

\* The forecast's rolling state after a sample, and the surplus to act on.
Blended(raw, forecast) ==
  (raw * (100 - ForecastWeight) + forecast * ForecastWeight) \div 100

Smoothed(memory, blended, now) ==
  IF memory.ema = None THEN blended
  ELSE memory.ema + ((blended - memory.ema) * Min({now - memory.at, Smoothing})) \div Smoothing

NextForecast(memory, raw, forecast, now) ==
  [ema |-> IF forecast = None THEN raw ELSE Smoothed(memory, Blended(raw, forecast), now),
   at |-> now]

EffectiveSurplus(memory, raw, forecast, now) ==
  IF forecast = None THEN raw
  ELSE Max({Blended(raw, forecast), NextForecast(memory, raw, forecast, now).ema - DropGuard})

-----------------------------------------------------------------------------
(* Reservations: announced[a] is when a was first seen drawing, None while *)
(* it is not.                                                              *)

Listed(o) == {a \in Appliances : o.reserves[a] > 0}

\* The cap of the inverter is computed, and the appliances are looked at.
InverterCapped(o, s) == o.inverterLimit > 0 /\ Read(o, s, "load") # None

\* Mutant of Observed: an appliance that stays on is seen for the first time again
\* and again.
ObservedRenews(o, s, announced, announcing, now) ==
  [a \in Appliances |-> IF InverterCapped(o, s) /\ a \in Listed(o)
                          THEN (IF a \in announcing THEN now ELSE None) ELSE announced[a]]

Observed(o, s, announced, announcing, now) ==
  [a \in Appliances |->
     IF ~InverterCapped(o, s) \/ a \notin Listed(o) THEN announced[a]
     ELSE IF a \notin announcing THEN None
     ELSE IF announced[a] = None THEN now
     ELSE announced[a]]

Reserving(o, announced, now) ==
  {a \in Listed(o) : announced[a] # None /\ now - announced[a] < ReservationWindow}

\* The sum of their reserves, watt by watt.
Watts(o, appliances) == Cardinality(UNION {{a} \X (1..o.reserves[a]) : a \in appliances})

-----------------------------------------------------------------------------
(* The caps: the highest offered current that fits under each limit, 0 if  *)
(* none does, None without a limit or a reading.                           *)

CapToAvailablePower(ladder, headroom) == CurrentSupportedBy(Max({0, headroom}), ladder)

LoadLimitCurrent(o, s, car, ladder) ==
  IF o.loadLimit = 0 \/ GridPower(o, s) = None THEN None
  ELSE CapToAvailablePower(ladder, o.loadLimit - (GridPower(o, s) - car))

\* announced is as Observed leaves it.
InverterLimitCurrent(o, s, car, ladder, announced, now) ==
  IF ~InverterCapped(o, s) THEN None
  ELSE CapToAvailablePower(ladder,
         o.inverterLimit - (Read(o, s, "load") - car) - Watts(o, Reserving(o, announced, now)))

\* Mutant of ProtectionCap: the second limit overrides the first.
ProtectionCapLast(o, s, car, ladder, announced, now) ==
  LET load == LoadLimitCurrent(o, s, car, ladder)
  IN  IF load # None THEN load ELSE InverterLimitCurrent(o, s, car, ladder, announced, now)

ProtectionCap(o, s, car, ladder, announced, now) ==
  LET caps == {LoadLimitCurrent(o, s, car, ladder),
               InverterLimitCurrent(o, s, car, ladder, announced, now)} \ {None}
  IN  IF caps = {} THEN None ELSE Min(caps)
=============================================================================
