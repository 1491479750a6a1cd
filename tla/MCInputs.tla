------------------------------- MODULE MCInputs -------------------------------
(* A house with an inverter's limit and two appliances that announce         *)
(* themselves, houses with sun and a battery, a departure with and without    *)
(* off-peak hours, the ladders of many chargers, and what is reported of      *)
(* settings and sessions.                                                     *)
EXTENDS SessionReports

MCAllowed == {1, 2, 4}
MCPrices == {-1, 0, 2}

Plain ==
  [sensors |-> {}, inverted |-> {}, mode |-> FALSE, capOnly |-> FALSE, stayAtMin |-> FALSE,
   chargeInOffPeak |-> FALSE, loadLimit |-> 0, inverterLimit |-> 0,
   reserves |-> [a \in Appliances |-> 0], high |-> 3, low |-> 1,
   allowBatteryDischarge |-> FALSE, batteryBudget |-> 0,
   windows |-> {}, departure |-> None, departureEnergy |-> 0, ceiling |-> 0, floor |-> 0,
   continuous |-> FALSE]

Calm ==
  [house |-> 0, sun |-> 0, soc |-> 2, forecast |-> 0, curtailment |-> 0, discharge |-> 0,
   external |-> TRUE, offPeak |-> FALSE, critical |-> FALSE, dead |-> {}]

Home(options, readings) ==
  [options |-> options, hardware |-> [limit |-> None, presets |-> {1, 2, 4}],
   draws |-> [b \in Buckets |-> 4], curve |-> EmptyCurve, sessions |-> << >>, vehicle |-> None,
   appliances |-> {}, app |-> FALSE, begin |-> 0, lasts |-> 4, readings |-> readings]

\* Climbing back under an inverter's limit while appliances come and go.
Kitchen(appliances, readings, lasts) ==
  [Home([Plain EXCEPT !.sensors = {"load", "grid"}, !.inverted = {}, !.capOnly = TRUE,
                      !.inverterLimit = 5, !.loadLimit = 5,
                      !.reserves = [a \in Appliances |-> 2]],
        readings)
     EXCEPT !.appliances = appliances, !.app = TRUE, !.lasts = lasts]

\* Sun, clouds and a battery, whose thresholds may be set the wrong way round.
Sunny(stay, high, low) ==
  Home([Plain EXCEPT !.sensors = {"grid", "soc", "curtailment", "discharge", "external"},
                     !.inverted = {"discharge"}, !.mode = TRUE, !.stayAtMin = stay,
                     !.high = high, !.low = low, !.allowBatteryDischarge = TRUE,
                     !.batteryBudget = 1],
       {[Calm EXCEPT !.sun = 4], [Calm EXCEPT !.sun = 3, !.soc = 1],
        [Calm EXCEPT !.curtailment = 2, !.soc = 3], [Calm EXCEPT !.sun = 5, !.discharge = -2],
        [Calm EXCEPT !.sun = 4, !.dead = {"soc"}], [Calm EXCEPT !.sun = 4, !.external = FALSE]})

Forecasting ==
  Home([Plain EXCEPT !.sensors = {"grid", "forecast"}, !.mode = TRUE],
       {[Calm EXCEPT !.sun = 4, !.forecast = 4], [Calm EXCEPT !.forecast = 4], Calm,
        [Calm EXCEPT !.sun = 2, !.dead = {"grid"}]})

\* A departure every day, at the moment the behaviour begins.
Commute(windows, energy) ==
  [Plain EXCEPT !.windows = windows, !.departure = 1, !.departureEnergy = energy]

Peak == {[from |-> 5, to |-> 5], [from |-> 3, to |-> 4]}
Night == {[from |-> 6, to |-> 0]}

Commuter(windows, energy) ==
  [Home(Commute(windows, energy), {Calm}) EXCEPT !.begin = 1, !.lasts = Horizon]

\* A car that has shown its rate, one that is slower than the charger, and one whose
\* curve is known.
Known(power) ==
  [i \in 1..2 |-> [ticks |-> i, energy |-> i * power, vehicle |-> "car"]]
Slow == [Commuter(Peak, 8) EXCEPT !.draws = [b \in Buckets |-> 2], !.sessions = Known(2)]
Tapering ==
  [Commuter(Peak, 8) EXCEPT
     !.draws = [b \in Buckets |-> IF b = 0 THEN 4 ELSE 2],
     !.curve = [b \in Buckets |-> [power |-> IF b = 0 THEN 4 ELSE 2, count |-> MinSamples]]]
Sensed ==
  [Commuter({}, 8) EXCEPT
     !.lasts = 9, !.options.sensors = {"offPeak", "critical"},
     !.readings = {Calm, [Calm EXCEPT !.offPeak = TRUE]}]

Chargers ==
  {[Home([Plain EXCEPT !.ceiling = c, !.floor = f, !.continuous = every], {Calm})
      EXCEPT !.hardware = [limit |-> l, presets |-> p], !.lasts = 1] :
     c \in {0, 1, 3}, f \in {0, 2, 4}, every \in BOOLEAN, l \in {None, 0, 1, 3},
     p \in {{}, {2}, {2, 3, 6}}}

\* Settings that can do nothing, and their like that can.
Miswired ==
  {[Home([Plain EXCEPT !.sensors = present, !.mode = mode, !.loadLimit = 5,
                       !.inverterLimit = 5, !.windows = w, !.departure = 1,
                       !.departureEnergy = e], {Calm})
     EXCEPT !.begin = 1, !.lasts = 7] :
     present \in {{}, {"grid"}, {"load"}, {"grid", "load"}}, mode \in BOOLEAN,
     w \in {{[from |-> 5, to |-> 5]}, {[from |-> 2, to |-> 3]}}, e \in {0, 8}}

\* Sessions that are fast, usual, slow, short and aborted; of one car, or of two.
Kinds == {[ticks |-> 1, energy |-> 8], [ticks |-> 2, energy |-> 8], [ticks |-> 4, energy |-> 8],
          [ticks |-> 1, energy |-> 2], [ticks |-> 0, energy |-> 2]}
Of(kind, car) == [ticks |-> kind.ticks, energy |-> kind.energy, vehicle |-> car]

Histories ==
  UNION {[1..n -> {Of(k, "car") : k \in Kinds}] : n \in 0..4}
    \union [1..3 -> {Of(k, c) : k \in {[ticks |-> 1, energy |-> 8], [ticks |-> 4, energy |-> 8]},
                               c \in {"car", "van"}}]

Drivers ==
  {[Home(Plain, {Calm}) EXCEPT !.sessions = h, !.vehicle = v, !.lasts = 1] :
     h \in Histories, v \in {None, "car"}}

MCHouseholds ==
  {Kitchen(Appliances, {Calm}, 2),
   [Kitchen({CHOOSE a \in Appliances : TRUE}, {Calm, [Calm EXCEPT !.house = 1]}, 3)
      EXCEPT !.options.inverted = {"grid"}],
   Sunny(TRUE, 3, 1), Sunny(FALSE, 2, 3), Forecasting, Slow, Tapering, Sensed,
   [Commuter(Peak, 8) EXCEPT !.sessions = Known(4)]}
    \union {Commuter(w, e) : w \in {Peak, Night}, e \in {4, 8, 12, 20}}
    \union Chargers \union Miswired \union Drivers
=============================================================================
