---------------------------- MODULE SessionReports ----------------------------
(***************************************************************************)
(* What the user is told: which settings can do nothing                    *)
(* (config_diagnosis.py), which sessions point at a fault                  *)
(* (session_anomaly.py) and what a session cost (session_costing.py).      *)
(* Nothing is decided on these; they are judged here against the gates'    *)
(* inputs they speak of.  Energy is rounded down to a unit.                *)
(***************************************************************************)
EXTENDS GateInputs

CONSTANTS
  RecentWindow, SlowRequired, ShortRequired, \* sessions that a check looks at
  Prices                                     \* per unit of energy; may be negative

ASSUME ReportAssumption ==
  /\ {RecentWindow, SlowRequired, ShortRequired} \subseteq Nat \ {0} /\ Prices \subseteq Int
  /\ SlowRequired <= RecentWindow /\ MinSessions <= SlowRequired + 1

-----------------------------------------------------------------------------
(* Settings that are switched on and can do nothing.                       *)

\* Mutant of ConfigProblems: the inverter's limit is thought to read the grid meter.
ConfigProblemsOneMeter(opts) ==
  {p \in {"surplus", "load_limit", "inverter_limit", "windows", "departure"} :
     CASE p = "surplus"        -> opts.mode /\ "grid" \notin opts.sensors
       [] p = "load_limit"     -> opts.loadLimit > 0 /\ "grid" \notin opts.sensors
       [] p = "inverter_limit" -> opts.inverterLimit > 0 /\ "grid" \notin opts.sensors
       [] p = "windows"        -> opts.windows # {} /\ UsableWindows(opts.windows) = {}
       [] p = "departure"      -> opts.departure # None /\ opts.departureEnergy <= 0}

\* A window that does not parse is one whose ends are the same.
ConfigProblems(opts) ==
  {p \in {"surplus", "load_limit", "inverter_limit", "windows", "departure"} :
     CASE p = "surplus"        -> opts.mode /\ "grid" \notin opts.sensors
       [] p = "load_limit"     -> opts.loadLimit > 0 /\ "grid" \notin opts.sensors
       [] p = "inverter_limit" -> opts.inverterLimit > 0 /\ "load" \notin opts.sensors
       [] p = "windows"        -> opts.windows # {} /\ UsableWindows(opts.windows) = {}
       [] p = "departure"      -> opts.departure # None /\ opts.departureEnergy <= 0}

-----------------------------------------------------------------------------
(* Sessions that point at a fault, the latest first.                       *)

Recent(sessions) == SubSeq(sessions, 1, Min({RecentWindow, Len(sessions)}))

ChargingSlower(sessions, best) ==
  LET recent == Recent(sessions)
      slow == {i \in DOMAIN recent : /\ SessionAverage(recent[i]) # None
                                     /\ SessionAverage(recent[i]) * 100 < best * 70}
  IN  best \notin {None, 0} /\ Cardinality(slow) >= SlowRequired

\* Mutant of RepeatedlyShort: too few sessions are short if those there are are.
RepeatedlyShortEager(sessions, typical) ==
  /\ typical \notin {None, 0}
  /\ \E i \in 1..Min({ShortRequired, Len(sessions)}) : sessions[i].energy * 100 < typical * 40

RepeatedlyShort(sessions, typical) ==
  /\ typical \notin {None, 0}
  /\ Len(sessions) >= ShortRequired
  /\ \A i \in 1..ShortRequired : sessions[i].energy * 100 < typical * 40

\* The median of the sessions that can be trusted, the upper one of two.
TypicalEnergy(sessions) ==
  LET rated == {i \in DOMAIN sessions : SessionAverage(sessions[i]) # None}
      half == Cardinality(rated) \div 2
      upTo(e) == Cardinality({i \in rated : sessions[i].energy <= e})
      under(e) == Cardinality({i \in rated : sessions[i].energy < e})
  IN  IF Cardinality(rated) < RecentWindow THEN None
      ELSE CHOOSE e \in {sessions[i].energy : i \in rated} : under(e) <= half /\ half < upTo(e)

\* The best rate is that of the chosen vehicle, the sessions are everyone's.
Anomalies(sessions, vehicle) ==
  {a \in {"slower", "short"} :
     CASE a = "slower" -> ChargingSlower(sessions, LearnedPower(sessions, vehicle))
       [] a = "short"  -> RepeatedlyShort(sessions, TypicalEnergy(sessions))}

-----------------------------------------------------------------------------
(* What a session that has just ended cost.                                *)

\* Mutant of SplitSession: the walk begins a step late.
SplitSessionLate(ended, ticks, windows) ==
  LET inside == {k \in 1..ticks : WithinWindows((ended + 1 + Day - k) % Day, windows)}
      offPeak == IF windows = {} THEN 0 ELSE Cardinality(inside)
  IN  [offPeak |-> offPeak, peak |-> ticks - offPeak]

\* Tick by tick, back from the end of a session of at most a day.
SplitSession(ended, ticks, windows) ==
  LET inside == {k \in 1..ticks : WithinWindows((ended + Day - k) % Day, windows)}
      offPeak == IF windows = {} THEN 0 ELSE Cardinality(inside)
  IN  [offPeak |-> offPeak, peak |-> ticks - offPeak]

OffPeakEnergy(energy, split) ==
  LET ticks == split.offPeak + split.peak
  IN  IF ticks <= 0 THEN 0 ELSE (energy * split.offPeak) \div ticks

SessionCost(energy, split, offPeakPrice, peakPrice) ==
  LET offPeak == OffPeakEnergy(energy, split)
  IN  IF offPeakPrice = 0 /\ peakPrice = 0 THEN None
      ELSE IF energy <= 0 THEN 0
      ELSE offPeak * offPeakPrice + (energy - offPeak) * peakPrice

-----------------------------------------------------------------------------
\* The features that do something now, with the sensors at s and the appliances as seen.
Does(s, seen) ==
  {p \in {"surplus", "load_limit", "inverter_limit", "windows", "departure"} :
     CASE p = "surplus"        -> RawSurplusOf(s, TRUE) # None
       [] p = "load_limit"     -> LoadLimitCurrent(o, s, CarDraw, Offered) # None
       [] p = "inverter_limit" -> InverterLimitCurrent(o, s, CarDraw, Offered, seen, now) # None
       [] p = "windows"        -> "offPeak" \notin o.sensors /\ OffPeakNow(o, s, Moment) # None
       [] p = "departure"      -> Planned(SightNow, TallyNow, CurveNow) = "deadline"}

\* Those that are meant to work all the time, and are switched on.
SwitchedOn ==
  {p \in {"surplus", "load_limit", "inverter_limit", "windows"} :
     CASE p = "surplus"        -> o.mode
       [] p = "load_limit"     -> o.loadLimit > 0
       [] p = "inverter_limit" -> o.inverterLimit > 0
       [] p = "windows"        -> o.windows # {} /\ "offPeak" \notin o.sensors}

\* A protection, the surplus mode or a schedule that is switched on works whenever its
\* sensor does, or is reported; and what is reported, a deadline too, does nothing
\* (config_diagnosis.py, "only cases where a feature was switched on and is guaranteed
\* to do nothing").
ProblemsAreInert ==
  LET works == Does(SensorValues, Observed(o, SensorValues, announced, on, now))
  IN  /\ ConfigProblems(o) \intersect works = {}
      /\ reading.dead = {} => SwitchedOn \subseteq works \union ConfigProblems(o)

\* A car that charges steadily is never reported, and one whose latest sessions ran at
\* less than half the rate of an earlier one is, if that was more than the unit to which
\* rates are rounded (session_anomaly.py, "a false alarm about a healthy charger costs more
\* than a missed one").
AlarmsAreEarned ==
  LET sessions == home.sessions
      average(i) == SessionAverage(sessions[i])
      rated == {i \in DOMAIN sessions : average(i) # None}
      alarms == Anomalies(sessions, home.vehicle)
      steady == /\ \A i, j \in rated : average(i) * 100 >= average(j) * 70
                /\ \A i, j \in DOMAIN sessions :
                     sessions[i].energy * 100 >= sessions[j].energy * 40
      latest == 1..SlowRequired
  IN  (\A i \in DOMAIN sessions : home.vehicle \in {None, sessions[i].vehicle}) =>
        /\ steady => alarms = {}
        /\ /\ latest \subseteq rated
           /\ \E j \in rated \ latest :
                average(j) > 1 /\ \A i \in latest : average(i) * 2 < average(j)
           => "slower" \in alarms
        /\ "short" \in alarms => \A i \in 1..ShortRequired :
             \E j \in rated : sessions[i].energy * 2 < sessions[j].energy

\* A session that ran in hours the tariff allows is billed at the off-peak price, one
\* that ran in none of them at the peak price, and any other between the two, whatever
\* their signs (session_costing.py; charge_planner.py, is_within_windows).
BilledAsAllowed ==
  o.sensors = {} => \A ticks \in 1..Day :
    LET split == SplitSession(Moment, ticks, UsableWindows(o.windows))
        energy == 2 * ticks
        allowed == {k \in 1..ticks : OffPeakNow(o, SensorValues, (Moment + Day - k) % Day) = TRUE}
    IN  \A offPeakPrice, peakPrice \in Prices :
          LET cost == SessionCost(energy, split, offPeakPrice, peakPrice)
          IN  cost # None =>
                /\ allowed = 1..ticks => cost = energy * offPeakPrice
                /\ allowed = {} => cost = energy * peakPrice
                /\ Min({offPeakPrice, peakPrice}) * energy <= cost
                /\ cost <= Max({offPeakPrice, peakPrice}) * energy
=============================================================================
