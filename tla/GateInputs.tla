------------------------------ MODULE GateInputs ------------------------------
(***************************************************************************)
(* One household around the decision layer: sensors that move with the     *)
(* house and the car, a meter that shows an appliance some time after it   *)
(* announced itself, and the part of the controller that remembers between *)
(* evaluations what its inputs looked like (solar_surplus.py): when        *)
(* appliances were announced, the battery flag, the smoothed forecast, the *)
(* energy of the session and the charge curve of the car.                  *)
(*                                                                         *)
(* Here every write succeeds at once and every poll is fresh; lost writes, *)
(* awaits and interleavings are SurplusController's.  due says that an     *)
(* evaluation was requested: it comes before anything else moves.          *)
(***************************************************************************)
EXTENDS SensorReader

CONSTANTS
  Households, \* the cases: see HouseholdType
  Vehicles,   \* the vehicles that sessions may be of
  Horizon     \* a bound: ticks that the longest behaviour lasts

SessionType == [ticks : Nat, energy : Nat, vehicle : Vehicles]

\* options, what the sensors may read, the charger's hardware, what the car draws
\* in each bucket of the energy it got, the recorded sessions (the latest first), the
\* vehicle that is chosen, the curve learnt so far, the appliances that may be
\* switched, whether the app starts charges, the time of day at which it begins, and a
\* bound: the ticks that it lasts.
HouseholdType(h) ==
  /\ {"options", "hardware", "draws", "curve", "sessions", "vehicle", "appliances", "app",
      "begin", "lasts", "readings"} \subseteq DOMAIN h
  /\ h.options \in OptionsType
  /\ h.hardware \in HardwareType /\ IsFiniteSet(h.hardware.presets)
  /\ h.draws \in [Buckets -> Nat]
  /\ h.curve \in CurveType
  /\ h.appliances \subseteq Appliances
  /\ h.app \in BOOLEAN
  /\ h.begin \in Moments
  /\ h.lasts \in 1..Horizon
  /\ h.sessions \in Seq(SessionType) /\ h.vehicle \in Vehicles \union {None}
  /\ h.readings # {}
  /\ \A r \in h.readings :
       /\ {r.house, r.sun, r.soc, r.forecast, r.curtailment, r.discharge} \subseteq Int
       /\ {r.external, r.offPeak, r.critical} \subseteq BOOLEAN
       /\ r.dead \subseteq Sensors

ASSUME HouseholdAssumption ==
  Horizon \in Nat /\ \A h \in Households : HouseholdType(h)

\* The households with their settings, made from the entry's options.
Homes == {[h EXCEPT !.options = SettingsFromEntry(@)] : h \in Households}

VARIABLES
  home,      \* the household
  reading,   \* what the rest of the house does, and which sensors are dead
  on,        \* appliances that draw power, and announce it
  metered,   \* appliances that the meters show
  since,     \* when each appliance was switched on, 0 while it is off
  now,       \* monotonic()
  charging, setpoint,  \* the charger
  due,       \* an evaluation was requested
  timers,    \* TimerState
  announced, \* ReservationTracker.announced_at
  batteryFlag, \* _battery_soc_hysteresis_enabled
  forecast,  \* _forecast_ema_surplus_w, _forecast_last_sample_ts
  session,   \* _session_active
  tally,     \* _session_energy_kwh
  sampledAt, \* _last_energy_sample_ts
  curve,     \* the charge curve of the active vehicle
  got,       \* history: energy the car got since the last departure, if there are any
  carried,   \* history: what the tally held at the last departure
  pressed    \* history: this charge was once allowed for the deadline only

inputVars == << announced, batteryFlag, forecast, session, tally, sampledAt, curve, timers >>
worldVars == << home, reading, on, metered, since, now, got, carried, pressed >>
vars == << inputVars, worldVars, charging, setpoint, due >>

InputsTypeOK ==
  /\ home \in Homes /\ home.options.low < home.options.high
  /\ reading \in home.readings
  /\ on \subseteq Appliances /\ metered \subseteq Appliances
  /\ since \in [Appliances -> 0..Horizon]
  /\ now \in 0..Horizon
  /\ charging \in BOOLEAN
  /\ setpoint \in Nat
  /\ due \in BOOLEAN
  /\ timers \in TimerState
  /\ announced \in [Appliances -> (0..now) \union {None}]
  /\ batteryFlag \in BOOLEAN \union {None}
  /\ forecast.ema \in Int \union {None} /\ forecast.at \in 0..now
  /\ session \in BOOLEAN
  /\ {tally, got, carried} \subseteq Nat
  /\ sampledAt \in (0..now) \union {None}
  /\ curve \in CurveType
  /\ pressed \in BOOLEAN

o == home.options
Moment == (home.begin + now) % Day

-----------------------------------------------------------------------------
(* The world.  The car is never behind in the meters, an appliance may be. *)

CarDraw ==
  IF charging
    THEN Min({setpoint * WattsPerAmp, home.draws[Min({got \div BucketSize, LastBucket})]})
    ELSE 0

HouseLoad(appliances) == reading.house + Watts(o, appliances)

\* A meter that counts the other way round is declared so in the options.
AsWired(name, watts) == IF name \in o.inverted THEN -watts ELSE watts

SensorValues ==
  [name \in Sensors |->
     IF name \in reading.dead THEN None
     ELSE CASE name = "grid"  -> AsWired("grid", HouseLoad(metered) - reading.sun + CarDraw)
            [] name = "load"  -> HouseLoad(metered) + CarDraw
            [] OTHER          -> reading[name]]

-----------------------------------------------------------------------------
(* What an evaluation looks at.                                            *)

\* Energy is sampled while a session of the controller's own charges.
Sampling == charging /\ session /\ sampledAt # None /\ now > sampledAt

TallyNow == IF Sampling THEN tally + CarDraw * (now - sampledAt) ELSE tally

\* The curve sample is filed under the energy with this increment in it.
CurveNow == IF Sampling THEN Sampled(curve, TallyNow, CarDraw) ELSE curve

\* Mutant of SampledAtNow: the first sample of a session is the start of them all.
SampledAtNowKept == IF charging THEN (IF sampledAt = None THEN now ELSE sampledAt) ELSE None

SampledAtNow == IF charging THEN now ELSE None

Offered == OfferedCurrents(home.hardware, o.continuous, o.ceiling, o.floor)

\* None when it is not looked at: no surplus mode or no grid reading.
RawSurplusOf(s, ready) ==
  IF o.mode /\ GridPower(o, s) # None THEN RawSurplus(o, s, CarDraw, ready) ELSE None

AvailableSurplus(s, raw) ==
  IF raw = None THEN None ELSE EffectiveSurplus(forecast, raw, Read(o, s, "forecast"), now)

\* Everything that is read from the sensors for one context, from what is
\* remembered of the announcements and of the battery.
Sight(known, flag) ==
  LET s        == SensorValues
      seen     == Observed(o, s, known, on, now)
      offered  == Offered
      cap      == ProtectionCap(o, s, CarDraw, offered, seen, now)
      ready    == BatteryReady(o, s, flag)
      raw      == RawSurplusOf(s, ready)
      offPeak  == OffPeakNow(o, s, Moment)
  IN  [announced |-> seen, flag |-> BatteryFlag(o, s, flag), cap |-> cap,
       ladder |-> {a \in offered : cap = None \/ a <= cap}, ready |-> ready, raw |-> raw,
       surplus |-> AvailableSurplus(s, raw),
       forecast |-> IF raw = None THEN forecast
                    ELSE NextForecast(forecast, raw, Read(o, s, "forecast"), now),
       external |-> ExternalAllowed(o, s),
       offPeak |-> offPeak, critical |-> CriticalPeakNow(o, s, offPeak)]

LearnedRate == LearnedPower(home.sessions, home.vehicle)

\* The plan, for a tally and a curve that may just have been sampled.
Planned(sight, energy, learnt) ==
  LET missing == Max({0, o.departureEnergy - energy})
      flat == FlatPower(CarDraw, sight.ladder, LearnedRate)
  IN  PlanCharge(sight.offPeak, sight.critical, o.departure, missing,
                 TimeNeeded(missing, energy, flat, learnt), Moment)

Context(sight, window) ==
  [charging |-> charging, current |-> setpoint, ladder |-> sight.ladder, cap |-> sight.cap,
   mode |-> o.mode, capOnly |-> o.capOnly, stayAtMin |-> o.stayAtMin,
   offPeak |-> o.chargeInOffPeak, gridSensor |-> "grid" \in o.sensors,
   surplus |-> sight.surplus, force |-> FALSE, forceCurrent |-> None, pause |-> FALSE,
   external |-> sight.external, tariff |-> TariffOf(window), battery |-> sight.ready]

Decision(sight, t) ==
  Evaluate(Context(sight, Planned(sight, TallyNow, CurveNow)), t)

SightNow == Sight(announced, batteryFlag)

\* What reading the inputs leaves behind, decided upon or not.
InputsRead(sight) == announced' = sight.announced /\ batteryFlag' = sight.flag

-----------------------------------------------------------------------------
(* The controller.                                                         *)

\* The charger and the timers after a verdict has been carried out.
Stops(v) == v.action = "STOP" /\ charging /\ (v.ownOnly => session)
Starts(v) == v.action = "START"

Stamped(v) ==
  CASE v.action = "SET" /\ v.target > setpoint -> [v.timers EXCEPT !.increase = 0]
    [] v.action = "SET" /\ v.target <= setpoint -> [v.timers EXCEPT !.decrease = 0]
    [] Starts(v) -> [v.timers EXCEPT !.increase = 0, !.decrease = 0]
    [] OTHER -> v.timers

\* A start begins a session and its tally anew, a stop leaves the tally to be read.
SessionAfter(v) ==
  /\ session' = (Starts(v) \/ (session /\ ~Stops(v)))
  /\ tally' = IF Starts(v) /\ ~session THEN 0 ELSE TallyNow
  /\ sampledAt' = CASE Stops(v) -> None
                    [] Starts(v) /\ ~session -> now
                    [] OTHER -> SampledAtNow

\* A write makes the coordinator refresh, which asks for an evaluation at once or
\* is put off to the next poll.
EvaluateOnce ==
  /\ due
  /\ LET sight == SightNow
         v == Decision(sight, timers)
     IN  /\ timers' = Stamped(v)
         /\ charging' = (Starts(v) \/ (charging /\ ~Stops(v)))
         /\ setpoint' = IF v.action \in {"SET", "START"} /\ v.target # None
                          THEN v.target ELSE setpoint
         /\ SessionAfter(v)
         /\ due' \in {FALSE, v.action \in {"SET", "START"} \/ Stops(v)}
         /\ pressed' = (charging' /\ (pressed \/ Planned(sight, TallyNow, CurveNow) = "deadline"))
         /\ InputsRead(sight)
         /\ forecast' = sight.forecast
  /\ curve' = CurveNow
  /\ UNCHANGED << home, reading, on, metered, since, now, got, carried >>

\* Mutant of DryRun: the gates get the timers themselves, not a copy.
DryRunOnTimers ==
  /\ InputsRead(SightNow)
  /\ timers' = Decision(SightNow, timers).timers
  /\ UNCHANGED << worldVars, forecast, session, tally, sampledAt, curve, charging, setpoint, due >>

\* The dry-run service: decides on a copy of the timers, and reads like the rest.
DryRun ==
  /\ InputsRead(SightNow)
  /\ UNCHANGED << worldVars, timers, forecast, session, tally, sampledAt, curve,
                  charging, setpoint, due >>

-----------------------------------------------------------------------------
(* The household.  Each change is a sensor's or a poll's, and is heard.    *)

Heard == ~due /\ due' = TRUE

ReadingChanges ==
  /\ Heard
  /\ reading' \in home.readings \ {reading}
  /\ UNCHANGED << inputVars, home, on, metered, since, now, got, carried, pressed, charging, setpoint >>

Switch(a) ==
  /\ Heard
  /\ a \in home.appliances
  /\ on' = IF a \in on THEN on \ {a} ELSE on \union {a}
  /\ since' = [since EXCEPT ![a] = IF a \in on THEN 0 ELSE now]
  /\ UNCHANGED << inputVars, home, reading, metered, now, got, carried, pressed, charging, setpoint >>

Meter ==
  /\ Heard
  /\ metered # on
  /\ metered' = on
  /\ UNCHANGED << inputVars, home, reading, on, since, now, got, carried, pressed,
                  charging, setpoint >>

\* The app starts the charge, or asks for the most it offers.
AppActs ==
  /\ Heard
  /\ home.app
  /\ charging' = TRUE
  /\ setpoint' \in {setpoint, Max(AllowedCurrents)}
  /\ << charging', setpoint' >> # << charging, setpoint >>
  /\ UNCHANGED << inputVars, worldVars >>

\* The meters catch up with an appliance before its reservation ends.
Tick ==
  /\ Heard
  /\ now < home.lasts
  /\ \A a \in on \ metered : now + 1 - since[a] < ReservationWindow
  /\ now' = now + 1
  /\ timers' = Aged(timers)
  /\ got' = CASE o.departure = None   -> 0
              [] o.departure = Moment -> CarDraw
              [] OTHER                -> got + CarDraw
  /\ carried' = IF Moment = o.departure THEN tally ELSE carried
  /\ pressed' = (pressed /\ Moment # o.departure)
  /\ UNCHANGED << home, reading, on, metered, since, announced, batteryFlag, forecast, session,
                  tally, sampledAt, curve, charging, setpoint >>

-----------------------------------------------------------------------------
Init ==
  /\ home \in Homes
  /\ reading \in home.readings
  /\ on = {} /\ metered = {} /\ since = [a \in Appliances |-> 0] /\ now = 0
  /\ charging = FALSE
  /\ setpoint \in {Min(AllowedCurrents), Max(AllowedCurrents)}
  /\ due = TRUE
  /\ timers = FreshTimers
  /\ announced = [a \in Appliances |-> None]
  /\ batteryFlag = None
  /\ forecast = [ema |-> None, at |-> 0]
  /\ session = FALSE /\ tally = 0 /\ sampledAt = None
  /\ curve = home.curve
  /\ got = 0 /\ carried = 0 /\ pressed = FALSE

Next ==
  \/ EvaluateOnce \/ DryRun \/ ReadingChanges \/ (\E a \in Appliances : Switch(a))
  \/ Meter \/ AppActs \/ Tick

InputsSpec == Init /\ [][Next]_vars

-----------------------------------------------------------------------------
(* Safety.                                                                 *)

Working(name) == name \in o.sensors /\ name \notin reading.dead

\* Once an evaluation has answered what was heard, the charge never takes the house
\* over its subscription or its inverter over its rating, though the meters lag behind
\* the appliances that announced themselves (protection_cap, ReservationTracker).  A charge
\* at no current takes nothing.
LimitsHold ==
  ~due /\ charging /\ setpoint > 0 =>
    /\ o.inverterLimit > 0 /\ Working("load") =>
         HouseLoad(on) + setpoint * WattsPerAmp <= o.inverterLimit
    /\ o.loadLimit > 0 /\ Working("grid") =>
         HouseLoad(metered) - reading.sun + setpoint * WattsPerAmp <= o.loadLimit

\* An appliance that stays on is not held against the car for longer than the window:
\* then the cap is what the meters alone leave (preemption.py, "a long-running
\* appliance does not keep renewing its own reservation").
ReservationsEnd ==
  (\A a \in on : now - since[a] >= ReservationWindow) /\ InverterCapped(o, SensorValues) =>
    SightNow.cap = ProtectionCap(o, SensorValues, CarDraw, Offered,
                              [a \in Appliances |-> None], now)

\* Asking what regulation would do changes nothing about what it will do, although the
\* question advances the battery's flag and the reservations (async_dry_run, "asking
\* the question cannot change the answer to the next real evaluation").
DryRunDecidesNothing ==
  [][DryRun => Decision(Sight(announced', batteryFlag'), timers') = Decision(SightNow, timers)]_vars

\* At a departure the car has the energy asked for, but for less than what it draws in
\* a tick and for what the tally had carried over from before the last departure
\* (plan_charge; _plan_tariff, "only what is still missing counts"), if the charger was
\* left at the current the plan assumes: a start by the tariff does not set it.
DeadlineIsMet ==
  Moment = o.departure /\ now > 0 /\ setpoint >= Max(Offered) =>
    got + carried + home.draws[0] > o.departureEnergy

\* A charge that the deadline has forced is not given up before the departure while
\* the car needs energy, if it draws no more than the plan had assumed (plan_charge).
DeadlineChargeHolds ==
  [][pressed /\ charging /\ ~charging' =>
       \/ Moment = o.departure
       \/ got + carried + home.draws[0] > o.departureEnergy
       \/ CarDraw > FlatPower(0, SightNow.ladder, LearnedRate)]_vars

\* The installation's limits narrow what the hardware offers, never to nothing, and
\* leave nothing above the ceiling but the lowest current there is, whatever the floor
\* (_apply_installation_limits).
LadderKeepsOne ==
  LET hardware == HardwareLadder(home.hardware, o.continuous)
  IN  /\ Offered \subseteq hardware
      /\ hardware # {} => Offered # {}
      /\ o.ceiling > 0 => \A a \in Offered : a <= o.ceiling \/ Offered = {Min(hardware)}
=============================================================================
