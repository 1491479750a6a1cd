----------------------------- MODULE ChargeGates -----------------------------
(***************************************************************************)
(* The decision layer of the charger's regulation (charge_gates.py).  One  *)
(* evaluation looks at an immutable context and at the regulation's timers *)
(* and yields one verdict: the first gate of the list Gates that decides.  *)
(*                                                                         *)
(* A timestamp ts of the code, only ever used as "now - ts < delay", is    *)
(* represented by its age now - ts, which stops growing at the delay it is *)
(* compared with.  A stamp that was never set ("None", or 0.0 for the two  *)
(* cooldowns) behaves as one that is old enough, so it is a full age; the  *)
(* two candidates are the exception, where None means "not counting".      *)
(*                                                                         *)
(* The ramp step is 1 and the minimum run time and the session limits are  *)
(* 0, "off", as const.py fixes them; decision reasons are left out, but    *)
(* for the gate that decided.                                              *)
(***************************************************************************)
EXTENDS Integers, FiniteSetsExt

CONSTANTS
  None,            \* Python's None: no cap, no reading, no candidate, no target
  WattsPerAmp,     \* line voltage times phases: what one ampere draws
  StartThreshold,  \* surplus, in watts, that a start needs
  StopThreshold,   \* surplus, in watts, at which a charge is to stop
  StartDelay, StopDelay,        \* how long a start or a stop is a candidate
  UpCooldown, DownCooldown,     \* least time between two adjustments
  ProtectionHold,  \* no climbing for this long after a cap forced a reduction
  RestartLock      \* no surplus start for this long after a surplus stop

ASSUME NoneAssumption == None \notin Int
ASSUME ThresholdAssumption ==
  /\ WattsPerAmp \in Nat \ {0}
  /\ StartThreshold \in Int /\ StopThreshold \in Int
  /\ StopThreshold <= StartThreshold     \* clamped by settings_from_entry
ASSUME DelayAssumption ==
  {StartDelay, StopDelay, UpCooldown, DownCooldown, ProtectionHold, RestartLock}
    \subseteq Nat

-----------------------------------------------------------------------------
(* The timers.                                                             *)

TimerState ==
  [start : (0..StartDelay) \union {None}, stop : (0..StopDelay) \union {None},
   increase : 0..UpCooldown, decrease : 0..DownCooldown,
   reduce : 0..ProtectionHold, surplusStop : 0..RestartLock]

FreshTimers ==
  [start |-> None, stop |-> None, increase |-> UpCooldown, decrease |-> DownCooldown,
   reduce |-> ProtectionHold, surplusStop |-> RestartLock]

\* An age one tick later, no further than what it is compared with.
Older(age, limit) == IF age = None \/ age >= limit THEN age ELSE age + 1

\* A stamp that was taken `elapsed` ticks ago, compared with `limit`.
StampedAgo(elapsed, limit) == IF elapsed > limit THEN limit ELSE elapsed

Aged(t) ==
  [start       |-> Older(t.start, StartDelay),
   stop        |-> Older(t.stop, StopDelay),
   increase    |-> Older(t.increase, UpCooldown),
   decrease    |-> Older(t.decrease, DownCooldown),
   reduce      |-> Older(t.reduce, ProtectionHold),
   surplusStop |-> Older(t.surplusStop, RestartLock)]

NoCandidates(t) == [t EXCEPT !.start = None, !.stop = None]

-----------------------------------------------------------------------------
(* The arithmetic the gates and the context rest on.                       *)

\* The highest offered current the power sustains, rounding down; 0 if none.
CurrentSupportedBy(power, ladder) ==
  LET affordable == {a \in ladder : power > 0 /\ a <= power \div WattsPerAmp}
  IN  IF affordable = {} THEN 0 ELSE Max(affordable)

\* Mutants of RampTowards: a step of one ampere, offered or not; and no ramp at all.
RampByAmpere(current, target, ladder) ==
  IF target > current THEN current + 1 ELSE current - 1
RampAtOnce(current, target, ladder) == target

\* One step of the ladder from one offered current towards another.
RampTowards(current, target, ladder) ==
  IF target > current THEN Min({a \in ladder : a > current})
                      ELSE Max({a \in ladder : a < current})

\* The setpoint to regulate from; the charger may report one not offered now.
Current(c) == IF c.current \in c.ladder THEN c.current ELSE Min(c.ladder)

MaxSupported(c) == CurrentSupportedBy(c.surplus, c.ladder)

\* The current surplus regulation aims at, None when it cannot be paid for.
TargetCurrent(c) ==
  IF MaxSupported(c) >= Min(c.ladder) THEN MaxSupported(c)
  ELSE IF c.stayAtMin THEN Min(c.ladder) ELSE None

-----------------------------------------------------------------------------
(* What a gate answers: an action, the current it wants written, whether   *)
(* only the controller's own session may be stopped, and the timers.       *)

Actions == {"IDLE", "HOLD", "START", "STOP", "SET", "FORCE"}

Say(action, target, t) ==
  [action |-> action, target |-> target, ownOnly |-> FALSE, timers |-> t]

Idle(t)      == Say("IDLE", None, t)
Hold(t)      == Say("HOLD", None, t)
Stop(t)      == Say("STOP", None, t)
StartAt(a, t) == Say("START", a, t)
SetTo(a, t)  == Say("SET", a, t)

\* Mutant of NoCurrents: a cap that leaves no current does not stop the charge.
NoCurrentsIdles(c, t) == Idle(t)

\* A cap left no current at all, or the charger offers none.
NoCurrents(c, t) == IF c.cap # None THEN Stop(t) ELSE Idle(t)

\* Mutant of ExternalChargeBlocked: a charge started elsewhere is left alone.
ExternalChargeSpared(c, t) == [Stop(t) EXCEPT !.ownOnly = TRUE]

ExternalChargeBlocked(c, t) == Stop(t)

\* Mutant of ForceCharge: the requested current as it is, whatever the ladder.
ForceChargeUnclamped(c, t) ==
  Say("FORCE", IF c.forceCurrent = None THEN Max(c.ladder) ELSE c.forceCurrent, t)

\* As fast as the narrowed ladder allows, up to the request when there is one.
ForceCharge(c, t) ==
  LET affordable == {a \in c.ladder : c.forceCurrent = None \/ a <= c.forceCurrent}
  IN  Say("FORCE", IF affordable = {} THEN Min(c.ladder) ELSE Max(affordable), t)

ProtectionReduce(c, t) == SetTo(c.cap, [t EXCEPT !.reduce = 0])

Tariff(c, t) == IF c.tariff = "forbidden" THEN Stop(t) ELSE StartAt(None, t)

Pause(c, t) == [Stop(t) EXCEPT !.ownOnly = TRUE]

\* Climb one step towards the top of the ladder; reductions are not done here.
ClimbToMax(c, t, cooled) ==
  IF Current(c) >= Max(c.ladder) \/ ~cooled \/ t.reduce < ProtectionHold
    THEN Hold(t)
    ELSE SetTo(RampTowards(Current(c), Max(c.ladder), c.ladder), t)

\* Mutant of CapOnly: the candidates of surplus regulation are kept.
CapOnlyKeepsCandidates(c, t) ==
  IF ~c.charging THEN StartAt(Min(c.ladder), t)
  ELSE ClimbToMax(c, t, t.increase >= UpCooldown)

CapOnly(c, t) ==
  IF ~c.charging THEN StartAt(Min(c.ladder), NoCandidates(t))
  ELSE ClimbToMax(c, NoCandidates(t), t.increase >= UpCooldown)

ModeDisabled(c, t) == Idle(t)

\* The off-peak tier of surplus mode: no up-cooldown here.
BatteryFloorTariffFallback(c, t) ==
  IF ~c.charging THEN StartAt(Min(c.ladder), NoCandidates(t))
  ELSE ClimbToMax(c, NoCandidates(t), TRUE)

GridSensor(c, t) == IF c.gridSensor THEN Idle(NoCandidates(t)) ELSE Idle(t)

\* The stops surplus regulation causes by itself: these arm the restart lock.
SurplusStop(c) ==
  /\ c.battery
  /\ \/ c.surplus <= StopThreshold
     \/ ~c.stayAtMin /\ MaxSupported(c) < Min(c.ladder)

MustStop(c) == ~c.battery \/ SurplusStop(c)

\* A stop waits for its delay, counted from the first evaluation that wanted it.
StopWhenDue(c, t) ==
  IF t.stop = None THEN Hold([t EXCEPT !.stop = 0])
  ELSE IF t.stop < StopDelay THEN Hold(t)
  ELSE Stop([t EXCEPT !.stop = None,
                      !.surplusStop = IF SurplusStop(c) THEN 0 ELSE @])

\* Walk the setpoint one step towards what the surplus pays for.
Regulate(c, t) ==
  LET target == TargetCurrent(c)
      rising == target > Current(c)
      cooled == IF rising THEN t.increase >= UpCooldown ELSE t.decrease >= DownCooldown
  IN  IF \/ target = None
         \/ target = Current(c)
         \/ ~cooled
         \/ rising /\ t.reduce < ProtectionHold
        THEN Hold(t)
        ELSE SetTo(RampTowards(Current(c), target, c.ladder), t)

\* Mutant of Charging: a start candidate outlives the charge.
ChargingKeepsStart(c, t) ==
  IF MustStop(c) THEN StopWhenDue(c, t)
  ELSE Regulate(c, [t EXCEPT !.stop = None])

Charging(c, t) ==
  IF MustStop(c) THEN StopWhenDue(c, [t EXCEPT !.start = None])
  ELSE Regulate(c, NoCandidates(t))

StartWorthy(c) ==
  /\ c.battery
  /\ c.surplus >= StartThreshold
  /\ c.stayAtMin \/ MaxSupported(c) >= Min(c.ladder)

\* Mutant of Start: the start delay is served during the restart lock.
StartDelayDuringLock(c, t) ==
  IF ~StartWorthy(c) THEN Idle(NoCandidates(t))
  ELSE IF t.start = None THEN Idle([t EXCEPT !.start = 0, !.stop = None])
  ELSE IF t.start < StartDelay \/ t.surplusStop < RestartLock
    THEN Idle([t EXCEPT !.stop = None])
  ELSE StartAt(Min(c.ladder), NoCandidates(t))

Start(c, t) ==
  IF ~StartWorthy(c) \/ t.surplusStop < RestartLock THEN Idle(NoCandidates(t))
  ELSE IF t.start = None THEN Idle([t EXCEPT !.start = 0, !.stop = None])
  ELSE IF t.start < StartDelay THEN Idle([t EXCEPT !.stop = None])
  ELSE StartAt(Min(c.ladder), NoCandidates(t))

-----------------------------------------------------------------------------
(* The order.  It is data, as in the code: the first gate that decides ends *)
(* the cycle, and a gate that declines leaves the timers alone.            *)

\* Mutant of Gates: a force charge outranks the external veto.
GatesForceFirst ==
  << "no_currents", "force_charge", "external_charge_blocked", "protection_reduce",
     "tariff", "pause", "cap_only", "mode_disabled", "battery_floor_tariff_fallback",
     "grid_sensor", "charging", "start" >>

Gates ==
  << "no_currents", "external_charge_blocked", "force_charge", "protection_reduce",
     "tariff", "pause", "cap_only", "mode_disabled", "battery_floor_tariff_fallback",
     "grid_sensor", "charging", "start" >>

Decides(gate, c) ==
  CASE gate = "no_currents"             -> c.ladder = {}
    [] gate = "external_charge_blocked" -> ~c.external
    [] gate = "force_charge"            -> c.force
    [] gate = "protection_reduce"       -> c.cap # None /\ c.current # None /\ c.current > c.cap
    [] gate = "tariff"                  -> /\ ~c.mode
                                           /\ \/ c.tariff = "forbidden"
                                              \/ c.tariff = "allowed" /\ ~c.charging
    [] gate = "pause"                   -> c.pause /\ (c.mode \/ c.capOnly)
    [] gate = "cap_only"                -> ~c.mode /\ c.capOnly /\ c.cap # None
    [] gate = "mode_disabled"           -> ~c.mode
    [] gate = "battery_floor_tariff_fallback" ->
                                           /\ c.mode /\ c.tariff = "allowed"
                                           /\ ~c.battery \/ c.offPeak
    [] gate = "grid_sensor"             -> ~c.gridSensor \/ c.surplus = None
    [] gate = "charging"                -> c.charging
    [] gate = "start"                   -> TRUE

Answer(gate, c, t) ==
  CASE gate = "no_currents"             -> NoCurrents(c, t)
    [] gate = "external_charge_blocked" -> ExternalChargeBlocked(c, t)
    [] gate = "force_charge"            -> ForceCharge(c, t)
    [] gate = "protection_reduce"       -> ProtectionReduce(c, t)
    [] gate = "tariff"                  -> Tariff(c, t)
    [] gate = "pause"                   -> Pause(c, t)
    [] gate = "cap_only"                -> CapOnly(c, t)
    [] gate = "mode_disabled"           -> ModeDisabled(c, t)
    [] gate = "battery_floor_tariff_fallback" -> BatteryFloorTariffFallback(c, t)
    [] gate = "grid_sensor"             -> GridSensor(c, t)
    [] gate = "charging"                -> Charging(c, t)
    [] gate = "start"                   -> Start(c, t)

FirstDeciding(c) ==
  CHOOSE i \in DOMAIN Gates :
    Decides(Gates[i], c) /\ \A j \in 1..(i - 1) : ~Decides(Gates[j], c)

DecidedBy(c) == Gates[FirstDeciding(c)]

Evaluate(c, t) == Answer(DecidedBy(c), c, t)
=============================================================================
