------------------------------ MODULE TariffPlan ------------------------------
(***************************************************************************)
(* Off-peak hours and the departure deadline (charge_planner.py), and what *)
(* is known of the time a charge takes (charge_curve.py).  Time of day is  *)
(* in ticks, power in watts and energy in watts times ticks; the EMA of a  *)
(* bucket is rounded down to a watt.                                       *)
(***************************************************************************)
EXTENDS CurrentLadder, Sequences

CONSTANTS
  Day,             \* ticks of a day
  SafetyMargin,    \* DEPARTURE_SAFETY_MARGIN_MIN, in ticks
  BucketSize,      \* BUCKET_KWH, in energy units
  LastBucket,      \* a bound: the highest bucket that can be reached
  MinSamplePower,  \* MIN_SAMPLE_KW
  MinSamples,      \* MIN_BUCKET_SAMPLES
  MinSessions, MinSessionTicks, MinSessionEnergy

ASSUME PlanAssumption ==
  /\ {Day, BucketSize, MinSamples, MinSessionTicks} \subseteq Nat \ {0}
  /\ {SafetyMargin, LastBucket, MinSamplePower, MinSessions, MinSessionEnergy} \subseteq Nat

Moments == 0..(Day - 1)

-----------------------------------------------------------------------------
(* The clock.                                                              *)

\* A window whose ends are the same is skipped like a malformed one.
UsableWindows(windows) == {w \in windows : w.from # w.to}

\* Windows may wrap past midnight.
WithinWindows(moment, windows) ==
  \E w \in windows :
    IF w.from < w.to THEN w.from <= moment /\ moment < w.to
                     ELSE moment >= w.from \/ moment < w.to

\* To the next occurrence of the target: a whole day when it is now.
TicksUntil(moment, target) ==
  IF target > moment THEN target - moment ELSE target + Day - moment

TicksNeeded(energy, power) == IF energy <= 0 \/ power <= 0 THEN 0 ELSE energy \div power

-----------------------------------------------------------------------------
(* The charge curve of a car: the power it draws after so much energy.     *)

Buckets == 0..LastBucket
CurveType == [Buckets -> [power : Nat, count : 0..MinSamples]]
EmptyCurve == [b \in Buckets |-> [power |-> 0, count |-> 0]]

\* A sample count stops at MinSamples, the only value it is compared with.
Sampled(curve, delivered, power) ==
  LET b == Min({delivered \div BucketSize, LastBucket})
      seen == curve[b]
  IN  IF power < MinSamplePower THEN curve
      ELSE [curve EXCEPT ![b] =
              [power |-> IF seen.count = 0 THEN power
                         ELSE seen.power + ((power - seen.power) \div 5),
               count |-> Min({seen.count + 1, MinSamples})]]

Learnt(curve) == {b \in Buckets : curve[b].count >= MinSamples}

\* The nearest learnt bucket at or below; None when there is none.
PowerAt(curve, bucket) ==
  LET below == {b \in Learnt(curve) : b <= bucket}
  IN  IF below = {} THEN None ELSE curve[Max(below)].power

Overlap(bucket, from, to) ==
  Max({0, Min({to, (bucket + 1) * BucketSize}) - Max({from, bucket * BucketSize})})

\* The time to add energy, integrated over the buckets in sixtieths of a tick;
\* None beyond what the curve covers.
TicksFor(curve, from, added) ==
  LET crossed == {b \in Buckets : Overlap(b, from, from + added) > 0}
      known == \A b \in crossed : PowerAt(curve, b) \notin {None, 0}
      sixtieths(b) == (Overlap(b, from, from + added) * 60) \div PowerAt(curve, b)
      spent == UNION {{b} \X (1..sixtieths(b)) : b \in crossed}
  IN  IF added <= 0 THEN 0
      ELSE IF Learnt(curve) = {} \/ ~known THEN None
      ELSE IF from + added > (Max(Learnt(curve)) + 1) * BucketSize THEN None
      ELSE (Cardinality(spent) + 30) \div 60

-----------------------------------------------------------------------------
(* The rate a car has demonstrated.                                        *)

\* The mean power of a session; None when it was too short or too small.
SessionAverage(s) ==
  IF s.ticks < MinSessionTicks \/ s.energy < MinSessionEnergy THEN None
  ELSE s.energy \div s.ticks

\* Of the sessions of one vehicle, or of all of them if none is chosen.
LearnedPower(sessions, vehicle) ==
  LET rated == {i \in DOMAIN sessions :
                  /\ vehicle # None => sessions[i].vehicle = vehicle
                  /\ SessionAverage(sessions[i]) # None}
  IN  IF Cardinality(rated) < MinSessions \/ rated = {} THEN None
      ELSE (Max({SessionAverage(sessions[i]) : i \in rated}) * 95) \div 100

PlanningPower(theoretical, learned) ==
  IF learned = None \/ learned <= 0 THEN theoretical
  ELSE IF theoretical <= 0 THEN learned
  ELSE Min({theoretical, learned})

\* The measurement while there is one, else the rating as the car corrected it.
FlatPower(measured, ladder, learned) ==
  IF measured > 0 THEN measured
  ELSE IF ladder = {} THEN 0
  ELSE PlanningPower(Max(ladder) * WattsPerAmp, learned)

\* The time to plan with: the curve may only lengthen what the flat rate says.
TimeNeeded(energy, delivered, flat, curve) ==
  LET tapered == TicksFor(curve, delivered, energy)
  IN  Max({TicksNeeded(energy, flat), IF tapered = None THEN 0 ELSE tapered})

-----------------------------------------------------------------------------
(* The plan.                                                               *)

ChargeWindows == {"unrestricted", "off_peak", "critical_peak", "deadline", "waiting"}

\* Mutant of PlanCharge: no safety margin, and too late by a tick.
PlanChargeTooLate(offPeak, critical, departure, energy, needed, moment) ==
  IF offPeak = None THEN "unrestricted"
  ELSE IF offPeak THEN "off_peak"
  ELSE IF critical THEN "critical_peak"
  ELSE IF departure = None \/ energy <= 0 THEN "waiting"
  ELSE IF needed > 0 /\ TicksUntil(moment, departure) < needed THEN "deadline"
  ELSE "waiting"

PlanCharge(offPeak, critical, departure, energy, needed, moment) ==
  CASE offPeak = None                        -> "unrestricted"
    [] offPeak = TRUE                        -> "off_peak"
    [] offPeak = FALSE /\ critical           -> "critical_peak"
    [] offPeak = FALSE /\ ~critical          ->
         IF /\ departure # None
            /\ energy > 0
            /\ needed > 0
            /\ TicksUntil(moment, departure) <= needed + SafetyMargin
           THEN "deadline" ELSE "waiting"

\* What the gates are told of the plan.
TariffOf(window) ==
  CASE window = "unrestricted"              -> "off"
    [] window \in {"off_peak", "deadline"}  -> "allowed"
    [] OTHER                                -> "forbidden"
=============================================================================
