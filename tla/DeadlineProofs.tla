----------------------------- MODULE DeadlineProofs -----------------------------
(***************************************************************************)
(* When a departure finds the energy that was asked for.  The plan has     *)
(* neither reserve nor memory: it only compares the time that is left with *)
(* the time it needs, at every evaluation anew, so a deadline is kept only *)
(* while nothing hinders the charge and the car keeps the rate the plan    *)
(* counts on.  NothingHinders says what the sensors and the options must   *)
(* leave alone, RateIsKept what the car must do: conditions on the whole   *)
(* behaviour, [] in the theorems.  TimeSuffices is about its beginning:    *)
(* the first departure can be reached at all.                              *)
(***************************************************************************)
EXTENDS GateInputsProofs

\* What the car draws while it charges, and what the plan counts on while it does not.
Rate == Min({setpoint * WattsPerAmp, home.draws[0]})
Assumed == FlatPower(0, SightNow.ladder, LearnedRate)
Left == TicksUntil(Moment, o.departure)

\* No surplus mode, no cap, no veto and no critical peak, and the hours can be read.
NothingHinders ==
  /\ ~o.mode
  /\ SightNow.cap = None /\ SightNow.external
  /\ SightNow.offPeak # None /\ ~SightNow.critical

\* A car of one rate, which is no less than the plan assumes.
RateIsKept ==
  /\ \A b \in Buckets : home.draws[b] = home.draws[0]
  /\ Assumed \in 1..Rate

\* The first departure leaves time enough; every other one is a day away.
TimeSuffices ==
  o.departure # None => o.departureEnergy < Rate * (TicksUntil(home.begin, o.departure) + 1)

\* The plan's curve is no slower than its flat rate, as when there is none.
CurveAgrees ==
  LET missing == Max({0, o.departureEnergy - TallyNow})
      flat == FlatPower(CarDraw, SightNow.ladder, LearnedRate)
  IN  TimeNeeded(missing, TallyNow, flat, CurveNow) = TicksNeeded(missing, flat)

-----------------------------------------------------------------------------
(* The inductive invariant.                                                *)

\* The time to the departure that is being charged for: none when it is now.
Remaining == IF Moment = o.departure /\ now > 0 THEN 0 ELSE Left

\* The charge is sampled up to now once it was evaluated, and to the last tick before.
SampledInStep == sampledAt # None => sampledAt = now \/ (due /\ sampledAt + 1 = now)

\* Nothing is tallied that the car did not get.
TallyIsCovered == TallyNow <= got + carried

\* What is missing can still be charged in the time that remains; and once an evaluation
\* has answered, it is being charged or can wait for a tick.
InTime ==
  o.departure # None =>
    /\ o.departureEnergy - (got + carried) < Rate * (Remaining + 1)
    /\ ~due => charging \/ o.departureEnergy - tally < Rate * Left

\* A charge that the deadline forced is still forced, unless it needs less than a tick.
StillForced ==
  pressed =>
    /\ charging /\ o.departure # None
    /\ Rate > Assumed \/ o.departureEnergy - TallyNow < Rate
         \/ Remaining <= (o.departureEnergy - TallyNow) \div Rate + SafetyMargin

DeadlineInv ==
  /\ InputsTypeOK /\ SampledInStep /\ setpoint <= Max(AllowedCurrents)
  /\ o.departure # None => TallyIsCovered

-----------------------------------------------------------------------------
(* The plan.                                                               *)

\* A finite set of buckets, each with so many parts of its own, has finitely many parts.
LEMMA PartsAreFinite ==
  ASSUME NEW S, IsFiniteSet(S), NEW n \in [S -> Nat]
  PROVE  IsFiniteSet(UNION {{b} \X (1..n[b]) : b \in S})
<1> DEFINE part(b) == {b} \X (1..n[b])
           parts == {part(b) : b \in S}
           f == [b \in S |-> part(b)]
<1>1. ASSUME NEW b \in S PROVE IsFiniteSet(part(b))
  <2>1. n[b] \in Int /\ 1 \in Int
    OBVIOUS
  <2>2. IsFiniteSet(1..n[b]) /\ IsFiniteSet({b})
    BY <2>1, FS_Interval, FS_Singleton
  <2>3. QED
    BY <2>2, FS_Product
<1>2. IsFiniteSet(parts)
  <2>1. f \in Surjection(S, parts)
    BY DEF Surjection
  <2>2. QED
    <3> HIDE DEF f, parts
    <3>1. QED BY <2>1, FS_Surjection
<1>3. \A T \in parts : IsFiniteSet(T)
  BY <1>1
<1> HIDE DEF parts
<1>4. IsFiniteSet(UNION parts)
  BY <1>2, <1>3, FS_UNION
<1>5. QED
  BY <1>4 DEF parts

\* The part of a charge that falls into a bucket.
LEMMA OverlapIsTyped ==
  ASSUME NEW b \in Nat, NEW from \in Nat, NEW to \in Nat
  PROVE  Overlap(b, from, to) \in Nat
<1> DEFINE first == b * BucketSize
           end == (b + 1) * BucketSize
           high == Min({to, end})
           low == Max({from, first})
<1>1. first \in Int /\ end \in Int
  BY PlanAssumption
<1> HIDE DEF first, end
<1>2. high \in Int /\ low \in Int
  <2>1. from \in Int /\ to \in Int
    OBVIOUS
  <2>2. /\ high = IF to <= end THEN to ELSE end
        /\ low = IF from >= first THEN from ELSE first
    BY <1>1, <2>1, PairMaxMin
  <2> HIDE DEF high, low
  <2>3. QED BY <1>1, <2>1, <2>2
<1>3. high - low \in Int /\ 0 \in Int
  BY <1>2
<1>4. Overlap(b, from, to) = Max({0, high - low})
  BY DEF Overlap, first, end
<1> HIDE DEF high, low
<1> DEFINE d == high - low
<1>5. d \in Int
  BY <1>3
<1> HIDE DEF d
<1>6. Max({0, d}) = IF 0 >= d THEN 0 ELSE d
  BY <1>5, PairMaxMin
<1>7. Overlap(b, from, to) = Max({0, d})
  BY <1>4 DEF d
<1>8. QED
  BY <1>5, <1>6, <1>7

\* What the curve says of a time is a time, or nothing (ChargeCurve.minutes_for).
LEMMA CurveTimeIsTyped ==
  ASSUME NEW known \in CurveType, NEW from \in Nat, NEW added \in Nat
  PROVE  TicksFor(known, from, added) \in Nat \union {None}
<1> DEFINE crossed == {b \in Buckets : Overlap(b, from, from + added) > 0}
           sixtieths(b) == (Overlap(b, from, from + added) * 60) \div PowerAt(known, b)
           spent == UNION {{b} \X (1..sixtieths(b)) : b \in crossed}
           time == (Cardinality(spent) + 30) \div 60
<1>1. Buckets \subseteq Nat /\ IsFiniteSet(Buckets)
  <2>1. 0 \in Int /\ LastBucket \in Int
    BY PlanAssumption
  <2>2. QED BY <2>1, FS_Interval DEF Buckets
<1>2. ASSUME NEW b \in crossed, PowerAt(known, b) \notin {None, 0}
      PROVE  sixtieths(b) \in Nat
  <2> DEFINE below == {k \in Learnt(known) : k <= b}
             parts == Overlap(b, from, from + added)
             power == PowerAt(known, b)
  <2>1. PowerAt(known, b) = IF below = {} THEN None ELSE known[Max(below)].power
    BY DEF PowerAt
  <2>2. below # {}
    BY <1>2, <2>1
  <2>3. below \in SUBSET Nat /\ IsFiniteSet(below) /\ below \subseteq Buckets
    <3>1. below \subseteq Buckets
      BY DEF Learnt
    <3>2. QED BY <1>1, <3>1, FS_Subset
  <2>4. Max(below) \in Buckets
    <3> HIDE DEF below
    <3>1. QED BY <2>2, <2>3, FiniteMaxMin
  <2>5. known[Max(below)].power \in Nat
    BY <2>4 DEF CurveType
  <2>6. power \in Nat \ {0}
    BY <1>2, <2>1, <2>2, <2>5
  <2>7. parts \in Nat
    <3>1. b \in Nat /\ from + added \in Nat
      BY <1>1
    <3>2. QED BY <3>1, OverlapIsTyped
  <2>8. sixtieths(b) = (parts * 60) \div power
    OBVIOUS
  <2> HIDE DEF parts, power
  <2>9. parts * 60 \in Nat
    BY <2>7
  <2>10. QED
    BY <2>6, <2>8, <2>9, Quotients
<1>3. ASSUME \A b \in crossed : PowerAt(known, b) \notin {None, 0}
      PROVE  time \in Nat
  <2>1. IsFiniteSet(crossed)
    BY <1>1, FS_Subset
  <2>2. \A b \in crossed : sixtieths(b) \in Nat
    BY <1>2, <1>3
  <2> DEFINE n == [b \in crossed |-> sixtieths(b)]
  <2>3. IsFiniteSet(spent)
    <3> HIDE DEF crossed, sixtieths
    <3>1. n \in [crossed -> Nat]
      BY <2>2
    <3>2. spent = UNION {{b} \X (1..n[b]) : b \in crossed}
      OBVIOUS
    <3> HIDE DEF n, spent
    <3>3. QED BY <2>1, <3>1, <3>2, PartsAreFinite
  <2> HIDE DEF spent
  <2>4. Cardinality(spent) \in Nat
    BY <2>3, FS_CardinalityType
  <2>5. QED
    BY <2>4
<1>4. TicksFor(known, from, added) \in {0, None}
        \/ /\ \A b \in crossed : PowerAt(known, b) \notin {None, 0}
           /\ TicksFor(known, from, added) = time
  BY DEF TicksFor
<1> HIDE DEF time
<1>5. QED
  BY <1>3, <1>4

\* So the curve may only lengthen the time that is planned with (_plan_tariff).
LEMMA CurveOnlyLengthens ==
  ASSUME NEW known \in CurveType, NEW from \in Nat, NEW added \in Nat, NEW flat \in Nat \ {0}
  PROVE  /\ TimeNeeded(added, from, flat, known) \in Int
         /\ TicksNeeded(added, flat) \in Nat
         /\ TimeNeeded(added, from, flat, known) >= TicksNeeded(added, flat)
<1> DEFINE tapered == IF TicksFor(known, from, added) = None THEN 0
                      ELSE TicksFor(known, from, added)
           even == TicksNeeded(added, flat)
<1>1. tapered \in Int
  BY CurveTimeIsTyped
<1>2. even \in Nat
  BY Quotients DEF TicksNeeded
<1>3. TimeNeeded(added, from, flat, known) = Max({even, tapered})
  BY DEF TimeNeeded
<1> HIDE DEF tapered, even
<1>4. Max({even, tapered}) = IF even >= tapered THEN even ELSE tapered
  BY <1>1, <1>2, PairMaxMin
<1>5. even \in Nat /\ TimeNeeded(added, from, flat, known) \in Int
        /\ TimeNeeded(added, from, flat, known) >= even
  BY <1>1, <1>2, <1>3, <1>4
<1>6. QED
  BY <1>5 DEF even

-----------------------------------------------------------------------------
(* What the plan rests on.                                                 *)

\* The energy a car got falls into a bucket (_bucket_index).
LEMMA BucketExists ==
  ASSUME NEW energy \in Nat
  PROVE  Min({energy \div BucketSize, LastBucket}) \in Buckets
<1> DEFINE full == energy \div BucketSize
<1>1. full \in Nat /\ LastBucket \in Nat
  BY PlanAssumption, Quotients
<1> HIDE DEF full
<1>2. full \in Int /\ LastBucket \in Int
  BY <1>1
<1>3. Min({full, LastBucket}) = IF full <= LastBucket THEN full ELSE LastBucket
  BY <1>2, PairMaxMin
<1>4. QED
  BY <1>1, <1>3 DEF full, Buckets

\* Under the conditions, what the car draws is the rate, or nothing, and the plan counts on
\* no more than it.
LEMMA RatesAreKnown ==
  ASSUME InputsTypeOK, RateIsKept
  PROVE  /\ Rate \in Nat \ {0} /\ Assumed \in Nat \ {0} /\ Assumed <= Rate
         /\ home.draws[0] \in Nat /\ Rate <= home.draws[0]
         /\ CarDraw = IF charging THEN Rate ELSE 0
         /\ FlatPower(CarDraw, SightNow.ladder, LearnedRate)
              = IF charging THEN Rate ELSE Assumed
         /\ SightNow.ladder # {}
<1> DEFINE bucket == Min({got \div BucketSize, LastBucket})
           offered == setpoint * WattsPerAmp
           taken == home.draws[0]
<1>1. bucket \in Buckets /\ 0 \in Buckets
  <2>1. bucket \in Buckets
    BY BucketExists DEF InputsTypeOK
  <2>2. QED
    BY <2>1, PlanAssumption DEF Buckets
<1>2. taken \in Nat /\ home.draws[bucket] = taken
  BY <1>1, HomeIsHousehold DEF HouseholdType, InputsTypeOK, RateIsKept
<1>3. offered \in Nat
  BY ThresholdAssumption DEF InputsTypeOK
<1>4. CarDraw = IF charging THEN Rate ELSE 0
  BY <1>2 DEF CarDraw, Rate
<1>5. Rate = Min({offered, taken})
  BY DEF Rate
<1> HIDE DEF offered, taken, bucket
<1>6. Rate \in Nat /\ Rate <= taken
  <2>1. Min({offered, taken}) = IF offered <= taken THEN offered ELSE taken
    BY <1>2, <1>3, PairMaxMin
  <2>2. QED BY <1>2, <1>3, <1>5, <2>1
<1>7. Assumed \in 1..Rate
  BY DEF RateIsKept
<1>8. Rate \in Nat \ {0} /\ Assumed \in Nat \ {0} /\ Assumed <= Rate
  BY <1>6, <1>7
<1>9. FlatPower(CarDraw, SightNow.ladder, LearnedRate) = IF charging THEN Rate ELSE Assumed
  BY <1>4, <1>8 DEF FlatPower, Assumed
<1>10. SightNow.ladder # {}
  BY <1>8 DEF Assumed, FlatPower
<1>11. QED
  BY <1>2, <1>4, <1>6, <1>8, <1>9, <1>10 DEF taken

\* The time of day, and the time that is left of it.
LEMMA MomentsAreTyped ==
  ASSUME InputsTypeOK
  PROVE  /\ Moment \in Moments /\ home.begin \in Moments
         /\ \A m, d \in Moments : TicksUntil(m, d) \in 1..Day
         /\ o.departure \in Moments \union {None} /\ o.departureEnergy \in Nat
<1>1. home.begin \in Moments /\ o.departure \in Moments \union {None} /\ o.departureEnergy \in Nat
  BY HomeIsHousehold DEF InputsTypeOK, HouseholdType, OptionsType
<1>2. Day \in Nat \ {0}
  BY PlanAssumption
<1>3. \A m, d \in Moments : TicksUntil(m, d) \in 1..Day
  BY <1>2 DEF Moments, TicksUntil
<1>4. home.begin + now \in Nat
  <2>1. now \in Nat
    BY HouseholdAssumption DEF InputsTypeOK
  <2>2. QED BY <1>1, <1>2, <2>1 DEF Moments
<1>5. Moment \in Moments
  <2> DEFINE t == home.begin + now
  <2>1. t \in Nat /\ Moment = t % Day
    BY <1>4 DEF Moment
  <2> HIDE DEF t
  <2>2. QED BY <1>2, <2>1 DEF Moments
<1>6. QED
  BY <1>1, <1>3, <1>5

\* What the plan decides, for a tariff that can be read and no critical peak (plan_charge).
LEMMA PlanDecides ==
  ASSUME InputsTypeOK, NothingHinders, RateIsKept
  PROVE  LET window  == Planned(SightNow, TallyNow, CurveNow)
             missing == o.departureEnergy - TallyNow
             flat    == IF charging THEN Rate ELSE Assumed
         IN  /\ window \in {"off_peak", "deadline", "waiting"}
             /\ window = "waiting" /\ o.departure # None /\ missing > 0 =>
                  \/ missing < flat
                  \/ Left > (missing \div flat) + SafetyMargin
             /\ window = "deadline" =>
                  /\ o.departure # None /\ missing > 0
                  /\ CurveAgrees => Left <= (missing \div flat) + SafetyMargin
<1> DEFINE missing == o.departureEnergy - TallyNow
           energy == Max({0, missing})
           flat == FlatPower(CarDraw, SightNow.ladder, LearnedRate)
           needed == TimeNeeded(energy, TallyNow, flat, CurveNow)
           even == TicksNeeded(energy, flat)
           window == Planned(SightNow, TallyNow, CurveNow)
           left == TicksUntil(Moment, o.departure)
<1>1. window = PlanCharge(SightNow.offPeak, SightNow.critical, o.departure, energy, needed,
                          Moment)
  BY DEF Planned
<1>2. SightNow.offPeak \in BOOLEAN
  <2> DEFINE s == SensorValues
             value == Read(o, s, "offPeak")
  <2>1. SightNow.offPeak = OffPeakNow(o, s, Moment)
    BY DEF SightNow, Sight
  <2>2. Answered(o, s, "offPeak", None) \in BOOLEAN \union {None}
    BY DEF Answered
  <2>3. WithinWindows(Moment, UsableWindows(o.windows)) \in BOOLEAN
    BY DEF WithinWindows
  <2> HIDE DEF s
  <2>4. SightNow.offPeak \in BOOLEAN \union {None}
    BY <2>1, <2>2, <2>3 DEF OffPeakNow
  <2>5. QED
    BY <2>4 DEF NothingHinders
<1>3. ~SightNow.critical
  BY DEF NothingHinders
<1>4. /\ window \in {"off_peak", "deadline", "waiting"}
      /\ window = "deadline" => /\ o.departure # None /\ energy > 0 /\ needed > 0
                                /\ left <= needed + SafetyMargin
      /\ window = "waiting" => ~(/\ o.departure # None /\ energy > 0 /\ needed > 0
                                 /\ left <= needed + SafetyMargin)
  <2> DEFINE offPeak == SightNow.offPeak
             critical == SightNow.critical
  <2> HIDE DEF energy, needed, window, offPeak, critical
  <2>1. offPeak \in BOOLEAN /\ ~critical /\ offPeak # None
    BY <1>2, <1>3, AnswerAssumption DEF offPeak, critical
  <2>2. window = PlanCharge(offPeak, critical, o.departure, energy, needed, Moment)
    BY <1>1 DEF offPeak, critical
  <2>3. CASE offPeak = TRUE
    BY <2>1, <2>2, <2>3 DEF PlanCharge
  <2>4. CASE offPeak = FALSE
    <3>1. window = IF /\ o.departure # None /\ energy > 0 /\ needed > 0
                      /\ left <= needed + SafetyMargin
                     THEN "deadline" ELSE "waiting"
      BY <2>1, <2>2, <2>4 DEF PlanCharge
    <3>2. QED BY <3>1
  <2>5. QED BY <2>1, <2>3, <2>4
<1>5. flat = IF charging THEN Rate ELSE Assumed
  BY RatesAreKnown
<1>6. flat \in Nat \ {0}
  BY <1>5, RatesAreKnown
<1>7. TallyNow \in Nat /\ CurveNow \in CurveType
  BY SamplesAreTyped
<1>8. missing \in Int
  BY <1>7, MomentsAreTyped
<1>9. energy = IF missing > 0 THEN missing ELSE 0
  <2> HIDE DEF missing
  <2>1. Max({0, missing}) = IF 0 >= missing THEN 0 ELSE missing
    BY <1>8, PairMaxMin
  <2>2. QED BY <1>8, <2>1
<1>10. energy \in Nat
  BY <1>8, <1>9
<1>11. needed \in Int /\ even \in Nat /\ needed >= even
  <2> HIDE DEF energy, flat
  <2>1. QED BY <1>6, <1>7, <1>10, CurveOnlyLengthens
<1>12. missing > 0 => even = missing \div flat
  BY <1>6, <1>8, <1>9 DEF TicksNeeded
<1>13. CurveAgrees => needed = even
  BY DEF CurveAgrees
<1>14. missing > 0 /\ even = 0 => missing < flat
  <2> HIDE DEF missing, flat
  <2>1. missing > 0 => missing \in Nat
    BY <1>8
  <2>2. ASSUME missing \in Nat, missing \div flat = 0 PROVE missing < flat
    BY <1>6, <2>2
  <2>3. QED BY <1>12, <2>1, <2>2
<1>15. o.departure # None => left \in Int /\ left = Left
  BY MomentsAreTyped DEF Left
<1>16. SafetyMargin \in Nat
  BY PlanAssumption
<1> HIDE DEF missing, energy, flat, needed, even, window, left
<1>17. window = "waiting" /\ o.departure # None /\ missing > 0 =>
         \/ missing < flat
         \/ Left > (missing \div flat) + SafetyMargin
  BY <1>4, <1>8, <1>9, <1>11, <1>12, <1>14, <1>15, <1>16
<1>18. window = "deadline" =>
         /\ o.departure # None /\ missing > 0
         /\ CurveAgrees => Left <= (missing \div flat) + SafetyMargin
  BY <1>4, <1>8, <1>9, <1>12, <1>13, <1>15
<1>19. QED
  BY <1>4, <1>5, <1>17, <1>18 DEF missing, window

-----------------------------------------------------------------------------
(* The verdict, without surplus mode, cap or veto.                         *)

\* Then the tariff alone decides: an idle charge starts as the charger is set, a charge
\* outside the hours ends, whoever started it (_gate_tariff, _gate_mode_disabled).
LEMMA TariffDecides ==
  ASSUME NEW c, NEW t,
         c.ladder # {}, c.external, ~c.force, c.cap = None, ~c.mode, ~c.pause,
         c.tariff \in {"allowed", "forbidden"}, c.charging \in BOOLEAN
  PROVE  LET v == Evaluate(c, t)
         IN  /\ v.target = None
             /\ c.tariff = "forbidden" => v.action = "STOP" /\ ~v.ownOnly
             /\ c.tariff = "allowed" /\ ~c.charging => v.action = "START"
             /\ c.tariff = "allowed" /\ c.charging => v.action = "IDLE"
<1> DEFINE i == FirstDeciding(c)
           v == Evaluate(c, t)
<1>1. v = Answer(Gates[i], c, t)
  BY DEF Evaluate, DecidedBy
<1>2. i \in 1..12 /\ Decides(Gates[i], c) /\ \A j \in 1..(i - 1) : ~Decides(Gates[j], c)
  BY FirstDecidingExists
<1>3. /\ ~Decides(Gates[1], c) /\ ~Decides(Gates[2], c) /\ ~Decides(Gates[3], c)
      /\ ~Decides(Gates[4], c) /\ ~Decides(Gates[6], c) /\ ~Decides(Gates[7], c)
      /\ Decides(Gates[5], c) <=> c.tariff = "forbidden" \/ ~c.charging
      /\ Decides(Gates[8], c)
  BY TheOrder DEF Decides
<1> HIDE DEF i
<1>4. i = IF c.tariff = "forbidden" \/ ~c.charging THEN 5 ELSE 8
  BY <1>2, <1>3
<1>5. CASE i = 5
  <2>1. v = Tariff(c, t)
    BY <1>1, <1>5, TheOrder, TheAnswers
  <2>2. QED
    BY <1>4, <1>5, <2>1 DEF Tariff, Stop, StartAt, Say
<1>6. CASE i = 8
  <2>1. v = ModeDisabled(c, t)
    BY <1>1, <1>6, TheOrder, TheAnswers
  <2>2. QED
    BY <1>4, <1>6, <2>1 DEF ModeDisabled, Idle, Say
<1>7. QED
  BY <1>4, <1>5, <1>6

\* So an evaluation charges exactly when the plan does not wait, leaves the setpoint, and
\* samples up to now; what it tallies begins anew or is what it has read.
LEMMA PlanIsCarriedOut ==
  ASSUME InputsTypeOK, NothingHinders, RateIsKept, EvaluateOnce
  PROVE  LET window == Planned(SightNow, TallyNow, CurveNow)
         IN  /\ charging' = (window # "waiting")
             /\ setpoint' = setpoint
             /\ tally' \in {0, TallyNow} /\ (~charging' => tally' = TallyNow)
             /\ charging => tally' = TallyNow
             /\ sampledAt' \in {now, None}
             /\ pressed' = (charging' /\ (pressed \/ window = "deadline"))
<1> DEFINE window == Planned(SightNow, TallyNow, CurveNow)
           c == Context(SightNow, window)
           v == Decision(SightNow, timers)
<1>1. v = Evaluate(c, timers)
  BY DEF Decision
<1>2. window \in {"off_peak", "deadline", "waiting"}
  BY PlanDecides
<1>3. c.tariff = IF window = "waiting" THEN "forbidden" ELSE "allowed"
  <2>1. c.tariff = TariffOf(window)
    BY DEF Context
  <2> HIDE DEF window
  <2>2. QED BY <1>2, <2>1 DEF TariffOf
<1>4. /\ c.ladder # {} /\ c.external /\ ~c.force /\ c.cap = None /\ ~c.mode /\ ~c.pause
      /\ c.charging = charging /\ charging \in BOOLEAN
  BY RatesAreKnown DEF Context, NothingHinders, InputsTypeOK
<1> HIDE DEF c
<1>5. /\ v.target = None
      /\ window = "waiting" => v.action = "STOP" /\ ~v.ownOnly
      /\ window # "waiting" /\ ~charging => v.action = "START"
      /\ window # "waiting" /\ charging => v.action = "IDLE"
  BY <1>1, <1>3, <1>4, TariffDecides
<1>6. /\ charging' = (Starts(v) \/ (charging /\ ~Stops(v)))
      /\ setpoint' = IF v.action \in {"SET", "START"} /\ v.target # None
                       THEN v.target ELSE setpoint
      /\ SessionAfter(v)
      /\ pressed' = (charging' /\ (pressed \/ window = "deadline"))
  BY DEF EvaluateOnce
<1> HIDE DEF v, window
<1>7. charging' = (window # "waiting")
  BY <1>4, <1>5, <1>6 DEF Starts, Stops
<1>8. setpoint' = setpoint
  BY <1>5, <1>6
<1>9. tally' = IF Starts(v) /\ ~session THEN 0 ELSE TallyNow
  BY <1>6 DEF SessionAfter
<1>10. sampledAt' \in {now, None}
  BY <1>6 DEF SessionAfter, SampledAtNow
<1>11. charging \/ ~charging' => ~Starts(v)
  BY <1>4, <1>5, <1>7 DEF Starts
<1>12. QED
  BY <1>6, <1>7, <1>8, <1>9, <1>10, <1>11 DEF window

-----------------------------------------------------------------------------
(* Arithmetic of rates and of the clock.                                   *)

\* What a time at some rate does not exhaust is less than what a longer one at a higher
\* rate charges.
LEMMA WaitingIsCheap ==
  ASSUME NEW rate \in Nat, NEW flat \in Nat \ {0}, flat <= rate, NEW left \in Nat \ {0},
         NEW missing \in Int,
         missing <= 0 \/ missing < flat \/ left > missing \div flat
  PROVE  missing < rate * left
<1>1. flat * left \in Nat /\ rate * left \in Nat /\ flat * left <= rate * left
  BY ProductGrows
<1>2. flat * left >= flat
  <2>1. 1 * flat <= left * flat
    BY ProductGrows
  <2>2. left * flat = flat * left
    OBVIOUS
  <2>3. QED BY <2>1, <2>2
<1>3. CASE missing <= 0 \/ missing < flat
  BY <1>1, <1>2, <1>3
<1>4. CASE missing > 0 /\ left > missing \div flat
  <2> DEFINE q == missing \div flat
  <2>1. q \in Nat /\ missing < q * flat + flat
    BY <1>4
  <2> HIDE DEF q
  <2>2. (q + 1) * flat <= left * flat
    <3>1. q + 1 \in Nat /\ q + 1 <= left
      BY <1>4, <2>1 DEF q
    <3>2. QED BY <3>1, ProductGrows
  <2>3. (q + 1) * flat = q * flat + flat /\ left * flat = flat * left /\ q * flat \in Nat
    BY <2>1
  <2>4. QED
    BY <1>1, <2>1, <2>2, <2>3
<1>5. QED
  BY <1>3, <1>4

\* The next moment.
LEMMA NextMoment ==
  ASSUME NEW t \in Nat, NEW d \in Nat \ {0}
  PROVE  (t + 1) % d = IF t % d = d - 1 THEN 0 ELSE (t % d) + 1
<1> DEFINE q == t \div d
           r == t % d
           Q == (t + 1) \div d
           R == (t + 1) % d
<1>1. q \in Nat /\ r \in 0..(d - 1) /\ t = d * q + r
  OBVIOUS
<1>2. Q \in Nat /\ R \in 0..(d - 1) /\ t + 1 = d * Q + R
  <2> DEFINE u == t + 1
  <2>1. u \in Nat
    OBVIOUS
  <2> HIDE DEF u
  <2>2. u \div d \in Nat /\ u % d \in 0..(d - 1) /\ u = d * (u \div d) + (u % d)
    BY <2>1
  <2>3. QED BY <2>2 DEF u
<1> HIDE DEF q, r, Q, R
<1>3. d * Q + R = d * q + r + 1 /\ d * Q \in Nat /\ d * q \in Nat
  BY <1>1, <1>2
<1>4. CASE Q < q
  <2>1. (Q + 1) * d <= q * d
    <3>1. Q + 1 \in Nat /\ Q + 1 <= q
      BY <1>1, <1>2, <1>4
    <3>2. QED BY <1>1, <3>1, ProductGrows
  <2>2. (Q + 1) * d = d * Q + d /\ q * d = d * q
    BY <1>1, <1>2
  <2>3. QED
    BY <1>1, <1>2, <1>3, <2>1, <2>2
<1>5. CASE Q = q
  <2>1. R = r + 1
    BY <1>1, <1>2, <1>3, <1>5
  <2>2. QED
    BY <1>1, <1>2, <2>1 DEF r, R
<1>6. CASE Q = q + 1
  <2>1. d * Q = d * q + d
    BY <1>1, <1>6
  <2>2. R + d = r + 1
    BY <1>1, <1>2, <1>3, <2>1
  <2>3. QED
    BY <1>1, <1>2, <2>2 DEF r, R
<1>7. CASE Q > q + 1
  <2>1. (q + 2) * d <= Q * d
    <3>1. q + 2 \in Nat /\ q + 2 <= Q
      BY <1>1, <1>2, <1>7
    <3>2. QED BY <1>2, <3>1, ProductGrows
  <2>2. (q + 2) * d = d * q + 2 * d /\ Q * d = d * Q
    BY <1>1, <1>2
  <2>3. QED
    BY <1>1, <1>2, <1>3, <2>1, <2>2
<1>8. QED
  BY <1>1, <1>2, <1>4, <1>5, <1>6, <1>7

\* A tick takes one off the time that is left, a whole day of it at a departure.
LEMMA TimeRunsOut ==
  ASSUME InputsTypeOK, Tick, o.departure # None
  PROVE  /\ Left \in 1..Day /\ Remaining' = Left - 1 /\ o' = o
         /\ Moment = o.departure => Left = Day
<1>1. Moment \in Moments /\ o.departure \in Moments /\ Left \in 1..Day /\ Day \in Nat \ {0}
  BY MomentsAreTyped, PlanAssumption DEF Left
<1>2. o' = o /\ now' = now + 1 /\ home' = home /\ now \in Nat /\ home.begin \in Nat
  BY MomentsAreTyped, HouseholdAssumption DEF Tick, o, InputsTypeOK, Moments
<1>3. Moment' = IF Moment = Day - 1 THEN 0 ELSE Moment + 1
  <2> DEFINE t == home.begin + now
  <2>1. t \in Nat /\ Moment = t % Day
    BY <1>2 DEF Moment
  <2>2. Moment' = (t + 1) % Day
    <3>1. home.begin + (now + 1) = t + 1
      BY <1>2
    <3>2. Moment' = (home.begin + (now + 1)) % Day
      BY <1>2 DEF Moment
    <3>3. QED BY <3>1, <3>2
  <2> HIDE DEF t
  <2>3. QED
    BY <1>1, <2>1, <2>2, NextMoment
<1>4. now' > 0
  BY <1>2
<1> DEFINE dep == o.departure
           m == Moment
           mm == Moment'
<1>5. Left = IF dep > m THEN dep - m ELSE dep + Day - m
  BY DEF Left, TicksUntil
<1>6. Remaining' = IF mm = dep THEN 0 ELSE TicksUntil(mm, dep)
  BY <1>2, <1>4 DEF Remaining, Left
<1>7. mm = IF m = Day - 1 THEN 0 ELSE m + 1
  BY <1>3
<1>8. m \in Moments /\ dep \in Moments
  BY <1>1
<1> HIDE DEF dep, m, mm
<1>9. Remaining' = Left - 1
  BY <1>1, <1>5, <1>6, <1>7, <1>8 DEF Moments, TicksUntil
<1>10. m = dep => Left = Day
  BY <1>1, <1>5, <1>8 DEF Moments
<1>11. QED
  BY <1>1, <1>2, <1>9, <1>10 DEF m, dep

-----------------------------------------------------------------------------
(* The steps.                                                              *)

\* Between evaluations nothing is sampled.
LEMMA SampledByNow ==
  ASSUME InputsTypeOK, SampledInStep, ~due
  PROVE  TallyNow = tally
<1>1. sampledAt # None => sampledAt = now
  BY DEF SampledInStep
<1>2. ~(now > now)
  BY HouseholdAssumption DEF InputsTypeOK
<1>3. ~Sampling
  BY <1>1, <1>2 DEF Sampling
<1>4. QED
  BY <1>3 DEF TallyNow

\* A current that does not fall draws no less.
LEMMA RateNeverFalls ==
  ASSUME InputsTypeOK, RateIsKept, home' = home, setpoint' \in Nat, setpoint <= setpoint'
  PROVE  Rate' \in Nat \ {0} /\ Rate <= Rate'
<1> DEFINE low == setpoint
           high == setpoint'
           d == home.draws[0]
           a == low * WattsPerAmp
           b == high * WattsPerAmp
<1>1. Rate \in Nat \ {0} /\ d \in Nat
  BY RatesAreKnown
<1>2. low \in Nat /\ high \in Nat /\ low <= high /\ WattsPerAmp \in Nat
  BY ThresholdAssumption DEF InputsTypeOK
<1>3. Rate = Min({a, d}) /\ Rate' = Min({b, d})
  BY DEF Rate
<1> HIDE DEF low, high, d
<1>4. a <= b
  BY <1>2, ProductGrows
<1>5. a \in Int /\ b \in Int /\ d \in Int
  BY <1>1, <1>2
<1> HIDE DEF a, b
<1>6. Min({a, d}) = IF a <= d THEN a ELSE d
  BY <1>5, PairMaxMin
<1>7. Min({b, d}) = IF b <= d THEN b ELSE d
  BY <1>5, PairMaxMin
<1>8. Rate <= Rate' /\ Rate' \in Int
  BY <1>1, <1>3, <1>4, <1>5, <1>6, <1>7
<1>9. QED
  BY <1>1, <1>8

\* What a tick charges, and what the tally will make of it at the next evaluation.
LEMMA TickCharges ==
  ASSUME InputsTypeOK, RateIsKept, SampledInStep, Tick, o.departure # None
  PROVE  LET drawn == IF charging THEN Rate ELSE 0
         IN  /\ Rate' = Rate /\ TallyNow = tally
             /\ TallyNow' \in {tally, tally + drawn} /\ (~session => TallyNow' = tally)
             /\ got' = IF Moment = o.departure THEN drawn ELSE got + drawn
             /\ carried' = IF Moment = o.departure THEN tally ELSE carried
<1>1. /\ home' = home /\ setpoint' = setpoint /\ charging' = charging /\ session' = session
      /\ tally' = tally /\ sampledAt' = sampledAt /\ now' = now + 1 /\ ~due /\ o' = o
  BY DEF Tick, Heard, o
<1>2. Rate' = Rate
  BY <1>1 DEF Rate
<1>3. TallyNow = tally
  BY <1>1, SampledByNow
<1>4. CarDraw = IF charging THEN Rate ELSE 0
  BY RatesAreKnown
<1>5. /\ got' = IF Moment = o.departure THEN CarDraw ELSE got + CarDraw
      /\ carried' = IF Moment = o.departure THEN tally ELSE carried
  BY DEF Tick
<1>6. CarDraw' = IF charging THEN Rate ELSE 0
  <2>1. got' \in Nat
    BY TickTyped DEF InputsTypeOK
  <2> DEFINE bucket == Min({got' \div BucketSize, LastBucket})
  <2>2. bucket \in Buckets
    BY <2>1, BucketExists
  <2>3. home.draws[bucket] = home.draws[0]
    BY <2>2 DEF RateIsKept
  <2>4. CarDraw' = IF charging THEN Min({setpoint * WattsPerAmp, home.draws[bucket]}) ELSE 0
    BY <1>1 DEF CarDraw
  <2>5. QED
    BY <2>3, <2>4 DEF Rate
<1> DEFINE drawn == IF charging THEN Rate ELSE 0
<1>7. drawn \in Nat
  BY RatesAreKnown
<1>8. TallyNow' \in {tally, tally + drawn} /\ (~session => TallyNow' = tally)
  <2>1. CASE ~Sampling'
    BY <1>1, <2>1 DEF TallyNow, Sampling
  <2>2. CASE Sampling'
    <3>1. sampledAt = now /\ session /\ now \in Nat
      BY <1>1, <2>2, HouseholdAssumption DEF SampledInStep, Sampling, InputsTypeOK
    <3>2. TallyNow' = tally' + CarDraw' * (now' - sampledAt')
      BY <2>2 DEF TallyNow
    <3>3. now' - sampledAt' = 1 /\ CarDraw' = drawn /\ tally' = tally
      BY <1>1, <1>6, <3>1
    <3> HIDE DEF drawn
    <3>4. QED
      BY <1>7, <3>1, <3>2, <3>3
  <2>3. QED BY <2>1, <2>2
<1>9. QED
  BY <1>2, <1>3, <1>4, <1>5, <1>8

\* What the household does between two ticks leaves the books alone.
Undisturbed ==
  /\ ~due /\ due'
  /\ UNCHANGED << home, now, got, carried, tally, sampledAt, session, pressed >>
  /\ setpoint <= setpoint' /\ (charging => charging')

LEMMA HouseholdDisturbsNothing ==
  ASSUME InputsTypeOK, setpoint <= Max(AllowedCurrents),
         ReadingChanges \/ (\E a \in Appliances : Switch(a)) \/ Meter \/ AppActs
  PROVE  Undisturbed /\ setpoint' <= Max(AllowedCurrents)
<1>1. setpoint \in Nat /\ Max(AllowedCurrents) \in Nat
  BY AllowedAssumption, FiniteMaxMin DEF InputsTypeOK
<1>2. CASE ReadingChanges
  BY <1>1, <1>2 DEF ReadingChanges, Heard, Undisturbed, inputVars
<1>3. ASSUME NEW a \in Appliances, Switch(a)
      PROVE  Undisturbed /\ setpoint' <= Max(AllowedCurrents)
  BY <1>1, <1>3 DEF Switch, Heard, Undisturbed, inputVars
<1>4. CASE Meter
  BY <1>1, <1>4 DEF Meter, Heard, Undisturbed, inputVars
<1>5. CASE AppActs
  BY <1>1, <1>5 DEF AppActs, Heard, Undisturbed, inputVars, worldVars
<1>6. QED
  BY <1>2, <1>3, <1>4, <1>5

\* What a dry run and a stutter leave as it is.
Untouched ==
  UNCHANGED << home, now, got, carried, tally, sampledAt, session, pressed, setpoint, charging,
               due >>

LEMMA OthersTouchNothing ==
  ASSUME DryRun \/ UNCHANGED vars
  PROVE  Untouched /\ TallyNow' = TallyNow /\ Rate' = Rate /\ o' = o /\ Left' = Left
           /\ Remaining' = Remaining
<1>1. Untouched
  BY DEF DryRun, Untouched, worldVars, inputVars, vars
<1>2. QED
  BY <1>1 DEF Untouched, TallyNow, Sampling, CarDraw, Rate, o, Left, Remaining, Moment

LEMMA UndisturbedTally ==
  ASSUME InputsTypeOK, SampledInStep, Undisturbed
  PROVE  /\ TallyNow = tally /\ TallyNow' = tally /\ o' = o /\ Left' = Left
         /\ Remaining' = Remaining
<1>1. TallyNow = tally
  BY SampledByNow DEF Undisturbed
<1>2. ~Sampling'
  <2>1. sampledAt # None => sampledAt = now
    BY DEF SampledInStep, Undisturbed
  <2>2. ~(now > now)
    BY HouseholdAssumption DEF InputsTypeOK
  <2>3. QED
    BY <2>1, <2>2 DEF Sampling, Undisturbed
<1>3. QED
  BY <1>1, <1>2 DEF Undisturbed, TallyNow, o, Left, Remaining, Moment

-----------------------------------------------------------------------------
(* The books are kept.                                                     *)

\* An evaluation leaves the rate, the clock and what the car got.
LEMMA EvaluationOnlyDecides ==
  ASSUME InputsTypeOK, NothingHinders, RateIsKept, EvaluateOnce
  PROVE  /\ Rate' = Rate /\ o' = o /\ Left' = Left /\ Remaining' = Remaining
         /\ got' = got /\ carried' = carried /\ now' = now /\ home' = home
         /\ TallyNow' = tally'
<1>1. home' = home /\ now' = now /\ got' = got /\ carried' = carried
  BY DEF EvaluateOnce
<1>2. setpoint' = setpoint /\ sampledAt' \in {now, None}
  BY PlanIsCarriedOut
<1>3. ~Sampling'
  <2>1. ~(now > now)
    BY HouseholdAssumption DEF InputsTypeOK
  <2>2. QED
    BY <1>1, <1>2, <2>1 DEF Sampling
<1>4. QED
  BY <1>1, <1>2, <1>3 DEF TallyNow, Rate, o, Left, Remaining, Moment

LEMMA BooksAreKept ==
  ASSUME DeadlineInv, NothingHinders, RateIsKept, [Next]_vars
  PROVE  DeadlineInv'
<1>1. InputsTypeOK /\ InputsTypeOK'
  BY InputsTypedStep DEF DeadlineInv
<1>2. now \in Nat /\ tally \in Nat /\ got \in Nat /\ carried \in Nat /\ sampledAt \in Nat \union {None}
  BY <1>1, HouseholdAssumption DEF InputsTypeOK
<1>3. /\ SampledInStep /\ setpoint <= Max(AllowedCurrents)
      /\ o.departure # None => TallyNow <= got + carried
  BY DEF DeadlineInv, TallyIsCovered
<1>4. TallyNow \in Nat
  BY <1>1, SamplesAreTyped
<1>5. CASE EvaluateOnce
  <2>1. setpoint' = setpoint /\ tally' \in {0, TallyNow} /\ sampledAt' \in {now, None}
    BY <1>1, <1>5, PlanIsCarriedOut
  <2>2. o' = o /\ got' = got /\ carried' = carried /\ now' = now /\ TallyNow' = tally'
    BY <1>1, <1>5, EvaluationOnlyDecides
  <2>3. SampledInStep'
    BY <2>1, <2>2 DEF SampledInStep
  <2>4. o.departure # None => TallyNow' <= got' + carried'
    BY <1>2, <1>3, <1>4, <2>1, <2>2
  <2>5. QED
    BY <1>1, <1>3, <2>1, <2>2, <2>3, <2>4 DEF DeadlineInv, TallyIsCovered
<1>6. CASE DryRun \/ UNCHANGED vars
  BY <1>1, <1>3, <1>6, OthersTouchNothing
     DEF DeadlineInv, TallyIsCovered, Untouched, SampledInStep
<1>7. CASE ReadingChanges \/ (\E a \in Appliances : Switch(a)) \/ Meter \/ AppActs
  <2>1. Undisturbed /\ setpoint' <= Max(AllowedCurrents)
    BY <1>1, <1>3, <1>7, HouseholdDisturbsNothing
  <2>2. TallyNow' = TallyNow /\ o' = o
    BY <1>1, <1>3, <2>1, UndisturbedTally
  <2>3. SampledInStep'
    BY <1>3, <2>1 DEF SampledInStep, Undisturbed
  <2>4. QED
    BY <1>1, <1>3, <2>1, <2>2, <2>3 DEF DeadlineInv, TallyIsCovered, Undisturbed
<1>8. CASE Tick
  <2>1. /\ ~due /\ due' /\ now' = now + 1 /\ sampledAt' = sampledAt /\ setpoint' = setpoint
        /\ home' = home
    BY <1>8 DEF Tick, Heard
  <2>2. SampledInStep'
    BY <1>3, <2>1 DEF SampledInStep
  <2>3. o' = o
    BY <2>1 DEF o
  <2>4. ASSUME o.departure # None PROVE TallyNow' <= got' + carried'
    <3> DEFINE drawn == IF charging THEN Rate ELSE 0
    <3>1. /\ TallyNow = tally /\ TallyNow' \in {tally, tally + drawn}
          /\ got' = IF Moment = o.departure THEN drawn ELSE got + drawn
          /\ carried' = IF Moment = o.departure THEN tally ELSE carried
      BY <1>1, <1>3, <1>8, <2>4, TickCharges
    <3>2. drawn \in Nat
      BY <1>1, RatesAreKnown
    <3> HIDE DEF drawn
    <3>3. QED
      BY <1>2, <1>3, <2>4, <3>1, <3>2
  <2>5. QED
    BY <1>1, <1>3, <2>1, <2>2, <2>3, <2>4 DEF DeadlineInv, TallyIsCovered
<1>9. QED
  BY <1>5, <1>6, <1>7, <1>8 DEF Next

LEMMA RateGrows ==
  ASSUME DeadlineInv, NothingHinders, RateIsKept, [Next]_vars
  PROVE  Rate \in Nat \ {0} /\ Rate' \in Nat \ {0} /\ Rate <= Rate' /\ home' = home
<1>1. InputsTypeOK /\ SampledInStep /\ setpoint <= Max(AllowedCurrents)
  BY DEF DeadlineInv
<1>2. Rate \in Nat \ {0}
  BY <1>1, RatesAreKnown
<1>3. CASE EvaluateOnce
  BY <1>1, <1>2, <1>3, EvaluationOnlyDecides
<1>4. CASE DryRun \/ UNCHANGED vars
  BY <1>2, <1>4, OthersTouchNothing DEF Untouched
<1>5. CASE ReadingChanges \/ (\E a \in Appliances : Switch(a)) \/ Meter \/ AppActs
  <2>1. home' = home /\ setpoint <= setpoint'
    BY <1>1, <1>5, HouseholdDisturbsNothing DEF Undisturbed
  <2>2. setpoint' \in Nat
    BY InputsTypedStep, <1>1 DEF InputsTypeOK
  <2>3. QED
    BY <1>1, <1>2, <2>1, <2>2, RateNeverFalls
<1>6. CASE Tick
  <2>1. home' = home /\ setpoint' = setpoint
    BY <1>6 DEF Tick
  <2>2. QED BY <1>2, <2>1 DEF Rate
<1>7. QED
  BY <1>3, <1>4, <1>5, <1>6 DEF Next

-----------------------------------------------------------------------------
(* A departure finds the energy.                                           *)

\* What time to spare there is grows with the rate.
LEMMA SpareGrows ==
  ASSUME NEW r \in Nat, NEW q \in Nat, r <= q, NEW t \in Nat, NEW u \in Nat, t <= u
  PROVE  r * t <= q * u /\ r * t \in Nat /\ q * u \in Nat
<1>1. r * t <= q * t /\ t * q <= u * q
  BY ProductGrows
<1>2. t * q = q * t /\ u * q = q * u /\ r * t \in Nat /\ q * t \in Nat /\ q * u \in Nat
  OBVIOUS
<1>3. QED
  BY <1>1, <1>2

\* What a tick charges is what a tick less of time would.
LEMMA TickOfRate ==
  ASSUME NEW r \in Nat, NEW t \in Nat
  PROVE  r * (t + 1) = r * t + r /\ r * t \in Nat
OBVIOUS

LEMMA SufficesStill ==
  ASSUME DeadlineInv, NothingHinders, RateIsKept, TimeSuffices, [Next]_vars
  PROVE  TimeSuffices'
<1>1. Rate \in Nat /\ Rate' \in Nat /\ Rate <= Rate' /\ o' = o /\ home' = home
  BY RateGrows DEF o
<1>2. ASSUME o.departure # None
      PROVE  o.departureEnergy < Rate' * (TicksUntil(home.begin, o.departure) + 1)
  <2> DEFINE t == TicksUntil(home.begin, o.departure) + 1
             r == Rate
             q == Rate'
  <2>1. t \in Nat /\ o.departureEnergy \in Nat
    <3>1. TicksUntil(home.begin, o.departure) \in 1..Day /\ Day \in Nat
      BY <1>2, MomentsAreTyped, PlanAssumption DEF DeadlineInv
    <3>2. QED BY <3>1, MomentsAreTyped DEF DeadlineInv
  <2>2. o.departureEnergy < r * t
    BY <1>2 DEF TimeSuffices
  <2>3. r \in Nat /\ q \in Nat /\ r <= q
    BY <1>1
  <2> HIDE DEF r, q, t
  <2>4. r * t <= q * t /\ r * t \in Nat /\ q * t \in Nat
    BY <2>1, <2>3, SpareGrows
  <2>5. o.departureEnergy < q * t
    BY <2>1, <2>2, <2>4
  <2>6. QED BY <2>5 DEF q, t
<1>3. QED
  BY <1>1, <1>2 DEF TimeSuffices

\* What a plan leaves waiting, an evaluation that does not charge has left to be charged.
LEMMA WaitingLeavesTime ==
  ASSUME DeadlineInv, NothingHinders, RateIsKept, EvaluateOnce, ~charging', o.departure # None
  PROVE  o.departureEnergy - tally' < Rate' * Left'
<1>1. InputsTypeOK
  BY DEF DeadlineInv
<1> DEFINE window == Planned(SightNow, TallyNow, CurveNow)
           missing == o.departureEnergy - TallyNow
           flat == IF charging THEN Rate ELSE Assumed
<1>2. window = "waiting" /\ tally' = TallyNow
  BY <1>1, PlanIsCarriedOut
<1>3. missing > 0 => missing < flat \/ Left > (missing \div flat) + SafetyMargin
  BY <1>1, <1>2, PlanDecides
<1>4. flat \in Nat \ {0} /\ Rate \in Nat /\ flat <= Rate
  BY <1>1, RatesAreKnown
<1>5. Left \in Nat \ {0}
  <2>1. Left \in 1..Day /\ Day \in Nat
    BY <1>1, MomentsAreTyped, PlanAssumption DEF Left
  <2>2. QED BY <2>1
<1>6. missing \in Int
  BY <1>1, SamplesAreTyped, MomentsAreTyped
<1>7. SafetyMargin \in Nat
  BY PlanAssumption
<1>8. Rate' = Rate /\ Left' = Left
  BY <1>1, EvaluationOnlyDecides
<1>9. o.departureEnergy - tally' = missing
  BY <1>2
<1> HIDE DEF missing, flat
<1>10. missing \div flat \in Int
  BY <1>4, <1>6, Quotients
<1>11. missing <= 0 \/ missing < flat \/ Left > missing \div flat
  BY <1>3, <1>5, <1>6, <1>7, <1>10
<1>12. missing < Rate * Left
  BY <1>4, <1>5, <1>6, <1>11, WaitingIsCheap
<1>13. QED
  BY <1>8, <1>9, <1>12

\* A tick of charge, or a tick that could be waited for, and the departure itself.
LEMMA TickLeavesTime ==
  ASSUME DeadlineInv, RateIsKept, TimeSuffices, InTime, Tick, o.departure # None
  PROVE  o.departureEnergy - (got' + carried') < Rate' * (Remaining' + 1)
<1>1. InputsTypeOK /\ SampledInStep /\ TallyNow <= got + carried
  BY DEF DeadlineInv, TallyIsCovered
<1> DEFINE drawn == IF charging THEN Rate ELSE 0
           energy == o.departureEnergy
           spare == Rate * Left
<1>2. /\ Rate' = Rate /\ TallyNow = tally
      /\ got' = IF Moment = o.departure THEN drawn ELSE got + drawn
      /\ carried' = IF Moment = o.departure THEN tally ELSE carried
  BY <1>1, TickCharges
<1>3. Left \in 1..Day /\ Remaining' = Left - 1 /\ (Moment = o.departure => Left = Day)
  BY <1>1, TimeRunsOut
<1>4. Rate \in Nat /\ drawn \in Nat /\ energy \in Nat /\ Day \in Nat
  BY <1>1, RatesAreKnown, MomentsAreTyped, PlanAssumption
<1>5. got \in Nat /\ carried \in Nat /\ tally \in Nat
  BY <1>1 DEF InputsTypeOK
<1>6. Left \in Nat /\ spare \in Nat /\ Remaining' + 1 = Left /\ Rate * (Left + 1) = spare + Rate
  <2>1. Left \in Nat
    BY <1>3, <1>4
  <2> DEFINE r == Rate
             t == Left
  <2>2. r \in Nat /\ t \in Nat
    BY <1>4, <2>1
  <2> HIDE DEF r, t
  <2>3. r * (t + 1) = r * t + r /\ r * t \in Nat
    BY <2>2, TickOfRate
  <2>4. QED
    BY <1>3, <1>4, <2>1, <2>3 DEF r, t
<1>7. ~due
  BY DEF Tick, Heard
<1>8. charging \/ energy - tally < spare
  BY <1>7 DEF InTime
<1>9. energy < spare + Rate \/ Moment # o.departure
  <2> SUFFICES ASSUME Moment = o.departure PROVE energy < spare + Rate
    OBVIOUS
  <2> DEFINE t == TicksUntil(home.begin, o.departure)
             r == Rate
             d == Left
  <2>1. energy < r * (t + 1)
    BY DEF TimeSuffices
  <2>2. t \in 1..Day /\ d = Day
    BY <1>1, <1>3, MomentsAreTyped
  <2>3. r \in Nat /\ t + 1 \in Nat /\ d + 1 \in Nat /\ t + 1 <= d + 1
    BY <1>4, <2>2
  <2>4. r * (d + 1) = spare + Rate
    BY <1>6
  <2> HIDE DEF r, t, d
  <2>5. r * (t + 1) <= r * (d + 1) /\ r * (t + 1) \in Nat
    BY <2>3, SpareGrows
  <2>6. QED
    BY <1>4, <1>6, <2>1, <2>4, <2>5
<1>10. Moment # o.departure => energy - (got + carried) < spare + Rate
  <2> SUFFICES ASSUME Moment # o.departure PROVE energy - (got + carried) < spare + Rate
    OBVIOUS
  <2>1. Remaining = Left
    BY DEF Remaining
  <2>2. energy - (got + carried) < Rate * (Remaining + 1)
    BY DEF InTime
  <2>3. QED BY <1>6, <2>1, <2>2
<1>11. drawn = IF charging THEN Rate ELSE 0
  OBVIOUS
<1>12. Rate' * (Remaining' + 1) = spare
  BY <1>2, <1>6
<1> DEFINE r == Rate
<1>13. energy - (got' + carried') < spare
  <2>1. CASE charging /\ Moment = o.departure
    BY <1>2, <1>4, <1>5, <1>6, <1>9, <1>11, <2>1
  <2>2. CASE charging /\ Moment # o.departure
    BY <1>2, <1>4, <1>5, <1>6, <1>10, <1>11, <2>2
  <2>3. CASE ~charging /\ Moment = o.departure
    BY <1>2, <1>4, <1>5, <1>6, <1>8, <1>11, <2>3
  <2>4. CASE ~charging /\ Moment # o.departure
    BY <1>1, <1>2, <1>4, <1>5, <1>6, <1>8, <1>11, <2>4
  <2>5. QED
    BY <2>1, <2>2, <2>3, <2>4
<1>14. QED
  BY <1>12, <1>13

LEMMA InTimeStill ==
  ASSUME DeadlineInv, NothingHinders, RateIsKept, TimeSuffices, InTime, [Next]_vars
  PROVE  InTime'
<1>1. InputsTypeOK /\ SampledInStep /\ setpoint <= Max(AllowedCurrents)
  BY DEF DeadlineInv
<1>2. o' = o
  BY RateGrows DEF o
<1> SUFFICES ASSUME o.departure # None
             PROVE  /\ o.departureEnergy - (got' + carried') < Rate' * (Remaining' + 1)
                    /\ ~due' => charging' \/ o.departureEnergy - tally' < Rate' * Left'
  BY <1>2 DEF InTime
<1>3. /\ o.departureEnergy - (got + carried) < Rate * (Remaining + 1)
      /\ ~due => charging \/ o.departureEnergy - tally < Rate * Left
  BY DEF InTime
<1>4. CASE EvaluateOnce
  <2>1. /\ Rate' = Rate /\ Remaining' = Remaining /\ got' = got /\ carried' = carried
    BY <1>1, <1>4, EvaluationOnlyDecides
  <2>2. charging' \/ o.departureEnergy - tally' < Rate' * Left'
    BY <1>4, WaitingLeavesTime
  <2>3. QED
    BY <1>3, <2>1, <2>2
<1>5. CASE DryRun \/ UNCHANGED vars
  BY <1>3, <1>5, OthersTouchNothing DEF Untouched
<1>6. CASE ReadingChanges \/ (\E a \in Appliances : Switch(a)) \/ Meter \/ AppActs
  <2>1. Undisturbed
    BY <1>1, <1>6, HouseholdDisturbsNothing
  <2>2. Remaining' = Remaining
    BY <1>1, <2>1, UndisturbedTally
  <2>3. got' = got /\ carried' = carried /\ due'
    BY <2>1 DEF Undisturbed
  <2> DEFINE r == Rate
             q == Rate'
             t == Remaining + 1
             missing == o.departureEnergy - (got + carried)
  <2>4. r \in Nat /\ q \in Nat /\ r <= q
    BY RateGrows
  <2>5. t \in Nat /\ missing \in Int
    <3>1. Left \in 1..Day /\ Day \in Nat /\ o.departureEnergy \in Nat
      BY <1>1, MomentsAreTyped, PlanAssumption DEF Left
    <3>2. got \in Nat /\ carried \in Nat
      BY <1>1 DEF InputsTypeOK
    <3>3. QED BY <3>1, <3>2 DEF Remaining
  <2>6. missing < r * t
    BY <1>3
  <2> HIDE DEF r, q, t, missing
  <2>7. r * t <= q * t /\ r * t \in Nat /\ q * t \in Nat
    BY <2>4, <2>5, SpareGrows
  <2>8. missing < q * t
    BY <2>5, <2>6, <2>7
  <2>9. QED
    BY <2>2, <2>3, <2>8 DEF q, t, missing
<1>7. CASE Tick
  <2>1. due'
    BY <1>7 DEF Tick, Heard
  <2>2. QED
    BY <1>7, <2>1, TickLeavesTime
<1>8. QED
  BY <1>4, <1>5, <1>6, <1>7 DEF Next

LEMMA BooksAtFirst ==
  ASSUME Init
  PROVE  DeadlineInv /\ (RateIsKept /\ TimeSuffices => InTime) /\ StillForced
<1>1. InputsTypeOK
  BY TypedAtFirst
<1>2. /\ now = 0 /\ got = 0 /\ carried = 0 /\ tally = 0 /\ sampledAt = None /\ due /\ ~pressed
      /\ ~charging /\ setpoint \in {Min(AllowedCurrents), Max(AllowedCurrents)}
  BY DEF Init
<1>3. setpoint <= Max(AllowedCurrents)
  <2>1. /\ AllowedCurrents # {} /\ AllowedCurrents \in SUBSET Nat /\ IsFiniteSet(AllowedCurrents)
    BY AllowedAssumption
  <2>2. /\ Max(AllowedCurrents) \in AllowedCurrents /\ Min(AllowedCurrents) \in AllowedCurrents
        /\ \A a \in AllowedCurrents : a <= Max(AllowedCurrents)
    BY <2>1, FiniteMaxMin
  <2>3. QED BY <1>2, <2>2
<1>4. DeadlineInv
  <2>1. TallyNow = 0
    BY <1>2 DEF TallyNow, Sampling
  <2>2. QED
    BY <1>1, <1>2, <1>3, <2>1 DEF DeadlineInv, SampledInStep, TallyIsCovered
<1>5. ASSUME RateIsKept, TimeSuffices PROVE InTime
  <2> SUFFICES ASSUME o.departure # None
               PROVE  o.departureEnergy < Rate * (Remaining + 1)
    <3>1. o.departureEnergy - (got + carried) = o.departureEnergy
      BY <1>1, <1>2, MomentsAreTyped
    <3>2. QED BY <1>2, <3>1 DEF InTime
  <2>1. Moment = home.begin
    <3>1. home.begin \in 0..(Day - 1) /\ Day \in Nat \ {0}
      BY <1>1, MomentsAreTyped, PlanAssumption DEF Moments
    <3>2. home.begin + 0 = home.begin /\ home.begin % Day = home.begin
      BY <3>1
    <3>3. QED BY <1>2, <3>2 DEF Moment
  <2>2. Remaining = TicksUntil(home.begin, o.departure)
    BY <1>2, <2>1 DEF Remaining, Left
  <2>3. QED
    BY <1>5, <2>2 DEF TimeSuffices
<1>6. QED
  BY <1>2, <1>4, <1>5 DEF StillForced

\* At every departure the car has the energy that was asked for, but for less than it draws
\* in a tick, if nothing hinders the charge, the car keeps to one rate that is no less than
\* the plan assumes, and the first departure leaves time enough (plan_charge).
THEOREM DeadlineIsKept ==
  InputsSpec /\ TimeSuffices /\ [](NothingHinders /\ RateIsKept) => []DeadlineIsMet
<1> DEFINE Inv == DeadlineInv /\ TimeSuffices /\ InTime
           Conditions == NothingHinders /\ RateIsKept
<1>1. Init /\ TimeSuffices /\ Conditions => Inv
  BY BooksAtFirst
<1>2. Inv /\ Conditions /\ [Next]_vars => Inv'
  BY BooksAreKept, SufficesStill, InTimeStill
<1>3. Inv /\ Conditions => DeadlineIsMet
  <2> SUFFICES ASSUME Inv, Conditions, Moment = o.departure, now > 0
               PROVE  got + carried + home.draws[0] > o.departureEnergy
    BY DEF DeadlineIsMet
  <2>1. InputsTypeOK
    BY DEF DeadlineInv
  <2>2. got \in Nat /\ carried \in Nat /\ o.departureEnergy \in Nat /\ o.departure # None
    <3>1. None \notin Moments
      BY NoneAssumption, PlanAssumption DEF Moments
    <3>2. QED
      BY <2>1, <3>1, MomentsAreTyped DEF InputsTypeOK
  <2>3. Rate \in Nat /\ home.draws[0] \in Nat /\ Rate <= home.draws[0]
    BY <2>1, RatesAreKnown
  <2>4. o.departureEnergy - (got + carried) < Rate * (Remaining + 1) /\ Remaining = 0
    BY <2>2 DEF InTime, Remaining
  <2>5. o.departureEnergy - (got + carried) < Rate
    BY <2>3, <2>4
  <2>6. QED
    BY <2>2, <2>3, <2>5
<1> HIDE DEF Inv, Conditions
<1>4. InputsSpec /\ TimeSuffices /\ []Conditions => []DeadlineIsMet
  BY <1>1, <1>2, <1>3, PTL DEF InputsSpec
<1>5. QED
  BY <1>4 DEF Conditions

-----------------------------------------------------------------------------
(* A charge the deadline forced is carried through.                        *)

\* The plan assumes what the hardware offers, and that stays.
LEMMA AssumptionStays ==
  ASSUME NothingHinders, NothingHinders', home' = home
  PROVE  Assumed' = Assumed
<1>1. SightNow.cap = None /\ SightNow'.cap = None
  BY DEF NothingHinders
<1>2. SightNow.ladder = {a \in Offered : SightNow.cap = None \/ a <= SightNow.cap}
  BY DEF SightNow, Sight
<1>3. SightNow'.ladder = {a \in Offered' : SightNow'.cap = None \/ a <= SightNow'.cap}
  BY DEF SightNow, Sight
<1>4. Offered' = Offered /\ LearnedRate' = LearnedRate
  BY DEF Offered, LearnedRate, o
<1>5. SightNow.ladder = Offered
  BY <1>1, <1>2
<1>6. SightNow'.ladder = Offered
  BY <1>1, <1>3, <1>4
<1>7. Assumed' = FlatPower(0, SightNow'.ladder, LearnedRate)
  BY <1>4 DEF Assumed
<1>8. QED
  BY <1>5, <1>6, <1>7 DEF Assumed

\* The whole ticks of a charge: more for more energy, one less after a tick of it.
LEMMA TicksOfCharge ==
  ASSUME NEW r \in Nat \ {0}, NEW n \in Nat
  PROVE  /\ \A m \in Nat : n <= m => n \div r <= m \div r
         /\ n >= r => (n - r) \div r = (n \div r) - 1
<1> DEFINE q == n \div r
<1>1. q \in Nat /\ q * r <= n /\ n < q * r + r
  BY Quotients
<1>2. ASSUME NEW m \in Nat, n <= m PROVE n \div r <= m \div r
  <2> DEFINE p == m \div r
  <2>1. p \in Nat /\ m < p * r + r
    OBVIOUS
  <2> HIDE DEF p, q
  <2>2. ASSUME p < q PROVE FALSE
    <3>1. (p + 1) * r <= q * r
      <4>1. p + 1 \in Nat /\ p + 1 <= q
        BY <1>1, <2>1, <2>2
      <4>2. QED BY <1>1, <4>1, ProductGrows
    <3>2. (p + 1) * r = p * r + r /\ p * r \in Nat /\ q * r \in Nat
      BY <1>1, <2>1
    <3>3. QED
      BY <1>1, <1>2, <2>1, <3>1, <3>2
  <2>3. q <= p
    BY <1>1, <2>1, <2>2
  <2>4. QED
    BY <2>3 DEF p, q
<1>3. n >= r => (n - r) \div r = q - 1
  OBVIOUS
<1>4. QED
  BY <1>2, <1>3

LEMMA ForcedStill ==
  ASSUME DeadlineInv, NothingHinders, NothingHinders', RateIsKept, RateIsKept', CurveAgrees,
         StillForced, [Next]_vars
  PROVE  StillForced'
<1>1. InputsTypeOK /\ SampledInStep /\ setpoint <= Max(AllowedCurrents)
  BY DEF DeadlineInv
<1>2. Rate \in Nat \ {0} /\ Rate' \in Nat \ {0} /\ Rate <= Rate' /\ o' = o /\ Assumed' = Assumed
  BY RateGrows, AssumptionStays DEF o
<1>3. Assumed \in Nat /\ Assumed <= Rate
  BY <1>1, RatesAreKnown
<1>4. o.departureEnergy \in Nat /\ TallyNow \in Nat /\ tally \in Nat /\ SafetyMargin \in Nat
  BY <1>1, SamplesAreTyped, MomentsAreTyped, PlanAssumption DEF InputsTypeOK
<1> DEFINE energy == o.departureEnergy
<1>5. pressed => /\ charging /\ o.departure # None
                 /\ \/ Rate > Assumed \/ energy - TallyNow < Rate
                    \/ Remaining <= (energy - TallyNow) \div Rate + SafetyMargin
  BY DEF StillForced
<1>6. ASSUME NEW missing \in Int,
             pressed' => /\ charging' /\ o.departure # None
                         /\ energy - TallyNow' = missing
                         /\ \/ Rate' > Assumed \/ missing < Rate'
                            \/ Remaining' <= missing \div Rate' + SafetyMargin
      PROVE  StillForced'
  BY <1>2, <1>6 DEF StillForced
<1>7. CASE EvaluateOnce
  <2>1. /\ Rate' = Rate /\ Remaining' = Remaining /\ Left' = Left /\ TallyNow' = tally'
    BY <1>1, <1>7, EvaluationOnlyDecides
  <2> DEFINE window == Planned(SightNow, TallyNow, CurveNow)
             flat == IF charging THEN Rate ELSE Assumed
             before == energy - TallyNow
             after == energy - tally'
  <2>2. /\ tally' \in {0, TallyNow} /\ (charging => tally' = TallyNow)
        /\ pressed' = (charging' /\ (pressed \/ window = "deadline"))
    BY <1>1, <1>7, PlanIsCarriedOut
  <2>3. before \in Int /\ after \in Int /\ before <= after
    BY <1>4, <2>2
  <2>4. CASE pressed
    <3>1. after = before
      BY <1>5, <2>2, <2>4
    <3>2. pressed' => charging'
      BY <2>2
    <3>3. QED
      BY <1>2, <1>5, <1>6, <2>1, <2>3, <2>4, <3>1, <3>2
  <2>5. CASE window = "deadline" /\ pressed'
    <3>1. before > 0 /\ Left <= (before \div flat) + SafetyMargin /\ o.departure # None
      BY <1>1, <2>5, PlanDecides
    <3>2. charging'
      BY <2>2, <2>5
    <3>3. ASSUME ~(Rate > Assumed)
          PROVE  Remaining <= after \div Rate + SafetyMargin
      <4>1. flat = Rate
        BY <1>2, <1>3, <3>3
      <4> HIDE DEF before, after, flat
      <4>2. before \in Nat /\ after \in Nat
        BY <2>3, <3>1
      <4>3. before \div Rate <= after \div Rate
        BY <1>2, <2>3, <4>2, TicksOfCharge
      <4>4. before \div Rate \in Nat /\ after \div Rate \in Nat
        BY <1>2, <4>2, Quotients
      <4>5. Left \in Nat /\ Remaining <= Left
        <5>1. Left \in 1..Day /\ Day \in Nat
          BY <1>1, <3>1, MomentsAreTyped, PlanAssumption DEF Left
        <5>2. QED BY <5>1 DEF Remaining
      <4>6. Remaining \in Nat
        BY <4>5 DEF Remaining
      <4>7. QED
        BY <1>4, <3>1, <4>1, <4>3, <4>4, <4>5, <4>6
    <3> HIDE DEF before, flat
    <3>4. energy - TallyNow' = after
      BY <2>1
    <3>5. QED
      BY <1>6, <2>1, <2>3, <3>1, <3>2, <3>3, <3>4
  <2>6. CASE ~pressed'
    BY <2>6 DEF StillForced
  <2>7. QED
    BY <2>2, <2>4, <2>5, <2>6
<1>8. CASE DryRun \/ UNCHANGED vars
  BY <1>2, <1>5, <1>8, OthersTouchNothing DEF Untouched, StillForced
<1>9. CASE ReadingChanges \/ (\E a \in Appliances : Switch(a)) \/ Meter \/ AppActs
  <2>1. Undisturbed
    BY <1>1, <1>9, HouseholdDisturbsNothing
  <2>2. TallyNow' = TallyNow /\ Remaining' = Remaining
    BY <1>1, <2>1, UndisturbedTally
  <2>3. pressed' = pressed /\ (charging => charging')
    BY <2>1 DEF Undisturbed
  <2>4. Rate' = Rate \/ Rate' > Assumed
    BY <1>2, <1>3
  <2>5. Rate > Assumed => Rate' > Assumed
    BY <1>2, <1>3
  <2>6. energy - TallyNow \in Int
    BY <1>4
  <2>7. QED
    BY <1>2, <1>5, <1>6, <2>2, <2>3, <2>4, <2>5, <2>6
<1>10. CASE Tick
  <2> SUFFICES ASSUME pressed' PROVE StillForced'
    BY DEF StillForced
  <2>1. pressed /\ Moment # o.departure /\ charging'
    BY <1>5, <1>10 DEF Tick
  <2>2. charging /\ o.departure # None
    BY <1>5, <2>1
  <2>3. Rate' = Rate /\ TallyNow = tally /\ TallyNow' \in {tally, tally + Rate}
    BY <1>1, <1>10, <2>2, TickCharges
  <2>4. Left \in 1..Day /\ Day \in Nat /\ Remaining' = Left - 1 /\ Remaining = Left
    <3>1. Left \in 1..Day /\ Remaining' = Left - 1
      BY <1>1, <1>10, <2>2, TimeRunsOut
    <3>2. QED BY <2>1, <3>1, PlanAssumption DEF Remaining
  <2> DEFINE before == energy - tally
             after == energy - TallyNow'
             rate == Rate
  <2>5. before \in Int /\ after \in Int /\ rate \in Nat \ {0} /\ after \in {before, before - rate}
    BY <1>2, <1>4, <2>3
  <2>6. rate > Assumed \/ before < rate \/ Left <= before \div rate + SafetyMargin
    BY <1>5, <2>1, <2>3, <2>4
  <2>7. rate > Assumed \/ after < rate \/ Left - 1 <= after \div rate + SafetyMargin
    <3> HIDE DEF before, after, rate
    <3>1. CASE rate > Assumed \/ before < rate
      BY <2>5, <3>1
    <3>2. CASE before >= rate /\ Left <= before \div rate + SafetyMargin
      <4>1. before \in Nat
        BY <2>5, <3>2
      <4>2. before \div rate \in Int /\ (before - rate) \div rate = before \div rate - 1
        BY <2>5, <3>2, <4>1, Quotients, TicksOfCharge
      <4>3. CASE after = before
        BY <1>4, <2>4, <3>2, <4>2, <4>3
      <4>4. CASE after = before - rate
        BY <1>4, <2>4, <3>2, <4>2, <4>4
      <4>5. QED BY <2>5, <4>3, <4>4
    <3>3. QED BY <2>5, <2>6, <3>1, <3>2
  <2>8. Rate' > Assumed \/ after < Rate' \/ Remaining' <= after \div Rate' + SafetyMargin
    BY <2>3, <2>4, <2>7
  <2>9. energy - TallyNow' = after
    OBVIOUS
  <2> HIDE DEF after
  <2>10. QED
    BY <1>6, <2>1, <2>2, <2>5, <2>8, <2>9
<1>11. QED
  BY <1>7, <1>8, <1>9, <1>10 DEF Next

\* A charge that the deadline forced is given up before the departure only for less than the
\* car draws in a tick, or when it draws more than the plan assumes of an idle car, if
\* nothing hinders it and the plan's curve is no slower than its rate (plan_charge).
THEOREM DeadlineChargeIsKept ==
  InputsSpec /\ [](NothingHinders /\ RateIsKept /\ CurveAgrees) => DeadlineChargeHolds
<1> DEFINE Inv == DeadlineInv /\ StillForced
           Conditions == NothingHinders /\ RateIsKept /\ CurveAgrees
           Kept == pressed /\ charging /\ ~charging' =>
                     \/ Moment = o.departure
                     \/ got + carried + home.draws[0] > o.departureEnergy
                     \/ CarDraw > FlatPower(0, SightNow.ladder, LearnedRate)
<1>1. Init => Inv
  BY BooksAtFirst
<1>2. Inv /\ Conditions /\ Conditions' /\ [Next]_vars => Inv'
  BY BooksAreKept, ForcedStill
<1>3. Inv /\ Conditions /\ [Next]_vars => [Kept]_vars
  <2> SUFFICES ASSUME Inv, Conditions, Next, pressed, charging, ~charging',
                      Moment # o.departure, ~(Rate > Assumed)
               PROVE  got + carried + home.draws[0] > o.departureEnergy
    <3>1. Inv /\ Conditions => CarDraw = IF charging THEN Rate ELSE 0
      BY RatesAreKnown DEF DeadlineInv
    <3>2. QED
      BY <3>1 DEF Assumed
  <2>1. InputsTypeOK /\ SampledInStep /\ setpoint <= Max(AllowedCurrents)
    BY DEF DeadlineInv
  <2>2. EvaluateOnce
    <3>1. ~(DryRun \/ UNCHANGED vars)
      BY OthersTouchNothing DEF Untouched
    <3>2. ~(ReadingChanges \/ (\E a \in Appliances : Switch(a)) \/ Meter \/ AppActs)
      BY <2>1, HouseholdDisturbsNothing DEF Undisturbed
    <3>3. ~Tick
      BY DEF Tick
    <3>4. QED BY <3>1, <3>2, <3>3 DEF Next
  <2> DEFINE missing == o.departureEnergy - TallyNow
  <2>3. Planned(SightNow, TallyNow, CurveNow) = "waiting"
    BY <2>1, <2>2, PlanIsCarriedOut
  <2>4. o.departure # None /\ Remaining = Left
    BY DEF StillForced, Remaining
  <2>5. missing <= 0 \/ missing < Rate \/ Left > (missing \div Rate) + SafetyMargin
    <3>1. missing \in Int
      BY <2>1, SamplesAreTyped, MomentsAreTyped
    <3>2. QED
      BY <2>1, <2>3, <2>4, <3>1, PlanDecides
  <2>6. missing < Rate \/ Left <= (missing \div Rate) + SafetyMargin
    BY <2>4 DEF StillForced
  <2>7. Rate \in Nat \ {0} /\ home.draws[0] \in Nat /\ Rate <= home.draws[0]
    BY <2>1, RatesAreKnown
  <2>8. missing \in Int /\ Left \in Nat /\ SafetyMargin \in Nat
    <3>1. Left \in 1..Day /\ Day \in Nat
      BY <2>1, <2>4, MomentsAreTyped, PlanAssumption DEF Left
    <3>2. QED
      BY <2>1, <3>1, SamplesAreTyped, MomentsAreTyped, PlanAssumption
  <2>9. missing \div Rate \in Int
    BY <2>7, <2>8, Quotients
  <2>10. missing < Rate
    BY <2>5, <2>6, <2>7, <2>8, <2>9
  <2>11. TallyNow <= got + carried /\ TallyNow \in Nat /\ got \in Nat /\ carried \in Nat
           /\ o.departureEnergy \in Nat
    BY <2>1, <2>4, SamplesAreTyped, MomentsAreTyped
       DEF DeadlineInv, TallyIsCovered, InputsTypeOK
  <2>12. QED
    BY <2>7, <2>10, <2>11
<1> HIDE DEF Inv, Conditions
<1>4. InputsSpec /\ []Conditions => [][Kept]_vars
  <2> HIDE DEF Kept
  <2>1. QED BY <1>1, <1>2, <1>3, PTL DEF InputsSpec
<1>5. QED
  BY <1>4 DEF Conditions, DeadlineChargeHolds
=============================================================================
