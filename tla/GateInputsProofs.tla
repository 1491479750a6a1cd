--------------------------- MODULE GateInputsProofs ---------------------------
(***************************************************************************)
(* What the gates are given, and what the user is told, for any household. *)
(* First the ladder of currents: each limit that would leave nothing falls *)
(* back to the current nearest to it, so there has to be a nearest one.    *)
(* Then the dry run; the caps, which need that every watt of the house is  *)
(* metered or reserved; the types; the limits of the installation; and the *)
(* reports on settings, sessions and their cost.                           *)
(***************************************************************************)
EXTENDS SessionReports, ChargeGatesProofs, SequenceTheorems

-----------------------------------------------------------------------------
\* Were there no greatest element, taking each to the next one up would map S one to one
\* into S without its least, which the pigeonhole forbids.  Used for the presets a
\* charger reports.
LEMMA GreatestExists ==
  ASSUME NEW S \in SUBSET Nat, S # {}, IsFiniteSet(S)
  PROVE  \E x \in S : \A y \in S : x >= y
<1>1. SUFFICES ASSUME \A x \in S : \E y \in S : y > x
               PROVE  FALSE
  OBVIOUS
<1>2. PICK m \in S : \A y \in S : m <= y
  BY LeastExists
<1> DEFINE IsNext(x, y) == y > x /\ \A z \in S : z > x => y <= z
           f == [x \in S |-> CHOOSE y \in S : IsNext(x, y)]
<1>3. ASSUME NEW x \in S
      PROVE  f[x] \in S /\ IsNext(x, f[x])
  <2> DEFINE T == {y \in S : y > x}
  <2>1. T \in SUBSET Nat /\ T # {}
    BY <1>1
  <2>2. PICK y \in T : \A z \in T : y <= z
    BY <2>1, LeastExists
  <2>3. \E z \in S : IsNext(x, z)
    BY <2>2
  <2> HIDE DEF IsNext
  <2>4. QED
    BY <2>3
<1> HIDE DEF f
<1>4. f \in [S -> S \ {m}]
  <2>1. DOMAIN f = S /\ f = [x \in S |-> f[x]]
    BY DEF f
  <2>2. ASSUME NEW x \in S PROVE f[x] \in S \ {m}
    BY <1>2, <1>3
  <2>3. QED
    BY <2>1, <2>2
<1>5. \A x, y \in S : x # y => f[x] # f[y]
  <2> SUFFICES ASSUME NEW x \in S, NEW y \in S, x < y PROVE f[x] # f[y]
    OBVIOUS
  <2>1. f[x] <= y /\ f[y] > y /\ f[x] \in Nat /\ f[y] \in Nat
    BY <1>3
  <2>2. QED
    BY <2>1
<1>6. IsFiniteSet(S \ {m}) /\ Cardinality(S \ {m}) < Cardinality(S)
  <2>1. /\ IsFiniteSet(S \ {m})
        /\ Cardinality(S \ {m}) = Cardinality(S) - 1 /\ Cardinality(S) \in Nat
    BY FS_RemoveElement, FS_CardinalityType
  <2>2. QED
    BY <2>1
<1>7. \E x, y \in S : x # y /\ f[x] = f[y]
  <2> HIDE DEF IsNext
  <2>1. QED BY <1>4, <1>6, FS_PigeonHole
<1>8. QED
  BY <1>5, <1>7

\* So Min and Max pick elements of any ladder.
LEMMA FiniteMaxMin ==
  ASSUME NEW S \in SUBSET Nat, S # {}, IsFiniteSet(S)
  PROVE  /\ Max(S) \in S /\ \A y \in S : Max(S) >= y
         /\ Min(S) \in S /\ \A y \in S : Min(S) <= y
<1>1. PICK top \in S : \A y \in S : top >= y
  BY GreatestExists
<1>2. 0 \in Int /\ top \in Int /\ S \in SUBSET (0..top)
  BY <1>1
<1>3. QED
  BY <1>2, MaxMin

\* What the hardware offers is a ladder (allowed_currents).
LEMMA HardwareIsLadder ==
  ASSUME NEW h \in HardwareType, IsFiniteSet(h.presets), NEW continuous \in BOOLEAN
  PROVE  /\ HardwareLadder(h, continuous) \subseteq Nat
         /\ IsFiniteSet(HardwareLadder(h, continuous))
<1> DEFINE lowest == IF h.presets = {} THEN Min(AllowedCurrents) ELSE Min(h.presets)
           highest == IF h.presets # {} /\ h.limit = None THEN Max(h.presets)
                      ELSE HardwareMax(h)
<1>1. /\ Min(AllowedCurrents) \in Nat /\ Max(AllowedCurrents) \in Nat
  BY AllowedAssumption, FiniteMaxMin
<1>2. h.presets \in SUBSET Nat /\ h.limit \in Nat \union {None}
  BY DEF HardwareType
<1>3. h.presets # {} => Min(h.presets) \in Nat /\ Max(h.presets) \in Nat
  BY <1>2, FiniteMaxMin
<1>4. HardwareMax(h) \in Nat
  <2>1. CASE h.limit = None
    BY <1>1, <2>1 DEF HardwareMax
  <2>2. CASE h.limit # None
    <3> DEFINE both == {Max(AllowedCurrents), h.limit}
           top == Max(AllowedCurrents) + h.limit
    <3>1. /\ 0 \in Int /\ top \in Int
          /\ both \in SUBSET (0..top) /\ both \subseteq Nat /\ both # {}
      BY <1>1, <1>2, <2>2
    <3>2. Min(both) \in both
      <4> HIDE DEF both, top
      <4>1. QED BY <3>1, MaxMin
    <3>3. QED
      BY <2>2, <3>1, <3>2 DEF HardwareMax
  <2>3. QED
    BY <2>1, <2>2
<1>5. lowest \in Nat /\ highest \in Nat
  BY <1>1, <1>3, <1>4
<1>6. CASE continuous
  <2>1. HardwareLadder(h, continuous) = lowest..highest
    BY <1>6 DEF HardwareLadder, ContinuousLadder
  <2>2. lowest..highest \subseteq Nat /\ IsFiniteSet(lowest..highest)
    <3> HIDE DEF lowest, highest
    <3>1. lowest \in Int /\ highest \in Int /\ lowest..highest \subseteq Nat
      BY <1>5
    <3>2. QED
      BY <3>1, FS_Interval
  <2>3. QED
    BY <2>1, <2>2
<1>7. CASE ~continuous
  <2> DEFINE range == Min(AllowedCurrents)..HardwareMax(h)
  <2>1. range \subseteq Nat /\ IsFiniteSet(range)
    BY <1>1, <1>4, FS_Interval
  <2>2. HardwareLadder(h, continuous) \subseteq range
    BY <1>7 DEF HardwareLadder, PresetLadder
  <2>3. QED
    BY <2>1, <2>2, FS_Subset
<1>8. QED
  BY <1>6, <1>7

\* A ceiling narrows the ladder to what is under it, or to the least there is.
LEMMA CeilingNarrows ==
  ASSUME NEW ladder \in SUBSET Nat, ladder # {}, IsFiniteSet(ladder), NEW ceiling \in Nat
  PROVE  /\ WithCeiling(ladder, ceiling) \in SUBSET ladder
         /\ WithCeiling(ladder, ceiling) # {}
         /\ ceiling > 0 => \/ \A a \in WithCeiling(ladder, ceiling) : a <= ceiling
                           \/ WithCeiling(ladder, ceiling) = {Min(ladder)}
BY FiniteMaxMin DEF WithCeiling

\* A floor narrows it to what is over it, or to the greatest there is.
LEMMA FloorNarrows ==
  ASSUME NEW ladder \in SUBSET Nat, ladder # {}, IsFiniteSet(ladder), NEW floor \in Nat
  PROVE  WithFloor(ladder, floor) \in SUBSET ladder /\ WithFloor(ladder, floor) # {}
BY FiniteMaxMin DEF WithFloor

\* The limits together: the floor cannot lift a current over the ceiling again.
LEMMA LimitsNarrow ==
  ASSUME NEW ladder \in SUBSET Nat, IsFiniteSet(ladder), NEW ceiling \in Nat, NEW floor \in Nat
  PROVE  /\ InstallationLimits(ladder, ceiling, floor) \subseteq ladder
         /\ ladder # {} => InstallationLimits(ladder, ceiling, floor) # {}
         /\ ceiling > 0 => \A a \in InstallationLimits(ladder, ceiling, floor) :
              a <= ceiling \/ InstallationLimits(ladder, ceiling, floor) = {Min(ladder)}
<1>1. CASE ladder = {}
  BY <1>1 DEF InstallationLimits
<1>2. CASE ladder # {}
  <2> DEFINE under == WithCeiling(ladder, ceiling)
             left == WithFloor(under, floor)
  <2>1. /\ under \in SUBSET ladder /\ under # {}
        /\ ceiling > 0 => (\A a \in under : a <= ceiling) \/ under = {Min(ladder)}
    BY <1>2, CeilingNarrows
  <2>2. IsFiniteSet(under) /\ under \in SUBSET Nat
    BY <2>1, FS_Subset
  <2>3. left \in SUBSET under /\ left # {}
    BY <2>1, <2>2, FloorNarrows
  <2>4. InstallationLimits(ladder, ceiling, floor) = left
    BY <1>2 DEF InstallationLimits
  <2> HIDE DEF under, left
  <2>5. QED
    BY <2>1, <2>3, <2>4
<1>3. QED
  BY <1>1, <1>2

-----------------------------------------------------------------------------
(* The household.                                                          *)

\* Out of the clamps the two thresholds of the battery come in order, and the other
\* settings as they were entered (settings_from_entry).
LEMMA SettingsAreOptions ==
  ASSUME NEW entry \in OptionsType
  PROVE  /\ SettingsFromEntry(entry) \in OptionsType
         /\ SettingsFromEntry(entry).low < SettingsFromEntry(entry).high
<1>1. MinSoc \in Int /\ MaxSoc \in Int
  BY ReaderAssumption
<1>2. ASSUME NEW value \in Int PROVE Threshold(value) \in Int
  <2>1. Min({MaxSoc, value}) \in Int
    BY <1>1, PairMaxMin
  <2>2. QED
    BY <1>1, <2>1, PairMaxMin DEF Threshold, OptionInt
<1>3. entry.high \in Int /\ entry.low \in Int
  BY DEF OptionsType
<1> DEFINE high == Max({Threshold(entry.high), MinSoc + 1})
           low == Min({Threshold(entry.low), high - 1})
<1>4. high \in Int
  <2>1. MinSoc + 1 \in Int /\ Threshold(entry.high) \in Int
    BY <1>1, <1>2, <1>3
  <2>2. QED
    BY <2>1, PairMaxMin
<1> HIDE DEF high
<1>5. low \in Int /\ low < high
  <2>1. high - 1 \in Int /\ Threshold(entry.low) \in Int
    BY <1>2, <1>3, <1>4
  <2>2. low = IF Threshold(entry.low) <= high - 1 THEN Threshold(entry.low) ELSE high - 1
    BY <2>1, PairMaxMin
  <2>3. QED
    BY <1>4, <2>1, <2>2
<1>6. SettingsFromEntry(entry) = [entry EXCEPT !.high = high, !.low = low]
  BY DEF SettingsFromEntry, high
<1> HIDE DEF low
<1>7. QED
  BY <1>4, <1>5, <1>6 DEF OptionsType

\* What is true of every household is true of the one at hand.
LEMMA HomeIsHousehold ==
  ASSUME home \in Homes
  PROVE  /\ HouseholdType(home)
         /\ o \in OptionsType /\ o.low < o.high
<1>1. PICK h \in Households : home = [h EXCEPT !.options = SettingsFromEntry(h.options)]
  BY DEF Homes
<1>2. HouseholdType(h)
  BY HouseholdAssumption
<1>3. h.options \in OptionsType
  BY <1>2 DEF HouseholdType
<1>4. /\ SettingsFromEntry(h.options) \in OptionsType
      /\ SettingsFromEntry(h.options).low < SettingsFromEntry(h.options).high
  BY <1>3, SettingsAreOptions
<1>5. /\ {"options", "hardware", "draws", "curve", "sessions", "vehicle", "appliances", "app",
          "begin", "lasts", "readings"} \subseteq DOMAIN h
      /\ DOMAIN home = DOMAIN h
  BY <1>1, <1>2 DEF HouseholdType
<1>6. /\ home.options = SettingsFromEntry(h.options)
      /\ \A f \in DOMAIN h : f # "options" => home[f] = h[f]
  BY <1>1, <1>5
<1>7. /\ home.hardware = h.hardware /\ home.draws = h.draws /\ home.curve = h.curve
      /\ home.sessions = h.sessions /\ home.appliances = h.appliances /\ home.app = h.app
      /\ home.begin = h.begin /\ home.lasts = h.lasts /\ home.readings = h.readings
      /\ home.vehicle = h.vehicle
  BY <1>5, <1>6
<1>8. HouseholdType(home)
  BY <1>2, <1>4, <1>5, <1>6, <1>7 DEF HouseholdType
<1>9. QED
  BY <1>4, <1>6, <1>8 DEF o

\* The household is the same throughout, and what moves in it is of its own kind.
LEMMA HouseholdStays == InputsSpec => [](home \in Homes /\ reading \in home.readings)
<1>1. Init => home \in Homes /\ reading \in home.readings
  BY DEF Init
<1>2. /\ home \in Homes /\ reading \in home.readings /\ [Next]_vars
      => (home \in Homes /\ reading \in home.readings)'
  BY DEF Next, vars, worldVars, EvaluateOnce, DryRun, ReadingChanges, Switch, Meter, AppActs,
         Tick
<1>3. QED
  BY <1>1, <1>2, PTL DEF InputsSpec

\* For every household the installation's limits narrow what the hardware offers, never to
\* nothing, with nothing above the ceiling but the least there is (allowed_currents).
THEOREM LadderIsKept == InputsSpec => []LadderKeepsOne
<1>1. ASSUME home \in Homes PROVE LadderKeepsOne
  <2> DEFINE hardware == HardwareLadder(home.hardware, o.continuous)
  <2>1. /\ home.hardware \in HardwareType /\ IsFiniteSet(home.hardware.presets)
        /\ o.ceiling \in Nat /\ o.floor \in Nat /\ o.continuous \in BOOLEAN
    BY <1>1, HomeIsHousehold DEF HouseholdType, OptionsType
  <2>2. hardware \in SUBSET Nat /\ IsFiniteSet(hardware)
    BY <2>1, HardwareIsLadder
  <2>3. Offered = InstallationLimits(hardware, o.ceiling, o.floor)
    BY DEF Offered, OfferedCurrents
  <2> HIDE DEF hardware
  <2>4. /\ Offered \subseteq hardware /\ (hardware # {} => Offered # {})
        /\ o.ceiling > 0 => \A a \in Offered : a <= o.ceiling \/ Offered = {Min(hardware)}
    BY <2>1, <2>2, <2>3, LimitsNarrow
  <2>5. QED
    BY <2>4 DEF LadderKeepsOne, hardware
<1>2. QED
  BY <1>1, HouseholdStays, PTL

-----------------------------------------------------------------------------
(* Asking what regulation would do.                                        *)

\* A tracker that has just looked at the appliances has nothing to add
\* (ReservationTracker.observe).
LEMMA ObservedTwice ==
  ASSUME NEW s, NEW known
  PROVE  LET seen == Observed(o, s, known, on, now)
         IN  Observed(o, s, seen, on, now) = seen
BY DEF Observed

\* What the battery says is a number, or nothing.
LEMMA SocIsRead ==
  ASSUME home \in Homes, reading \in home.readings
  PROVE  SensorValues.soc \in Int \union {None}
<1>1. reading.soc \in Int
  BY HomeIsHousehold DEF HouseholdType
<1>2. SensorValues.soc = IF "soc" \in reading.dead THEN None ELSE reading.soc
  BY DEF SensorValues, Sensors
<1>3. QED
  BY <1>1, <1>2

\* Neither has the flag that has just followed the battery, whose thresholds are apart
\* (battery_hysteresis).
LEMMA FlagSettles ==
  ASSUME home \in Homes, NEW s, s.soc \in Int \union {None}, NEW flag
  PROVE  LET then == BatteryFlag(o, s, flag)
         IN  /\ BatteryFlag(o, s, then) = then
             /\ BatteryReady(o, s, then) = BatteryReady(o, s, flag)
<1> DEFINE soc == Read(o, s, "soc")
           then == BatteryFlag(o, s, flag)
<1>1. o.low \in Int /\ o.high \in Int /\ o.low < o.high
  BY HomeIsHousehold DEF OptionsType
<1>2. CASE soc = None
  BY <1>2 DEF BatteryFlag, BatteryReady
<1>3. CASE soc # None
  <2>1. soc \in Int /\ soc = s.soc
    BY <1>3 DEF Read
  <2>2. then = BatteryHysteresis(soc, o, flag)
    BY <1>3 DEF BatteryFlag
  <2>3. \/ then = TRUE /\ soc > o.low
        \/ then = FALSE /\ ~(soc >= o.high)
    <3> DEFINE above == soc > o.low
               over == soc >= o.high
    <3>1. (over => above) /\ (~above => ~over)
      BY <1>1, <2>1
    <3>2. then = above \/ then = over
      BY <2>2, Zenon DEF BatteryHysteresis
    <3>3. above \in BOOLEAN /\ over \in BOOLEAN
      BY SMT
    <3> HIDE DEF above, over, then
    <3>4. (then = TRUE /\ above) \/ (then = FALSE /\ ~over)
      BY <3>1, <3>2, <3>3, Zenon
    <3>5. QED
      BY <3>4 DEF above, over
  <2>4. BatteryFlag(o, s, then) = BatteryHysteresis(soc, o, then)
    BY <1>3 DEF BatteryFlag
  <2> HIDE DEF then
  <2>5. BatteryHysteresis(soc, o, then) = then
    <3> DEFINE above == soc > o.low
               over == soc >= o.high
    <3>1. (then = TRUE /\ above) \/ (then = FALSE /\ ~over)
      BY <2>3
    <3>2. BatteryHysteresis(soc, o, then) = IF then = TRUE THEN above ELSE over
      BY Zenon DEF BatteryHysteresis
    <3>3. (~above => ~over) /\ above \in BOOLEAN /\ over \in BOOLEAN
      BY <1>1, <2>1, SMT
    <3> HIDE DEF above, over
    <3>4. CASE then = TRUE /\ above
      <4>1. above = TRUE
        BY <3>3, <3>4, Zenon
      <4>2. QED
        BY <3>2, <3>4, <4>1, Zenon
    <3>5. CASE then = FALSE /\ ~over
      <4>1. over = FALSE
        BY <3>3, <3>5, Zenon
      <4>2. then # TRUE
        BY <3>5, Zenon
      <4>3. QED
        BY <3>2, <3>5, <4>1, <4>2, Zenon
    <3>6. QED
      BY <3>1, <3>4, <3>5, Zenon
  <2>6. QED
    BY <2>4, <2>5 DEF BatteryReady, then
<1>4. QED
  BY <1>2, <1>3

\* So looking again shows the same.
LEMMA SightSettles ==
  ASSUME home \in Homes, reading \in home.readings
  PROVE  Sight(SightNow.announced, SightNow.flag) = SightNow
<1> DEFINE s == SensorValues
           seen == Observed(o, s, announced, on, now)
           then == BatteryFlag(o, s, batteryFlag)
<1>1. SightNow.announced = seen /\ SightNow.flag = then
  BY DEF SightNow, Sight
<1>2. Observed(o, s, seen, on, now) = seen
  BY ObservedTwice
<1>3. BatteryFlag(o, s, then) = then /\ BatteryReady(o, s, then) = BatteryReady(o, s, batteryFlag)
  BY SocIsRead, FlagSettles
<1>4. Sight(seen, then) = Sight(announced, batteryFlag)
  <2> HIDE DEF s
  <2>1. QED BY <1>2, <1>3, Zenon DEF Sight, s
<1>5. QED
  BY <1>1, <1>4 DEF SightNow

\* For every household, with any sensors, the dry-run service decides what the next
\* evaluation will, and the question does not change the answer (async_dry_run).
THEOREM AskingIsFree == InputsSpec => DryRunDecidesNothing
<1>1. ASSUME home \in Homes, reading \in home.readings, DryRun
      PROVE  Decision(Sight(announced', batteryFlag'), timers') = Decision(SightNow, timers)
  <2>1. announced' = SightNow.announced /\ batteryFlag' = SightNow.flag /\ timers' = timers
    BY <1>1 DEF DryRun, InputsRead
  <2>2. Sight(announced', batteryFlag') = SightNow
    BY <1>1, <2>1, SightSettles
  <2>3. QED
    BY <2>1, <2>2
<1>2. QED
  BY <1>1, HouseholdStays, PTL DEF DryRunDecidesNothing

-----------------------------------------------------------------------------
(* What is measured.                                                       *)

\* Whole quotients by what the code divides by.
LEMMA Quotients ==
  ASSUME NEW d \in Nat \ {0}
  PROVE  /\ \A n \in Int : n \div d \in Int
         /\ \A n \in Nat : n \div d \in Nat
OBVIOUS

\* The watts that appliances reserve, one by one.
Reserved(appliances) == UNION {{a} \X (1..o.reserves[a]) : a \in appliances}

LEMMA WattsCount ==
  ASSUME o \in OptionsType, NEW S \in SUBSET Appliances
  PROVE  /\ IsFiniteSet(Reserved(S))
         /\ Watts(o, S) = Cardinality(Reserved(S)) /\ Watts(o, S) \in Nat
<1> DEFINE part(a) == {a} \X (1..o.reserves[a])
           parts == {part(a) : a \in S}
           f == [a \in S |-> part(a)]
<1>1. ASSUME NEW a \in S PROVE IsFiniteSet(part(a))
  <2>1. o.reserves[a] \in Int /\ 1 \in Int
    BY DEF OptionsType
  <2>2. IsFiniteSet(1..o.reserves[a]) /\ IsFiniteSet({a})
    BY <2>1, FS_Interval, FS_Singleton
  <2>3. QED
    BY <2>2, FS_Product
<1>2. IsFiniteSet(parts)
  <2>1. IsFiniteSet(S)
    BY ReaderAssumption, FS_Subset
  <2>2. f \in Surjection(S, parts)
    BY DEF Surjection
  <2>3. QED
    <3> HIDE DEF f, parts
    <3>1. QED BY <2>1, <2>2, FS_Surjection
<1>3. \A T \in parts : IsFiniteSet(T)
  BY <1>1
<1>4. Reserved(S) = UNION parts
  BY DEF Reserved
<1> HIDE DEF parts
<1>5. IsFiniteSet(Reserved(S))
  BY <1>2, <1>3, <1>4, FS_UNION
<1>6. QED
  BY <1>5, FS_CardinalityType DEF Watts, Reserved

\* What is either metered or reserved for is accounted for (headroom_with_reservations).
LEMMA WattsCovered ==
  ASSUME o \in OptionsType,
         NEW S \in SUBSET Appliances, NEW T \in SUBSET Appliances, NEW U \in SUBSET Appliances,
         \A a \in S : a \in T \/ a \in U \/ o.reserves[a] = 0
  PROVE  Watts(o, S) <= Watts(o, T) + Watts(o, U)
<1>1. Reserved(S) \in SUBSET (Reserved(T) \cup Reserved(U))
  BY DEF Reserved
<1>2. /\ IsFiniteSet(Reserved(T)) /\ IsFiniteSet(Reserved(U))
      /\ Watts(o, T) = Cardinality(Reserved(T)) /\ Watts(o, U) = Cardinality(Reserved(U))
      /\ Watts(o, S) = Cardinality(Reserved(S))
      /\ Watts(o, T) \in Nat /\ Watts(o, U) \in Nat /\ Watts(o, S) \in Nat
  BY WattsCount
<1>3. /\ IsFiniteSet(Reserved(T) \cup Reserved(U))
      /\ Cardinality(Reserved(T) \cup Reserved(U)) =
           Watts(o, T) + Watts(o, U) - Cardinality(Reserved(T) \cap Reserved(U))
  BY <1>2, FS_Union
<1>4. Cardinality(Reserved(T) \cap Reserved(U)) \in Nat
  BY <1>2, FS_Intersection, FS_CardinalityType
<1>5. Watts(o, S) <= Cardinality(Reserved(T) \cup Reserved(U))
  BY <1>1, <1>2, <1>3, FS_Subset
<1>6. QED
  BY <1>2, <1>3, <1>4, <1>5

\* The car draws some power, whatever it got.
LEMMA CarDraws ==
  ASSUME home \in Homes, setpoint \in Nat, got \in Nat
  PROVE  CarDraw \in Nat
<1> DEFINE bucket == Min({got \div BucketSize, LastBucket})
           offered == setpoint * WattsPerAmp
<1>1. bucket \in Buckets
  <2>1. got \div BucketSize \in Nat /\ LastBucket \in Nat
    BY PlanAssumption, Quotients
  <2>2. bucket = IF got \div BucketSize <= LastBucket THEN got \div BucketSize ELSE LastBucket
    BY <2>1, PairMaxMin
  <2>3. QED
    BY <2>1, <2>2 DEF Buckets
<1>2. home.draws[bucket] \in Nat
  BY <1>1, HomeIsHousehold DEF HouseholdType
<1>3. offered \in Nat
  <2>1. WattsPerAmp \in Nat
    BY ThresholdAssumption
  <2>2. QED
    BY <2>1
<1> DEFINE taken == home.draws[bucket]
<1>4. Min({offered, taken}) \in Nat
  <2>1. offered \in Int /\ taken \in Int /\ offered \in Nat /\ taken \in Nat
    BY <1>2, <1>3
  <2> HIDE DEF offered, taken
  <2>2. Min({offered, taken}) = IF offered <= taken THEN offered ELSE taken
    BY <2>1, PairMaxMin
  <2>3. QED BY <2>1, <2>2
<1>5. QED
  BY <1>4 DEF CarDraw

\* What a power sensor says is a number of watts, or nothing (read_sensor_power_w).
Powers == {"grid", "load", "curtailment", "discharge", "soc", "forecast"}

LEMMA PowersAreRead ==
  ASSUME home \in Homes, reading \in home.readings, metered \subseteq Appliances,
         setpoint \in Nat, got \in Nat,
         NEW name \in Powers
  PROVE  SensorValues[name] \in Int \union {None}
<1>1. {reading.house, reading.sun, reading.soc, reading.forecast, reading.curtailment,
       reading.discharge} \subseteq Int
  BY HomeIsHousehold DEF HouseholdType
<1>2. CarDraw \in Int
  BY CarDraws
<1>3. HouseLoad(metered) \in Int
  BY <1>1, HomeIsHousehold, WattsCount DEF HouseLoad
<1>4. AsWired("grid", HouseLoad(metered) - reading.sun + CarDraw) \in Int
  BY <1>1, <1>2, <1>3 DEF AsWired
<1>5. SensorValues[name] =
        IF name \in reading.dead THEN None
        ELSE CASE name = "grid" -> AsWired("grid", HouseLoad(metered) - reading.sun + CarDraw)
               [] name = "load" -> HouseLoad(metered) + CarDraw
               [] OTHER         -> reading[name]
  BY DEF SensorValues, Sensors, Powers
<1>6. name \in {"curtailment", "discharge", "soc", "forecast"} => reading[name] \in Int
  BY <1>1
<1>7. HouseLoad(metered) + CarDraw \in Int
  BY <1>2, <1>3
<1>8. QED
  BY <1>4, <1>5, <1>6, <1>7 DEF Powers

-----------------------------------------------------------------------------
(* The caps.                                                               *)

\* More of them make no less.
LEMMA ProductGrows ==
  ASSUME NEW c \in Nat, NEW q \in Nat, c <= q, NEW d \in Nat
  PROVE  c * d <= q * d
<1>1. q - c \in Nat /\ q = c + (q - c)
  OBVIOUS
<1>2. PICK k \in Nat : q = c + k
  BY <1>1
<1>3. q * d = c * d + k * d /\ k * d \in Nat /\ c * d \in Nat
  BY <1>2
<1>4. QED BY <1>3

\* What a quotient allows does not exceed what was divided.
LEMMA QuotientFits ==
  ASSUME NEW d \in Nat \ {0}, NEW n \in Nat, NEW c \in Nat, c <= n \div d
  PROVE  c * d <= n
<1>1. (n \div d) * d <= n /\ n \div d \in Nat
  OBVIOUS
<1>2. c * d <= (n \div d) * d
  BY <1>1, ProductGrows
<1>3. c * d \in Nat /\ (n \div d) * d \in Nat
  BY <1>1
<1>4. QED
  BY <1>1, <1>2, <1>3

\* A cap is an offered current that the headroom pays for, or none (cap_to_available_power).
LEMMA CapFits ==
  ASSUME NEW ladder \in SUBSET Nat, IsFiniteSet(ladder), NEW headroom \in Int
  PROVE  /\ CapToAvailablePower(ladder, headroom) \in ladder \union {0}
         /\ CapToAvailablePower(ladder, headroom) > 0 =>
              CapToAvailablePower(ladder, headroom) * WattsPerAmp <= headroom
<1> DEFINE power == Max({0, headroom})
           affordable == {a \in ladder : power > 0 /\ a <= power \div WattsPerAmp}
<1>1. power = IF headroom >= 0 THEN headroom ELSE 0
  <2>1. Max({0, headroom}) = IF 0 >= headroom THEN 0 ELSE headroom
    BY PairMaxMin
  <2>2. QED BY <2>1
<1>2. power \in Nat
  BY <1>1
<1>3. CapToAvailablePower(ladder, headroom) = IF affordable = {} THEN 0 ELSE Max(affordable)
  BY DEF CapToAvailablePower, CurrentSupportedBy
<1> HIDE DEF power
<1>4. CASE affordable = {}
  BY <1>3, <1>4
<1>5. CASE affordable # {}
  <2>1. affordable \in SUBSET ladder /\ affordable \in SUBSET Nat
    OBVIOUS
  <2>2. IsFiniteSet(affordable)
    BY <2>1, FS_Subset
  <2>3. Max(affordable) \in affordable
    <3> HIDE DEF affordable
    <3>1. QED BY <1>5, <2>1, <2>2, FiniteMaxMin
  <2>4. PICK c \in ladder : /\ c = CapToAvailablePower(ladder, headroom)
                            /\ power > 0 /\ c <= power \div WattsPerAmp
    BY <1>3, <1>5, <2>3
  <2>5. WattsPerAmp \in Nat \ {0} /\ c \in Nat
    BY ThresholdAssumption
  <2>6. c * WattsPerAmp <= power
    BY <1>2, <2>4, <2>5, QuotientFits
  <2>7. power = headroom
    BY <1>1, <2>4
  <2>8. QED
    BY <2>4, <2>6, <2>7
<1>6. QED
  BY <1>4, <1>5

\* What is offered is a bounded ladder.
LEMMA OfferedIsLadder ==
  ASSUME home \in Homes
  PROVE  /\ Offered \in SUBSET Nat /\ IsFiniteSet(Offered)
         /\ \E top \in Nat : Offered \subseteq 0..top
<1> DEFINE hardware == HardwareLadder(home.hardware, o.continuous)
<1>1. /\ home.hardware \in HardwareType /\ IsFiniteSet(home.hardware.presets)
      /\ o.ceiling \in Nat /\ o.floor \in Nat /\ o.continuous \in BOOLEAN
  BY HomeIsHousehold DEF HouseholdType, OptionsType
<1>2. hardware \in SUBSET Nat /\ IsFiniteSet(hardware)
  BY <1>1, HardwareIsLadder
<1>3. Offered = InstallationLimits(hardware, o.ceiling, o.floor)
  BY DEF Offered, OfferedCurrents
<1> HIDE DEF hardware
<1>4. Offered \in SUBSET hardware
  BY <1>1, <1>2, <1>3, LimitsNarrow
<1>5. Offered \in SUBSET Nat /\ IsFiniteSet(Offered)
  BY <1>2, <1>4, FS_Subset
<1>6. CASE Offered = {}
  BY <1>5, <1>6
<1>7. CASE Offered # {}
  <2>1. PICK top \in Offered : \A a \in Offered : top >= a
    BY <1>5, <1>7, GreatestExists
  <2>2. top \in Nat /\ Offered \subseteq 0..top
    BY <1>5, <2>1
  <2>3. QED
    BY <1>5, <2>2
<1>8. QED
  BY <1>5, <1>6, <1>7

\* The sensors of an evaluation, and what the caps are taken from.
Measured == /\ home \in Homes /\ reading \in home.readings /\ metered \subseteq Appliances
          /\ setpoint \in Nat /\ got \in Nat

LEMMA HeadroomsAreNumbers ==
  ASSUME Measured, NEW known
  PROVE  /\ GridPower(o, SensorValues) # None =>
              o.loadLimit - (GridPower(o, SensorValues) - CarDraw) \in Int
         /\ InverterCapped(o, SensorValues) =>
              o.inverterLimit - (Read(o, SensorValues, "load") - CarDraw)
                - Watts(o, Reserving(o, known, now)) \in Int
<1>1. CarDraw \in Int /\ o.loadLimit \in Int /\ o.inverterLimit \in Int /\ o \in OptionsType
  BY CarDraws, HomeIsHousehold DEF Measured, OptionsType
<1>2. Watts(o, Reserving(o, known, now)) \in Int
  <2>1. Reserving(o, known, now) \in SUBSET Appliances
    BY DEF Reserving, Listed
  <2>2. QED BY <1>1, <2>1, WattsCount
<1>3. SensorValues["grid"] \in Int \union {None} /\ SensorValues["load"] \in Int \union {None}
  BY PowersAreRead DEF Measured, Powers
<1>4. GridPower(o, SensorValues) \in Int \union {None}
  BY <1>3, NoneAssumption DEF GridPower, Signed, Read
<1>5. Read(o, SensorValues, "load") \in Int \union {None}
  BY <1>3 DEF Read
<1>6. QED
  BY <1>1, <1>2, <1>4, <1>5 DEF InverterCapped

\* Both caps are offered currents that fit, or none at all; so is the tighter one, which
\* is no higher than either (load_limit_current, inverter_limit_current, protection_cap).
LEMMA CapIsTightest ==
  ASSUME Measured, NEW known
  PROVE  LET s    == SensorValues
             load == LoadLimitCurrent(o, s, CarDraw, Offered)
             inv  == InverterLimitCurrent(o, s, CarDraw, Offered, known, now)
             cap  == ProtectionCap(o, s, CarDraw, Offered, known, now)
         IN  /\ {load, inv, cap} \subseteq Offered \union {0, None}
             /\ load # None => cap # None /\ cap <= load
             /\ inv # None => cap # None /\ cap <= inv
<1> DEFINE s    == SensorValues
           load == LoadLimitCurrent(o, s, CarDraw, Offered)
           inv  == InverterLimitCurrent(o, s, CarDraw, Offered, known, now)
           cap  == ProtectionCap(o, s, CarDraw, Offered, known, now)
           caps == {load, inv} \ {None}
<1>1. Offered \in SUBSET Nat /\ IsFiniteSet(Offered)
  BY OfferedIsLadder DEF Measured
<1>2. load \in Offered \union {0, None}
  BY <1>1, CapFits, HeadroomsAreNumbers DEF LoadLimitCurrent
<1>3. inv \in Offered \union {0, None}
  BY <1>1, CapFits, HeadroomsAreNumbers DEF InverterLimitCurrent
<1>4. cap = IF caps = {} THEN None ELSE Min(caps)
  BY DEF ProtectionCap
<1>5. caps # {} => Min(caps) \in caps /\ \A c \in caps : Min(caps) <= c
  <2>1. caps \in SUBSET Nat /\ IsFiniteSet(caps)
    <3>1. IsFiniteSet({load, inv})
      <4>1. IsFiniteSet({load} \union {inv})
        BY FS_Singleton, FS_AddElement
      <4>2. {load, inv} = {load} \union {inv}
        OBVIOUS
      <4>3. QED BY <4>1, <4>2
    <3>2. IsFiniteSet(caps)
      BY <3>1, FS_Subset
    <3>3. caps \in SUBSET Nat
      <4> HIDE DEF load, inv
      <4>1. QED BY <1>1, <1>2, <1>3
    <3>4. QED BY <3>2, <3>3
  <2> HIDE DEF caps
  <2>2. QED BY <2>1, FiniteMaxMin
<1> HIDE DEF load, inv, cap
<1>6. QED
  BY <1>2, <1>3, <1>4, <1>5 DEF load, inv, cap

-----------------------------------------------------------------------------
(* The context, and the verdict on it.                                     *)

\* Whatever was announced and whatever the flag, the gates get a ladder that the cap has
\* narrowed and is on, unless it left nothing (_build_gate_context).
LEMMA ContextIsSound ==
  ASSUME Measured, NEW known, NEW flag, NEW window
  PROVE  /\ IsContext(Context(Sight(known, flag), window))
         /\ Sight(known, flag).ladder \subseteq Offered
         /\ Sight(known, flag).cap \in Nat \union {None}
         /\ Sight(known, flag).cap # None =>
              \A a \in Sight(known, flag).ladder : a <= Sight(known, flag).cap
<1> DEFINE sight == Sight(known, flag)
           seen == Observed(o, SensorValues, known, on, now)
           cap == ProtectionCap(o, SensorValues, CarDraw, Offered, seen, now)
           ladder == {a \in Offered : cap = None \/ a <= cap}
           c == Context(sight, window)
<1>1. sight.cap = cap /\ sight.ladder = ladder
  BY DEF Sight
<1>2. c.ladder = sight.ladder /\ c.cap = sight.cap /\ c.current = setpoint /\ c.forceCurrent = None
  BY DEF Context
<1>3. /\ Offered \in SUBSET Nat
      /\ \E top \in Nat : Offered \subseteq 0..top
  BY OfferedIsLadder DEF Measured
<1>4. cap \in Offered \union {0, None}
  BY CapIsTightest
<1> HIDE DEF cap, sight, c
<1>5. ladder # {} => cap \in ladder \union {None}
  <2>1. SUFFICES ASSUME NEW a \in ladder, cap # None PROVE cap \in ladder
    OBVIOUS
  <2>2. a \in Offered /\ a \in Nat /\ a <= cap
    BY <1>3, <2>1
  <2>3. cap \in Offered
    BY <1>3, <1>4, <2>1, <2>2
  <2>4. cap <= cap
    BY <1>3, <2>3
  <2>5. QED BY <2>3, <2>4
<1>6. setpoint \in Nat
  BY DEF Measured
<1>7. IsContext(c)
  BY <1>1, <1>2, <1>3, <1>5, <1>6 DEF IsContext
<1>8. cap \in Nat \union {None}
  BY <1>3, <1>4
<1>9. QED
  BY <1>1, <1>7, <1>8 DEF sight, c

\* What the gates decide can be carried out.
LEMMA DecisionIsSound ==
  ASSUME Measured, timers \in TimerState, NEW known, NEW flag
  PROVE  LET v == Decision(Sight(known, flag), timers)
         IN  /\ v.action \in Actions
             /\ v.target \in Sight(known, flag).ladder \union {None}
             /\ v.action = "SET" => v.target \in Sight(known, flag).ladder
             /\ v.timers \in TimerState
<1> DEFINE sight == Sight(known, flag)
           c == Context(sight, Planned(sight, TallyNow, CurveNow))
<1>1. IsContext(c) /\ c.ladder = sight.ladder
  BY ContextIsSound DEF Context
<1>2. Decision(sight, timers) = Evaluate(c, timers)
  BY DEF Decision
<1>3. IsVerdict(Evaluate(c, timers), c)
  <2> HIDE DEF c
  <2>1. QED BY <1>1, VerdictSound
<1> HIDE DEF c, sight
<1>4. QED
  BY <1>1, <1>2, <1>3 DEF IsVerdict, sight

-----------------------------------------------------------------------------
(* Types.                                                                  *)

\* A curve stays a curve: no mean of powers is negative (ChargeCurve.record).
LEMMA CurveKeepsType ==
  ASSUME NEW known \in CurveType, NEW delivered \in Nat, NEW power \in Nat
  PROVE  Sampled(known, delivered, power) \in CurveType
<1> DEFINE b == Min({delivered \div BucketSize, LastBucket})
           seen == known[b]
           mean == IF seen.count = 0 THEN power ELSE seen.power + ((power - seen.power) \div 5)
           count == Min({seen.count + 1, MinSamples})
<1>1. b \in Buckets
  <2>1. delivered \div BucketSize \in Nat /\ LastBucket \in Nat
    BY PlanAssumption, Quotients
  <2>2. b = IF delivered \div BucketSize <= LastBucket THEN delivered \div BucketSize
            ELSE LastBucket
    BY <2>1, PairMaxMin
  <2>3. QED
    BY <2>1, <2>2 DEF Buckets
<1> HIDE DEF b
<1>2. seen.power \in Nat /\ seen.count \in 0..MinSamples /\ MinSamples \in Nat
  BY <1>1, PlanAssumption DEF CurveType
<1> DEFINE was == seen.power
           times == seen.count
<1>3. mean \in Nat
  <2>1. was \in Nat
    BY <1>2
  <2> HIDE DEF was
  <2>2. was + ((power - was) \div 5) \in Nat
    BY <2>1
  <2>3. QED
    BY <2>2 DEF was
<1>4. count \in 0..MinSamples
  <2>1. times \in Nat /\ times + 1 \in Int /\ MinSamples \in Int /\ MinSamples \in Nat
    BY <1>2
  <2> HIDE DEF times
  <2>2. Min({times + 1, MinSamples}) = IF times + 1 <= MinSamples THEN times + 1 ELSE MinSamples
    BY <2>1, PairMaxMin
  <2>3. Min({times + 1, MinSamples}) \in 0..MinSamples
    BY <2>1, <2>2
  <2>4. QED
    BY <2>3 DEF times
<1> DEFINE entry == [power |-> mean, count |-> count]
<1>5. entry \in [power : Nat, count : 0..MinSamples]
  BY <1>3, <1>4
<1>6. Sampled(known, delivered, power) =
        IF power < MinSamplePower THEN known ELSE [known EXCEPT ![b] = entry]
  BY DEF Sampled, b
<1> HIDE DEF entry
<1>7. [known EXCEPT ![b] = entry] \in CurveType
  BY <1>1, <1>5 DEF CurveType
<1>8. QED
  BY <1>6, <1>7

\* What an evaluation samples of a session (_update_session_energy).
LEMMA SamplesAreTyped ==
  ASSUME InputsTypeOK
  PROVE  /\ CarDraw \in Nat /\ TallyNow \in Nat /\ CurveNow \in CurveType
         /\ SampledAtNow \in (0..now) \union {None}
<1>1. CarDraw \in Nat
  BY CarDraws DEF InputsTypeOK
<1>2. TallyNow \in Nat
  <2>1. CASE ~Sampling
    BY <2>1 DEF TallyNow, InputsTypeOK
  <2>2. CASE Sampling
    <3>1. now - sampledAt \in Nat
      BY <2>2, NoneAssumption DEF Sampling, InputsTypeOK
    <3> DEFINE lapse == now - sampledAt
    <3>2. CarDraw * lapse \in Nat
      <4>1. lapse \in Nat
        BY <3>1
      <4> HIDE DEF lapse
      <4>2. QED BY <1>1, <4>1
    <3>3. tally \in Nat /\ TallyNow = tally + CarDraw * lapse
      BY <2>2 DEF TallyNow, InputsTypeOK
    <3> HIDE DEF lapse
    <3>4. QED BY <3>2, <3>3
  <2>3. QED BY <2>1, <2>2
<1>3. CurveNow \in CurveType
  BY <1>1, <1>2, CurveKeepsType DEF CurveNow, InputsTypeOK
<1>4. SampledAtNow \in (0..now) \union {None}
  BY DEF SampledAtNow, InputsTypeOK
<1>5. QED
  BY <1>1, <1>2, <1>3, <1>4

\* The surplus is a number of watts, or is not looked at (_raw_surplus_w).
LEMMA SurplusIsRead ==
  ASSUME InputsTypeOK, NEW ready
  PROVE  /\ RawSurplusOf(SensorValues, ready) \in Int \union {None}
         /\ o.mode /\ GridPower(o, SensorValues) # None =>
              RawSurplusOf(SensorValues, ready) \in Int
<1> DEFINE s == SensorValues
<1>1. \A name \in Powers : s[name] \in Int \union {None}
  BY PowersAreRead DEF InputsTypeOK
<1>2. \A name \in Powers : Signed(o, s, name) \in Int \union {None}
  BY <1>1, NoneAssumption DEF Signed, Read
<1>3. ASSUME NEW name \in Powers PROVE PowerOrNothing(o, s, name) \in Int
  <2>1. Signed(o, s, name) \in Int => Max({0, Signed(o, s, name)}) \in Int
    BY PairMaxMin
  <2>2. QED
    BY <1>2, <2>1 DEF PowerOrNothing
<1>4. AllowedBatteryDischarge(o) \in Int
  BY HomeIsHousehold DEF AllowedBatteryDischarge, OptionsType, InputsTypeOK
<1> DEFINE curtailed == IF ready THEN PowerOrNothing(o, s, "curtailment") ELSE 0
           excess == PowerOrNothing(o, s, "discharge") - AllowedBatteryDischarge(o)
           overLimit == Max({0, excess})
<1>5. curtailed \in Int
  BY <1>3 DEF Powers
<1>6. overLimit \in Int
  <2>1. excess \in Int
    BY <1>3, <1>4 DEF Powers
  <2> HIDE DEF excess
  <2>2. QED BY <2>1, PairMaxMin
<1>7. CarDraw \in Int
  BY SamplesAreTyped
<1>8. GridPower(o, s) \in Int \union {None}
  BY <1>2 DEF GridPower, Powers
<1>9. RawSurplus(o, s, CarDraw, ready) = CarDraw - GridPower(o, s) + curtailed - overLimit
  BY DEF RawSurplus
<1> HIDE DEF s, curtailed, overLimit
<1>10. GridPower(o, s) # None => RawSurplus(o, s, CarDraw, ready) \in Int
  BY <1>5, <1>6, <1>7, <1>8, <1>9
<1>11. QED
  BY <1>10 DEF RawSurplusOf, s

\* The rolling state of the forecast after a sample (apply_forecast).
LEMMA ForecastRolls ==
  ASSUME InputsTypeOK, NEW raw \in Int, NEW seen \in Int \union {None}
  PROVE  /\ NextForecast(forecast, raw, seen, now).ema \in Int
         /\ NextForecast(forecast, raw, seen, now).at = now
<1> DEFINE blended == (raw * (100 - ForecastWeight) + seen * ForecastWeight) \div 100
           step == Min({now - forecast.at, Smoothing})
           ema == forecast.ema
<1>1. now \in Nat /\ forecast.at \in Nat /\ ema \in Int \union {None}
  BY HouseholdAssumption DEF InputsTypeOK
<1>2. ForecastWeight \in Nat /\ Smoothing \in Nat \ {0}
  BY ReaderAssumption
<1>3. seen \in Int => blended \in Int
  <2>1. seen \in Int => raw * (100 - ForecastWeight) + seen * ForecastWeight \in Int
    BY <1>2
  <2> DEFINE sum == raw * (100 - ForecastWeight) + seen * ForecastWeight
  <2> HIDE DEF sum
  <2>2. sum \in Int => sum \div 100 \in Int
    OBVIOUS
  <2>3. QED BY <2>1, <2>2 DEF sum
<1>4. step \in Int
  <2>1. now - forecast.at \in Int /\ Smoothing \in Int
    BY <1>1, <1>2
  <2>2. QED BY <2>1, PairMaxMin
<1> HIDE DEF step, blended, ema
<1>5. blended \in Int /\ ema # None => ema + ((blended - ema) * step) \div Smoothing \in Int
  <2> SUFFICES ASSUME blended \in Int, ema # None
               PROVE  ema + ((blended - ema) * step) \div Smoothing \in Int
    OBVIOUS
  <2> DEFINE change == (blended - ema) * step
  <2>1. change \in Int
    BY <1>1, <1>4
  <2> HIDE DEF change
  <2>2. change \div Smoothing \in Int
    BY <1>2, <2>1, Quotients
  <2> DEFINE part == change \div Smoothing
  <2>3. part \in Int /\ ema \in Int
    BY <1>1, <2>2
  <2> HIDE DEF part
  <2>4. ema + part \in Int
    BY <2>3
  <2>5. QED BY <2>4 DEF part, change
<1>6. seen # None => Smoothed(forecast, Blended(raw, seen), now) \in Int
  BY <1>3, <1>5 DEF Smoothed, Blended, blended, step, ema
<1>7. QED
  BY <1>6 DEF NextForecast

\* Looking keeps the types of what is remembered.
LEMMA SightIsTyped ==
  ASSUME InputsTypeOK
  PROVE  /\ SightNow.announced \in [Appliances -> (0..now) \union {None}]
         /\ SightNow.flag \in BOOLEAN \union {None}
         /\ SightNow.forecast.ema \in Int \union {None} /\ SightNow.forecast.at \in 0..now
<1> DEFINE s == SensorValues
           ready == BatteryReady(o, s, batteryFlag)
           raw == RawSurplusOf(s, ready)
           seen == Read(o, s, "forecast")
<1>1. SightNow.announced = Observed(o, s, announced, on, now)
  BY DEF SightNow, Sight
<1>2. now \in 0..now /\ announced \in [Appliances -> (0..now) \union {None}]
  BY HouseholdAssumption DEF InputsTypeOK
<1>3. Observed(o, s, announced, on, now) \in [Appliances -> (0..now) \union {None}]
  BY <1>2 DEF Observed
<1>4. SightNow.flag \in BOOLEAN \union {None}
  <2>1. SightNow.flag = BatteryFlag(o, s, batteryFlag)
    BY DEF SightNow, Sight
  <2>2. batteryFlag \in BOOLEAN \union {None}
    BY DEF InputsTypeOK
  <2> DEFINE soc == Read(o, s, "soc")
  <2>3. (soc > o.low) \in BOOLEAN /\ (soc >= o.high) \in BOOLEAN
    BY SMT
  <2>4. BatteryHysteresis(soc, o, batteryFlag) \in BOOLEAN
    BY <2>3, Zenon DEF BatteryHysteresis
  <2>5. BatteryFlag(o, s, batteryFlag) \in {batteryFlag, BatteryHysteresis(soc, o, batteryFlag)}
    BY DEF BatteryFlag
  <2> HIDE DEF soc, s
  <2>6. QED BY <2>1, <2>2, <2>4, <2>5, Zenon
<1>5. SightNow.forecast = IF raw = None THEN forecast ELSE NextForecast(forecast, raw, seen, now)
  BY DEF SightNow, Sight
<1>6. raw \in Int \union {None}
  BY SurplusIsRead
<1>7. seen \in Int \union {None}
  BY PowersAreRead DEF Read, Powers, InputsTypeOK
<1>8. /\ forecast.ema \in Int \union {None} /\ forecast.at \in 0..now
      /\ now \in 0..now
  BY <1>2 DEF InputsTypeOK
<1> HIDE DEF raw, seen, s
<1>9. SightNow.forecast.ema \in Int \union {None} /\ SightNow.forecast.at \in 0..now
  BY <1>5, <1>6, <1>7, <1>8, ForecastRolls
<1>10. QED
  BY <1>1, <1>3, <1>4, <1>9

\* A new controller in a house.
LEMMA TypedAtFirst == Init => InputsTypeOK
<1> SUFFICES ASSUME Init PROVE InputsTypeOK
  OBVIOUS
<1>1. home \in Homes /\ reading \in home.readings
  BY DEF Init
<1>2. /\ o.low < o.high /\ home.curve \in CurveType /\ Horizon \in Nat
  BY <1>1, HomeIsHousehold, HouseholdAssumption DEF HouseholdType
<1>3. Min(AllowedCurrents) \in Nat /\ Max(AllowedCurrents) \in Nat
  BY AllowedAssumption, FiniteMaxMin
<1>4. FreshTimers \in TimerState
  BY DelayAssumption DEF FreshTimers, TimerState
<1>5. /\ since \in [Appliances -> 0..Horizon] /\ now \in 0..Horizon
      /\ announced \in [Appliances -> (0..now) \union {None}]
      /\ sampledAt \in (0..now) \union {None}
  BY <1>2 DEF Init
<1>6. forecast.ema \in Int \union {None} /\ forecast.at \in 0..now
  BY DEF Init
<1>7. /\ curve \in CurveType /\ timers \in TimerState /\ setpoint \in Nat
      /\ {tally, got, carried} \subseteq Nat /\ batteryFlag \in BOOLEAN \union {None}
  BY <1>2, <1>3, <1>4 DEF Init
<1>8. /\ on \subseteq Appliances /\ metered \subseteq Appliances
      /\ {charging, due, session, pressed} \subseteq BOOLEAN
  BY DEF Init
<1>9. QED
  BY <1>1, <1>2, <1>5, <1>6, <1>7, <1>8 DEF InputsTypeOK, o

\* An evaluation, whatever it decides.
LEMMA EvaluationTyped ==
  ASSUME InputsTypeOK, EvaluateOnce
  PROVE  InputsTypeOK'
<1> DEFINE v == Decision(SightNow, timers)
<1>1. Measured
  BY DEF InputsTypeOK, Measured
<1>2. /\ v.action \in Actions
      /\ v.target \in SightNow.ladder \union {None}
      /\ v.timers \in TimerState
  BY <1>1, DecisionIsSound DEF SightNow, InputsTypeOK
<1>3. SightNow.ladder \subseteq Nat
  BY <1>1, ContextIsSound, OfferedIsLadder DEF SightNow, Measured
<1>4. /\ timers' = Stamped(v)
      /\ charging' = (Starts(v) \/ (charging /\ ~Stops(v)))
      /\ setpoint' = IF v.action \in {"SET", "START"} /\ v.target # None
                       THEN v.target ELSE setpoint
      /\ SessionAfter(v)
      /\ due' \in {FALSE, v.action \in {"SET", "START"} \/ Stops(v)}
      /\ pressed' = (charging' /\ (pressed \/ Planned(SightNow, TallyNow, CurveNow) = "deadline"))
      /\ announced' = SightNow.announced /\ batteryFlag' = SightNow.flag
      /\ forecast' = SightNow.forecast
      /\ curve' = CurveNow
      /\ UNCHANGED << home, reading, on, metered, since, now, got, carried >>
  BY DEF EvaluateOnce, InputsRead
<1>5. Stamped(v) \in TimerState
  <2>1. 0 \in 0..UpCooldown /\ 0 \in 0..DownCooldown
    BY DelayAssumption
  <2> DEFINE t == v.timers
  <2>2. t \in TimerState
    BY <1>2
  <2>3. Stamped(v) \in {t, [t EXCEPT !.increase = 0], [t EXCEPT !.decrease = 0],
                        [t EXCEPT !.increase = 0, !.decrease = 0]}
    BY DEF Stamped
  <2> HIDE DEF t
  <2>4. /\ [t EXCEPT !.increase = 0] \in TimerState /\ [t EXCEPT !.decrease = 0] \in TimerState
        /\ [t EXCEPT !.increase = 0, !.decrease = 0] \in TimerState
    BY <2>1, <2>2 DEF TimerState
  <2>5. QED BY <2>2, <2>3, <2>4
<1>6. setpoint' \in Nat
  BY <1>2, <1>3, <1>4 DEF InputsTypeOK
<1>7. CarDraw \in Nat /\ TallyNow \in Nat /\ CurveNow \in CurveType
      /\ SampledAtNow \in (0..now) \union {None}
  BY SamplesAreTyped
<1>8. tally' \in Nat /\ sampledAt' \in (0..now) \union {None} /\ session' \in BOOLEAN
  <2>1. now \in 0..now
    BY HouseholdAssumption DEF InputsTypeOK
  <2>2. tally' = (IF Starts(v) /\ ~session THEN 0 ELSE TallyNow)
    BY <1>4 DEF SessionAfter
  <2>3. sampledAt' = CASE Stops(v) -> None
                       [] Starts(v) /\ ~session -> now
                       [] OTHER -> SampledAtNow
    BY <1>4 DEF SessionAfter
  <2>4. session' \in BOOLEAN
    BY <1>4 DEF SessionAfter
  <2> HIDE DEF v
  <2>5. QED BY <1>7, <2>1, <2>2, <2>3, <2>4
<1>9. /\ SightNow.announced \in [Appliances -> (0..now) \union {None}]
      /\ SightNow.flag \in BOOLEAN \union {None}
      /\ SightNow.forecast.ema \in Int \union {None} /\ SightNow.forecast.at \in 0..now
  BY SightIsTyped
<1>10. charging' \in BOOLEAN /\ due' \in BOOLEAN /\ pressed' \in BOOLEAN
  <2> HIDE DEF v
  <2>1. QED BY <1>4
<1> HIDE DEF v
<1>11. UNCHANGED << home, reading, on, metered, since, now, got, carried >>
  BY <1>4
<1>12. /\ announced' \in [Appliances -> (0..now') \union {None}]
       /\ batteryFlag' \in BOOLEAN \union {None}
       /\ forecast'.ema \in Int \union {None} /\ forecast'.at \in 0..now'
       /\ curve' \in CurveType /\ timers' \in TimerState
       /\ sampledAt' \in (0..now') \union {None}
  BY <1>4, <1>5, <1>7, <1>8, <1>9
<1>13. QED
  BY <1>6, <1>8, <1>10, <1>11, <1>12 DEF InputsTypeOK, o

\* The household's own steps.
LEMMA HouseholdTyped ==
  ASSUME InputsTypeOK,
         ReadingChanges \/ (\E a \in Appliances : Switch(a)) \/ Meter \/ AppActs
  PROVE  InputsTypeOK'
<1>1. CASE ReadingChanges
  BY <1>1 DEF ReadingChanges, Heard, InputsTypeOK, inputVars, o
<1>2. ASSUME NEW a \in Appliances, Switch(a) PROVE InputsTypeOK'
  <2>1. home.appliances \subseteq Appliances
    BY HomeIsHousehold DEF HouseholdType, InputsTypeOK
  <2>2. on' \subseteq Appliances
    BY <1>2, <2>1 DEF Switch, InputsTypeOK
  <2>3. since' \in [Appliances -> 0..Horizon]
    BY <1>2, HouseholdAssumption DEF Switch, InputsTypeOK
  <2>4. QED
    BY <1>2, <2>2, <2>3 DEF Switch, Heard, InputsTypeOK, inputVars, o
<1>3. CASE Meter
  BY <1>3 DEF Meter, Heard, InputsTypeOK, inputVars, o
<1>4. CASE AppActs
  <2>1. Max(AllowedCurrents) \in Nat
    BY AllowedAssumption, FiniteMaxMin
  <2>2. setpoint' \in Nat
    BY <1>4, <2>1 DEF AppActs, InputsTypeOK
  <2>3. QED
    BY <1>4, <2>2 DEF AppActs, Heard, InputsTypeOK, inputVars, worldVars, o
<1>5. QED
  BY <1>1, <1>2, <1>3, <1>4

\* Time: everything that was dated by then still is.
LEMMA TickTyped ==
  ASSUME InputsTypeOK, Tick
  PROVE  InputsTypeOK'
<1>1. now \in Nat /\ Horizon \in Nat /\ now < home.lasts /\ home.lasts \in 1..Horizon
  BY HomeIsHousehold, HouseholdAssumption DEF HouseholdType, InputsTypeOK, Tick
<1>2. now' = now + 1
  BY DEF Tick
<1>3. now' \in 0..Horizon /\ 0..now \subseteq 0..now'
  BY <1>1, <1>2
<1>4. timers' \in TimerState
  BY TimersStayInRange DEF Tick, InputsTypeOK
<1>5. got' \in Nat
  <2>1. CarDraw \in Nat /\ got \in Nat
    BY SamplesAreTyped DEF InputsTypeOK
  <2>2. got' \in {0, CarDraw, got + CarDraw}
    BY DEF Tick
  <2>3. QED BY <2>1, <2>2
<1>6. carried' \in Nat
  BY DEF Tick, InputsTypeOK
<1>7. /\ announced' \in [Appliances -> (0..now') \union {None}]
      /\ forecast'.at \in 0..now' /\ sampledAt' \in (0..now') \union {None}
  BY <1>3 DEF Tick, InputsTypeOK
<1>8. pressed' \in BOOLEAN /\ due' \in BOOLEAN
  BY DEF Tick, Heard
<1>9. QED
  BY <1>3, <1>4, <1>5, <1>6, <1>7, <1>8 DEF Tick, InputsTypeOK, o

\* Every step keeps them.
LEMMA InputsTypedStep ==
  ASSUME InputsTypeOK, [Next]_vars
  PROVE  InputsTypeOK'
<1>1. CASE EvaluateOnce
  BY <1>1, EvaluationTyped
<1>2. CASE DryRun
  BY <1>2, SightIsTyped DEF DryRun, InputsRead, InputsTypeOK, worldVars, o
<1>3. CASE ReadingChanges \/ (\E a \in Appliances : Switch(a)) \/ Meter \/ AppActs
  BY <1>3, HouseholdTyped
<1>4. CASE Tick
  BY <1>4, TickTyped
<1>5. CASE UNCHANGED vars
  BY <1>5 DEF InputsTypeOK, vars, inputVars, worldVars, o
<1>6. QED
  BY <1>1, <1>2, <1>3, <1>4, <1>5 DEF Next

\* For every household, whatever its sensors say or fail to say, what the controller
\* remembers of its inputs stays well formed: no stamp is ever in the future, the tally is
\* no debt, the thresholds stay apart, and no current is anything but one.
THEOREM InputsTyped == InputsSpec => []InputsTypeOK
<1>1. Init => InputsTypeOK
  BY TypedAtFirst
<1>2. InputsTypeOK /\ [Next]_vars => InputsTypeOK'
  BY InputsTypedStep
<1>3. QED
  BY <1>1, <1>2, PTL DEF InputsSpec

-----------------------------------------------------------------------------
(* Reservations, and the limits they are for.                              *)

\* No announcement goes unseen: the appliances are only looked at while the inverter's cap
\* is computed, so one that is switched off and on again while the load cannot be read
\* keeps the date of its first announcement, and its reservation may be over.
LoadIsSeen == \A r \in home.readings : "load" \notin r.dead
AppliancesAreSeen == home.appliances = {} \/ LoadIsSeen

\* Only appliances that may be switched are on.
OnlyTheSwitched == on \subseteq home.appliances

\* Once an evaluation has answered, an appliance that is on was announced when it was
\* switched on, and one that is off is forgotten.
AnnouncedInStep ==
  LoadIsSeen /\ o.inverterLimit > 0 /\ "load" \in o.sensors =>
    \A a \in Listed(o) :
      /\ a \in on => \/ announced[a] = since[a]
                     \/ announced[a] = None /\ since[a] = now /\ due
      /\ a \notin on => announced[a] = None \/ due

\* The meters miss an appliance only for as long as its reservation lasts.
MetersLagBriefly == \A a \in on \ metered : now - since[a] < ReservationWindow

LimitsInv ==
  /\ InputsTypeOK
  /\ OnlyTheSwitched
  /\ AnnouncedInStep
  /\ MetersLagBriefly
  /\ AppliancesAreSeen => LimitsHold

LEMMA LoadIsCapped ==
  ASSUME InputsTypeOK, LoadIsSeen, o.inverterLimit > 0, "load" \in o.sensors
  PROVE  InverterCapped(o, SensorValues)
<1>1. "load" \notin reading.dead
  BY DEF LoadIsSeen, InputsTypeOK
<1>2. SensorValues["load"] = HouseLoad(metered) + CarDraw
  BY <1>1 DEF SensorValues, Sensors
<1>3. HouseLoad(metered) \in Int /\ CarDraw \in Int
  BY SamplesAreTyped, HomeIsHousehold, WattsCount DEF HouseLoad, HouseholdType, InputsTypeOK
<1>4. SensorValues["load"] # None
  BY <1>2, <1>3, NoneAssumption
<1>5. QED
  BY <1>4 DEF InverterCapped, Read

\* What looking at the appliances leaves behind (ReservationTracker.observe).
LEMMA SeenInStep ==
  ASSUME InputsTypeOK, OnlyTheSwitched, AnnouncedInStep, AppliancesAreSeen,
         InverterCapped(o, SensorValues), NEW a \in Listed(o)
  PROVE  LET seen == Observed(o, SensorValues, announced, on, now)
         IN  seen[a] = IF a \in on THEN since[a] ELSE None
<1> DEFINE seen == Observed(o, SensorValues, announced, on, now)
<1>1. seen[a] = IF a \notin on THEN None ELSE IF announced[a] = None THEN now ELSE announced[a]
  BY DEF Observed, Listed
<1>2. CASE a \notin on
  BY <1>1, <1>2
<1>3. CASE a \in on
  <2>1. LoadIsSeen
    BY <1>3 DEF AppliancesAreSeen, OnlyTheSwitched
  <2>2. o.inverterLimit > 0 /\ "load" \in o.sensors
    BY DEF InverterCapped, Read
  <2>3. \/ announced[a] = since[a]
        \/ announced[a] = None /\ since[a] = now
    BY <1>3, <2>1, <2>2 DEF AnnouncedInStep
  <2>4. since[a] # None
    BY NoneAssumption DEF InputsTypeOK, Listed
  <2>5. QED
    BY <1>1, <1>3, <2>3, <2>4
<1>4. QED
  BY <1>2, <1>3

\* So an evaluation, and the question what it would be, leave them in step.
LEMMA StepsKept ==
  ASSUME InputsTypeOK, OnlyTheSwitched, AnnouncedInStep, announced' = SightNow.announced,
         UNCHANGED << home, on, since >>
  PROVE  AnnouncedInStep'
<1> SUFFICES ASSUME LoadIsSeen', o'.inverterLimit > 0, "load" \in o'.sensors,
                    NEW a \in Listed(o')
             PROVE  announced'[a] = IF a \in on THEN since[a] ELSE None
  BY DEF AnnouncedInStep, Listed
<1>1. LoadIsSeen /\ o' = o
  BY DEF LoadIsSeen, o
<1>2. InverterCapped(o, SensorValues)
  BY <1>1, LoadIsCapped
<1>3. announced' = Observed(o, SensorValues, announced, on, now)
  BY DEF SightNow, Sight
<1>4. QED
  BY <1>1, <1>2, <1>3, SeenInStep DEF AppliancesAreSeen

\* A charge that goes on after an evaluation is within the cap it was decided under.
LEMMA CapIsKept ==
  ASSUME InputsTypeOK, EvaluateOnce, charging', SightNow.cap # None
  PROVE  setpoint' <= SightNow.cap
<1> DEFINE v == Decision(SightNow, timers)
           c == Context(SightNow, Planned(SightNow, TallyNow, CurveNow))
           cap == SightNow.cap
<1>1. Measured
  BY DEF InputsTypeOK, Measured
<1>2. /\ charging' = (Starts(v) \/ (charging /\ ~Stops(v)))
      /\ setpoint' = IF v.action \in {"SET", "START"} /\ v.target # None
                       THEN v.target ELSE setpoint
  BY DEF EvaluateOnce
<1>3. v = Evaluate(c, timers)
  BY DEF Decision
<1>4. ~c.force /\ c.cap = cap /\ c.current = setpoint
  BY DEF Context
<1>5. v.target \in SightNow.ladder \union {None} /\ \A a \in SightNow.ladder : a <= cap
  BY <1>1, ContextIsSound, DecisionIsSound DEF SightNow, InputsTypeOK
<1>6. cap \in Nat /\ setpoint \in Nat
  BY <1>1, ContextIsSound DEF SightNow, Measured
<1> HIDE DEF v, c
<1>7. CASE setpoint > cap
  <2>1. c.cap # None /\ c.current # None
    BY <1>4, <1>6, NoneAssumption
  <2>2. \/ v.action = "STOP" /\ ~v.ownOnly
        \/ v.action = "SET" /\ v.target = cap
    BY <1>3, <1>4, <1>7, <2>1, OverCapIsCut
  <2>3. ~(v.action = "STOP" /\ ~v.ownOnly)
    BY <1>2 DEF Starts, Stops
  <2>4. setpoint' = cap
    BY <1>2, <2>1, <2>2, <2>3, <1>4
  <2>5. QED BY <1>6, <2>4
<1>8. CASE ~(setpoint > cap)
  BY <1>2, <1>5, <1>6, <1>8
<1>9. QED
  BY <1>7, <1>8

\* So it draws no more than the headroom that any of the caps was taken from.
LEMMA SetpointFits ==
  ASSUME InputsTypeOK, EvaluateOnce, charging', setpoint' > 0, NEW headroom \in Int,
         LET limit == CapToAvailablePower(Offered, headroom)
         IN  limit # None => SightNow.cap # None /\ SightNow.cap <= limit
  PROVE  setpoint' * WattsPerAmp \in Int /\ setpoint' * WattsPerAmp <= headroom
<1> DEFINE limit == CapToAvailablePower(Offered, headroom)
           amps == setpoint'
<1>1. Measured
  BY DEF InputsTypeOK, Measured
<1>2. Offered \in SUBSET Nat /\ IsFiniteSet(Offered)
  BY <1>1, OfferedIsLadder DEF Measured
<1>3. limit \in Offered \union {0} /\ (limit > 0 => limit * WattsPerAmp <= headroom)
  BY <1>2, CapFits
<1>4. limit \in Nat
  <2>1. ASSUME NEW x \in Offered \union {0} PROVE x \in Nat
    BY <1>2
  <2>2. QED BY <1>3, <2>1
<1>5. SightNow.cap # None /\ SightNow.cap <= limit
  BY <1>4, NoneAssumption
<1>6. SightNow.cap \in Nat
  BY <1>1, <1>5, ContextIsSound DEF SightNow
<1>7. amps <= SightNow.cap
  BY <1>5, CapIsKept
<1>8. amps \in Nat /\ amps > 0
  BY EvaluationTyped DEF InputsTypeOK
<1>9. WattsPerAmp \in Nat
  BY ThresholdAssumption
<1> HIDE DEF limit, amps
<1>10. amps <= limit /\ limit > 0
  BY <1>4, <1>5, <1>6, <1>7, <1>8
<1>11. amps * WattsPerAmp <= limit * WattsPerAmp
  BY <1>4, <1>8, <1>9, <1>10, ProductGrows
<1>12. amps * WattsPerAmp \in Int /\ limit * WattsPerAmp \in Int
  BY <1>4, <1>8, <1>9
<1> DEFINE drawn == amps * WattsPerAmp
           allowed == limit * WattsPerAmp
<1>13. drawn <= allowed /\ allowed <= headroom /\ drawn \in Int /\ allowed \in Int
  BY <1>3, <1>10, <1>11, <1>12
<1> HIDE DEF drawn, allowed
<1>14. drawn \in Int /\ drawn <= headroom
  BY <1>13
<1>15. QED
  BY <1>14 DEF drawn, amps

\* The inverter's limit: what the meters miss, the reservations hold back.
LEMMA InverterIsSpared ==
  ASSUME InputsTypeOK, OnlyTheSwitched, AnnouncedInStep, MetersLagBriefly, AppliancesAreSeen,
         EvaluateOnce, charging', setpoint' > 0, o.inverterLimit > 0, Working("load")
  PROVE  HouseLoad(on) + setpoint' * WattsPerAmp <= o.inverterLimit
<1> DEFINE s == SensorValues
           seen == Observed(o, s, announced, on, now)
           held == Reserving(o, seen, now)
           load == Read(o, s, "load")
           headroom == o.inverterLimit - (load - CarDraw) - Watts(o, held)
           inv == InverterLimitCurrent(o, s, CarDraw, Offered, seen, now)
<1>1. Measured /\ o \in OptionsType /\ o.inverterLimit \in Nat
  BY HomeIsHousehold DEF InputsTypeOK, Measured, OptionsType
<1>2. load = HouseLoad(metered) + CarDraw
  BY DEF Working, Read, SensorValues, Sensors
<1>3. /\ CarDraw \in Int /\ reading.house \in Int
      /\ Watts(o, metered) \in Nat /\ Watts(o, on) \in Nat
  BY <1>1, SamplesAreTyped, HomeIsHousehold, WattsCount DEF HouseholdType, InputsTypeOK
<1>4. held \in SUBSET Appliances
  BY DEF Reserving, Listed
<1>5. Watts(o, held) \in Nat
  BY <1>1, <1>4, WattsCount
<1>6. /\ HouseLoad(on) = reading.house + Watts(o, on)
      /\ HouseLoad(metered) = reading.house + Watts(o, metered)
  BY DEF HouseLoad
<1>7. InverterCapped(o, s)
  <2>1. load # None
    BY <1>2, <1>3, <1>6, NoneAssumption
  <2>2. QED BY <2>1 DEF InverterCapped
<1>8. Watts(o, on) <= Watts(o, metered) + Watts(o, held)
  <2>1. ASSUME NEW a \in on, a \notin metered, o.reserves[a] # 0
        PROVE  a \in held
    <3>1. a \in Listed(o)
      BY <1>1, <2>1 DEF Listed, InputsTypeOK, OptionsType
    <3>2. seen[a] = since[a]
      BY <1>7, <2>1, <3>1, SeenInStep
    <3>3. now - since[a] < ReservationWindow
      BY <2>1 DEF MetersLagBriefly
    <3>4. since[a] # None
      BY <3>1, NoneAssumption DEF InputsTypeOK, Listed
    <3> HIDE DEF seen
    <3>5. QED
      BY <3>1, <3>2, <3>3, <3>4 DEF Reserving
  <2> HIDE DEF held
  <2>2. QED
    BY <1>1, <1>4, <2>1, WattsCovered DEF InputsTypeOK
<1>9. headroom \in Int
  BY <1>1, <1>7, HeadroomsAreNumbers
<1>10. inv = CapToAvailablePower(Offered, headroom)
  BY <1>7 DEF InverterLimitCurrent
<1>11. inv # None => SightNow.cap # None /\ SightNow.cap <= inv
  <2>1. SightNow.cap = ProtectionCap(o, s, CarDraw, Offered, seen, now)
    BY DEF SightNow, Sight
  <2>2. inv # None => /\ ProtectionCap(o, s, CarDraw, Offered, seen, now) # None
                      /\ ProtectionCap(o, s, CarDraw, Offered, seen, now) <= inv
    BY <1>1, CapIsTightest
  <2>3. QED BY <2>1, <2>2
<1> DEFINE drawn == setpoint' * WattsPerAmp
<1>12. drawn \in Int /\ drawn <= headroom
  <2> HIDE DEF headroom, inv
  <2>1. QED BY <1>9, <1>10, <1>11, SetpointFits
<1> DEFINE L == o.inverterLimit
           W == Watts(o, held)
           M == Watts(o, metered)
           N == Watts(o, on)
           C == CarDraw
           H == reading.house
<1>13. headroom = L - ((H + M + C) - C) - W
  BY <1>2, <1>6
<1>14. H + N + drawn <= L
  <2>1. L \in Int /\ H \in Int /\ M \in Int /\ C \in Int /\ W \in Int /\ N \in Int /\ drawn \in Int
    BY <1>1, <1>3, <1>5, <1>12
  <2>2. N <= M + W
    BY <1>8
  <2> HIDE DEF drawn, headroom, L, W, M, N, C, H
  <2>3. QED BY <1>12, <1>13, <2>1, <2>2
<1>15. QED
  BY <1>6, <1>14

\* The subscription's limit: the meter is taken at its word, whichever way it is wired.
LEMMA SubscriptionIsSpared ==
  ASSUME InputsTypeOK, EvaluateOnce, charging', setpoint' > 0, o.loadLimit > 0, Working("grid")
  PROVE  HouseLoad(metered) - reading.sun + setpoint' * WattsPerAmp <= o.loadLimit
<1> DEFINE s == SensorValues
           seen == Observed(o, s, announced, on, now)
           net == HouseLoad(metered) - reading.sun + CarDraw
           headroom == o.loadLimit - (GridPower(o, s) - CarDraw)
           load == LoadLimitCurrent(o, s, CarDraw, Offered)
<1>1. Measured /\ o.loadLimit \in Nat
  BY HomeIsHousehold DEF InputsTypeOK, Measured, OptionsType
<1>2. /\ CarDraw \in Int /\ reading.sun \in Int /\ HouseLoad(metered) \in Int
  <2>1. reading.sun \in Int /\ reading.house \in Int
    BY <1>1, HomeIsHousehold DEF HouseholdType, Measured
  <2>2. Watts(o, metered) \in Nat
    BY <1>1, HomeIsHousehold, WattsCount DEF Measured
  <2>3. QED
    BY <2>1, <2>2, SamplesAreTyped DEF HouseLoad
<1>3. net \in Int
  BY <1>2
<1>4. GridPower(o, s) = net
  <2>1. s["grid"] = IF "grid" \in o.inverted THEN -net ELSE net
    BY DEF Working, SensorValues, Sensors, AsWired
  <2>2. Read(o, s, "grid") = s["grid"]
    BY DEF Working, Read
  <2> HIDE DEF net
  <2>3. s["grid"] # None
    BY <1>3, <2>1, NoneAssumption
  <2> HIDE DEF s
  <2>4. GridPower(o, s) = IF "grid" \in o.inverted THEN -s["grid"] ELSE s["grid"]
    BY <2>2, <2>3 DEF GridPower, Signed
  <2>5. QED BY <1>3, <2>1, <2>4
<1>5. headroom \in Int
  <2> HIDE DEF net
  <2>1. QED BY <1>1, <1>2, <1>3, <1>4
<1>6. load = CapToAvailablePower(Offered, headroom)
  <2>1. GridPower(o, s) # None
    <3> HIDE DEF net
    <3>1. QED BY <1>3, <1>4, NoneAssumption
  <2>2. QED BY <1>1, <2>1 DEF LoadLimitCurrent
<1>7. load # None => SightNow.cap # None /\ SightNow.cap <= load
  <2>1. SightNow.cap = ProtectionCap(o, s, CarDraw, Offered, seen, now)
    BY DEF SightNow, Sight
  <2>2. load # None => /\ ProtectionCap(o, s, CarDraw, Offered, seen, now) # None
                       /\ ProtectionCap(o, s, CarDraw, Offered, seen, now) <= load
    BY <1>1, CapIsTightest
  <2>3. QED BY <2>1, <2>2
<1> DEFINE drawn == setpoint' * WattsPerAmp
<1>8. drawn \in Int /\ drawn <= headroom
  <2> HIDE DEF headroom, load
  <2>1. QED BY <1>5, <1>6, <1>7, SetpointFits
<1>9. headroom = o.loadLimit - ((HouseLoad(metered) - reading.sun + CarDraw) - CarDraw)
  BY <1>4
<1> HIDE DEF drawn, headroom
<1>10. HouseLoad(metered) - reading.sun + drawn <= o.loadLimit
  BY <1>1, <1>2, <1>8, <1>9
<1>11. QED
  BY <1>10 DEF drawn

\* An evaluation establishes the limits, asking keeps them, and anything else is heard.
LEMMA LimitsEstablished ==
  ASSUME LimitsInv, EvaluateOnce
  PROVE  (AppliancesAreSeen => LimitsHold)'
<1>1. UNCHANGED << home, reading, on, metered, now >>
  BY DEF EvaluateOnce
<1>2. SUFFICES ASSUME AppliancesAreSeen', charging', setpoint' > 0 PROVE LimitsHold'
  BY DEF LimitsHold
<1>3. AppliancesAreSeen
  BY <1>1, <1>2 DEF AppliancesAreSeen, LoadIsSeen
<1>4. /\ o.inverterLimit > 0 /\ Working("load") =>
           HouseLoad(on) + setpoint' * WattsPerAmp <= o.inverterLimit
      /\ o.loadLimit > 0 /\ Working("grid") =>
           HouseLoad(metered) - reading.sun + setpoint' * WattsPerAmp <= o.loadLimit
  BY <1>2, <1>3, InverterIsSpared, SubscriptionIsSpared DEF LimitsInv
<1>5. /\ o' = o /\ HouseLoad(on)' = HouseLoad(on) /\ HouseLoad(metered)' = HouseLoad(metered)
      /\ \A name \in Sensors : Working(name)' = Working(name)
  BY <1>1 DEF o, HouseLoad, Watts, Working
<1>6. QED
  BY <1>1, <1>4, <1>5 DEF LimitsHold, Sensors

\* One step: an evaluation or a look at the appliances.
LEMMA LooksKeepStep ==
  ASSUME LimitsInv, EvaluateOnce \/ DryRun, InputsTypeOK'
  PROVE  (OnlyTheSwitched /\ AnnouncedInStep /\ MetersLagBriefly)'
<1>1. announced' = SightNow.announced /\ UNCHANGED << home, on, metered, since, now >>
  BY DEF EvaluateOnce, DryRun, InputsRead, worldVars
<1>2. AnnouncedInStep'
  BY <1>1, StepsKept DEF LimitsInv
<1>3. QED
  BY <1>1, <1>2 DEF LimitsInv, OnlyTheSwitched, MetersLagBriefly

\* One step: the household's.
LEMMA HouseholdKeepsStep ==
  ASSUME LimitsInv, InputsTypeOK',
         ReadingChanges \/ (\E a \in Appliances : Switch(a)) \/ Meter \/ AppActs \/ Tick
  PROVE  (OnlyTheSwitched /\ AnnouncedInStep /\ MetersLagBriefly)'
<1>1. ~due /\ due' /\ announced' = announced /\ home' = home /\ o' = o
  BY DEF ReadingChanges, Switch, Meter, AppActs, Tick, Heard, inputVars, worldVars, o
<1>2. LoadIsSeen' = LoadIsSeen /\ Listed(o)' = Listed(o)
  BY <1>1 DEF LoadIsSeen, Listed
<1>3. CASE ReadingChanges \/ AppActs
  <2>1. UNCHANGED << on, metered, since, now >>
    BY <1>3 DEF ReadingChanges, AppActs, worldVars
  <2>2. QED
    BY <1>1, <1>2, <2>1 DEF LimitsInv, OnlyTheSwitched, AnnouncedInStep, MetersLagBriefly
<1>4. ASSUME NEW b \in Appliances, Switch(b)
      PROVE  (OnlyTheSwitched /\ AnnouncedInStep /\ MetersLagBriefly)'
  <2>1. /\ b \in home.appliances /\ UNCHANGED << metered, now >>
        /\ on' = IF b \in on THEN on \ {b} ELSE on \union {b}
        /\ since' = [since EXCEPT ![b] = IF b \in on THEN 0 ELSE now]
    BY <1>4 DEF Switch
  <2>2. since \in [Appliances -> 0..Horizon] /\ now \in Nat
    BY HouseholdAssumption DEF LimitsInv, InputsTypeOK
  <2>3. OnlyTheSwitched'
    BY <1>1, <2>1 DEF LimitsInv, OnlyTheSwitched
  <2>4. AnnouncedInStep'
    BY <1>1, <1>2, <2>1, <2>2 DEF LimitsInv, AnnouncedInStep, Listed
  <2>5. MetersLagBriefly'
    <3>1. SUFFICES ASSUME NEW a \in on' \ metered PROVE now - since'[a] < ReservationWindow
      BY <2>1 DEF MetersLagBriefly
    <3>2. CASE a = b
      <4>1. b \notin on /\ since'[b] = now
        BY <2>1, <2>2, <3>1, <3>2
      <4>2. 0 < ReservationWindow
        BY ReaderAssumption
      <4>3. now - now = 0
        BY <2>2
      <4>4. QED BY <3>2, <4>1, <4>2, <4>3
    <3>3. CASE a # b
      <4>1. a \in on \ metered /\ a \in Appliances
        BY <2>1, <3>1, <3>3 DEF LimitsInv, InputsTypeOK
      <4>2. since'[a] = since[a]
        BY <2>1, <2>2, <3>3, <4>1
      <4>3. QED BY <4>1, <4>2 DEF LimitsInv, MetersLagBriefly
    <3>4. QED BY <3>2, <3>3
  <2>6. QED BY <2>3, <2>4, <2>5
<1>5. CASE Meter
  <2>1. UNCHANGED << on, since, now >> /\ metered' = on
    BY <1>5 DEF Meter
  <2>2. QED
    BY <1>1, <1>2, <2>1 DEF LimitsInv, OnlyTheSwitched, AnnouncedInStep, MetersLagBriefly
<1>6. CASE Tick
  <2>1. /\ UNCHANGED << on, since, metered >> /\ now' = now + 1
        /\ \A a \in on \ metered : now + 1 - since[a] < ReservationWindow
    BY <1>6 DEF Tick
  <2>2. MetersLagBriefly'
    <3>1. on' = on /\ metered' = metered /\ since' = since /\ now' = now + 1
      BY <2>1
    <3>2. \A a \in on \ metered : now' - since'[a] < ReservationWindow
      <4>1. SUFFICES ASSUME NEW a \in on \ metered PROVE now' - since'[a] < ReservationWindow
        OBVIOUS
      <4>2. now + 1 - since[a] < ReservationWindow
        BY <2>1
      <4>3. since'[a] = since[a]
        BY <3>1
      <4>4. now \in Int /\ since[a] \in Int /\ ReservationWindow \in Int
        BY HouseholdAssumption, ReaderAssumption DEF LimitsInv, InputsTypeOK
      <4>5. now' = now + 1
        BY <3>1
      <4>6. QED BY <4>2, <4>3, <4>4, <4>5
    <3>3. QED BY <3>1, <3>2 DEF MetersLagBriefly
  <2>3. OnlyTheSwitched'
    BY <1>1, <2>1 DEF LimitsInv, OnlyTheSwitched
  <2>4. AnnouncedInStep'
    <3>1. SUFFICES ASSUME LoadIsSeen, o.inverterLimit > 0, "load" \in o.sensors,
                          NEW a \in Listed(o)
                   PROVE  (a \in on => announced[a] = since[a]) /\ (a \notin on => announced[a] = None)
      BY <1>1, <1>2, <2>1 DEF AnnouncedInStep
    <3>2. QED
      BY <1>1, <3>1 DEF LimitsInv, AnnouncedInStep
  <2>5. QED
    BY <2>2, <2>3, <2>4
<1>7. QED
  BY <1>3, <1>4, <1>5, <1>6

LEMMA AlwaysWithinLimits == InputsSpec => []LimitsInv
<1>1. Init => LimitsInv
  <2>1. Init => InputsTypeOK
    BY TypedAtFirst
  <2>2. QED
    BY <2>1 DEF Init, LimitsInv, OnlyTheSwitched, AnnouncedInStep, MetersLagBriefly, LimitsHold,
                Listed
<1>2. LimitsInv /\ [Next]_vars => LimitsInv'
  <2> SUFFICES ASSUME LimitsInv, [Next]_vars PROVE LimitsInv'
    OBVIOUS
  <2>1. InputsTypeOK'
    BY InputsTypedStep DEF LimitsInv
  <2>2. CASE EvaluateOnce
    BY <2>1, <2>2, LimitsEstablished, LooksKeepStep DEF LimitsInv
  <2>3. CASE DryRun
    <3>1. (AppliancesAreSeen => LimitsHold)'
      BY <2>3 DEF LimitsInv, DryRun, AppliancesAreSeen, LoadIsSeen, LimitsHold, Working,
                  HouseLoad, Watts, worldVars, o
    <3>2. QED
      BY <2>1, <2>3, <3>1, LooksKeepStep DEF LimitsInv
  <2>4. CASE ReadingChanges \/ (\E a \in Appliances : Switch(a)) \/ Meter \/ AppActs \/ Tick
    <3>1. due'
      BY <2>4 DEF ReadingChanges, Switch, Meter, AppActs, Tick, Heard
    <3>2. QED
      BY <2>1, <2>4, <3>1, HouseholdKeepsStep DEF LimitsInv, LimitsHold
  <2>5. CASE UNCHANGED vars
    BY <2>1, <2>5 DEF LimitsInv, OnlyTheSwitched, AnnouncedInStep, MetersLagBriefly,
         AppliancesAreSeen, LoadIsSeen, LimitsHold, Working, HouseLoad, Watts, Listed,
         vars, inputVars, worldVars, o
  <2>6. QED
    BY <2>2, <2>3, <2>4, <2>5 DEF Next
<1>3. QED
  BY <1>1, <1>2, PTL DEF InputsSpec

\* For every household whose appliances never announce themselves unseen, with any limits,
\* reserves and readings: once an evaluation has answered, the charge keeps the house within
\* its subscription and the inverter within its rating (protection_cap).
THEOREM LimitsAreKept == InputsSpec => [](AppliancesAreSeen => LimitsHold)
<1>1. LimitsInv => (AppliancesAreSeen => LimitsHold)
  BY DEF LimitsInv
<1>2. QED
  BY <1>1, AlwaysWithinLimits, PTL

\* For every such household an appliance that stays on is held against the car for no
\* longer than the window, whatever was asked and evaluated meanwhile (preemption.py).
THEOREM ReservationsDoEnd == InputsSpec => [](AppliancesAreSeen => ReservationsEnd)
<1>1. ASSUME LimitsInv, AppliancesAreSeen PROVE ReservationsEnd
  <2> DEFINE s == SensorValues
             seen == Observed(o, s, announced, on, now)
             none == [a \in Appliances |-> None]
  <2>1. SUFFICES ASSUME \A a \in on : now - since[a] >= ReservationWindow, InverterCapped(o, s)
                 PROVE  SightNow.cap = ProtectionCap(o, s, CarDraw, Offered, none, now)
    BY DEF ReservationsEnd
  <2>2. ASSUME NEW a \in Listed(o), seen[a] # None PROVE ~(now - seen[a] < ReservationWindow)
    <3>1. a \in on /\ seen[a] = since[a]
      BY <1>1, <2>1, <2>2, SeenInStep DEF LimitsInv
    <3>2. now - since[a] \in Int /\ ReservationWindow \in Int
      <4>1. now \in Int /\ since \in [Appliances -> 0..Horizon] /\ Horizon \in Nat
        BY <1>1, HouseholdAssumption DEF LimitsInv, InputsTypeOK
      <4>2. a \in Appliances
        BY DEF Listed
      <4>3. since[a] \in Int
        BY <4>1, <4>2
      <4>4. ReservationWindow \in Int
        BY ReaderAssumption
      <4>5. QED BY <4>1, <4>3, <4>4
    <3> HIDE DEF seen
    <3>3. QED BY <2>1, <3>1, <3>2
  <2>3. Reserving(o, seen, now) = {}
    <3> HIDE DEF seen
    <3>1. QED BY <2>2 DEF Reserving
  <2>4. Reserving(o, none, now) = {}
    BY DEF Reserving, Listed
  <2>5. SightNow.cap = ProtectionCap(o, s, CarDraw, Offered, seen, now)
    BY DEF SightNow, Sight
  <2> HIDE DEF seen, none, s
  <2>6. InverterLimitCurrent(o, s, CarDraw, Offered, seen, now)
          = InverterLimitCurrent(o, s, CarDraw, Offered, none, now)
    BY <2>3, <2>4, Zenon DEF InverterLimitCurrent
  <2>7. QED
    BY <2>5, <2>6, Zenon DEF ProtectionCap
<1>2. QED
  BY <1>1, AlwaysWithinLimits, PTL

-----------------------------------------------------------------------------
(* What is reported of the settings.                                       *)

\* With nothing to charge there is no deadline, whatever else is planned (plan_charge).
LEMMA NothingIsDue ==
  ASSUME InputsTypeOK, o.departureEnergy <= 0, NEW sight
  PROVE  Planned(sight, TallyNow, CurveNow) # "deadline"
<1> DEFINE lacking == o.departureEnergy - TallyNow
<1>1. lacking \in Int /\ 0 >= lacking
  BY SamplesAreTyped, HomeIsHousehold DEF InputsTypeOK, OptionsType
<1> HIDE DEF lacking
<1>2. Max({0, lacking}) = 0
  BY <1>1, PairMaxMin
<1>3. \A offPeak, critical, needed :
        PlanCharge(offPeak, critical, o.departure, 0, needed, Moment) # "deadline"
  BY DEF PlanCharge
<1>4. QED
  BY <1>2, <1>3 DEF Planned, lacking

\* A feature that needs what is not there does nothing.
LEMMA MissingIsInert ==
  ASSUME NEW seen
  PROVE  LET s == SensorValues
         IN  /\ "grid" \notin o.sensors =>
                  /\ RawSurplusOf(s, TRUE) = None
                  /\ LoadLimitCurrent(o, s, CarDraw, Offered) = None
             /\ "load" \notin o.sensors =>
                  InverterLimitCurrent(o, s, CarDraw, Offered, seen, now) = None
             /\ "offPeak" \notin o.sensors /\ UsableWindows(o.windows) = {} =>
                  OffPeakNow(o, s, Moment) = None
<1>1. "grid" \notin o.sensors => GridPower(o, SensorValues) = None
  BY DEF GridPower, Signed, Read
<1>2. "load" \notin o.sensors => ~InverterCapped(o, SensorValues)
  BY DEF InverterCapped, Read
<1>3. QED
  BY <1>1, <1>2 DEF RawSurplusOf, LoadLimitCurrent, InverterLimitCurrent, OffPeakNow

\* A feature that has what it needs, with every sensor alive, does something.
LEMMA PresentIsActive ==
  ASSUME InputsTypeOK, reading.dead = {}, NEW seen
  PROVE  LET s == SensorValues
         IN  /\ "grid" \in o.sensors /\ o.mode => RawSurplusOf(s, TRUE) # None
             /\ "grid" \in o.sensors /\ o.loadLimit > 0 =>
                  LoadLimitCurrent(o, s, CarDraw, Offered) # None
             /\ "load" \in o.sensors /\ o.inverterLimit > 0 =>
                  InverterLimitCurrent(o, s, CarDraw, Offered, seen, now) # None
             /\ "offPeak" \notin o.sensors /\ UsableWindows(o.windows) # {} =>
                  OffPeakNow(o, s, Moment) # None
<1> DEFINE s == SensorValues
<1>1. Measured
  BY DEF InputsTypeOK, Measured
<1>2. s["grid"] \in Int /\ s["load"] \in Int
  <2>1. CarDraw \in Int /\ HouseLoad(metered) \in Int
    BY <1>1, CarDraws, WattsCount, HomeIsHousehold DEF Measured, HouseLoad, HouseholdType
  <2>2. reading.sun \in Int
    BY <1>1, HomeIsHousehold DEF Measured, HouseholdType
  <2>3. AsWired("grid", HouseLoad(metered) - reading.sun + CarDraw) \in Int
    BY <2>1, <2>2 DEF AsWired
  <2>4. s["load"] = HouseLoad(metered) + CarDraw
    BY DEF SensorValues, Sensors
  <2>5. s["grid"] = AsWired("grid", HouseLoad(metered) - reading.sun + CarDraw)
    BY DEF SensorValues, Sensors
  <2> HIDE DEF s
  <2>6. QED BY <2>1, <2>3, <2>4, <2>5
<1> HIDE DEF s
<1>3. "grid" \in o.sensors => GridPower(o, s) \in Int
  BY <1>2 DEF GridPower, Signed, Read
<1>4. "load" \in o.sensors /\ o.inverterLimit > 0 => InverterCapped(o, s)
  BY <1>2, NoneAssumption DEF InverterCapped, Read
<1>5. Offered \in SUBSET Nat /\ IsFiniteSet(Offered)
  BY <1>1, OfferedIsLadder DEF Measured
<1>6. ASSUME NEW headroom \in Int
      PROVE  CapToAvailablePower(Offered, headroom) # None
  <2>1. CapToAvailablePower(Offered, headroom) \in Offered \union {0}
    BY <1>5, CapFits
  <2>2. ASSUME NEW x \in Offered \union {0} PROVE x # None
    <3>1. CASE x \in Offered
      BY <1>5, <3>1, NoneAssumption
    <3>2. CASE x = 0
      BY <3>2, NoneAssumption
    <3>3. QED BY <3>1, <3>2
  <2>3. QED BY <2>1, <2>2
<1>7. "grid" \in o.sensors /\ o.mode => RawSurplusOf(s, TRUE) # None
  BY <1>3, SurplusIsRead, NoneAssumption DEF s
<1>8. "grid" \in o.sensors /\ o.loadLimit > 0 =>
        LoadLimitCurrent(o, s, CarDraw, Offered) # None
  <2>1. SUFFICES ASSUME "grid" \in o.sensors, o.loadLimit > 0
                 PROVE  LoadLimitCurrent(o, s, CarDraw, Offered) # None
    OBVIOUS
  <2>2. o.loadLimit # 0 /\ GridPower(o, s) # None
    BY <1>3, <2>1, NoneAssumption
  <2>3. o.loadLimit - (GridPower(o, s) - CarDraw) \in Int
    BY <1>1, <2>2, HeadroomsAreNumbers DEF s
  <2>4. QED
    BY <1>6, <2>2, <2>3 DEF LoadLimitCurrent
<1>9. "load" \in o.sensors /\ o.inverterLimit > 0 =>
        InverterLimitCurrent(o, s, CarDraw, Offered, seen, now) # None
  BY <1>1, <1>4, <1>6, HeadroomsAreNumbers DEF InverterLimitCurrent, s
<1>10. "offPeak" \notin o.sensors /\ UsableWindows(o.windows) # {} =>
         OffPeakNow(o, s, Moment) # None
  <2>1. WithinWindows(Moment, UsableWindows(o.windows)) \in BOOLEAN
    BY DEF WithinWindows
  <2>2. QED
    BY <2>1, AnswerAssumption DEF OffPeakNow
<1>11. QED
  BY <1>7, <1>8, <1>9, <1>10 DEF s

\* For every household a feature that is reported does nothing, and one that is switched on
\* works while its sensors do, or is reported (find_config_problems).
THEOREM ReportedIsInert == InputsSpec => []ProblemsAreInert
<1>1. ASSUME InputsTypeOK PROVE ProblemsAreInert
  <2> DEFINE seen == Observed(o, SensorValues, announced, on, now)
             works == Does(SensorValues, seen)
  <2>1. ASSUME NEW p \in ConfigProblems(o) PROVE p \notin works
    <3>1. o.departureEnergy <= 0 => Planned(SightNow, TallyNow, CurveNow) # "deadline"
      BY <1>1, NothingIsDue
    <3> HIDE DEF seen
    <3>2. QED
      BY <2>1, <3>1, MissingIsInert DEF ConfigProblems, Does
  <2>2. ASSUME reading.dead = {}, NEW p \in SwitchedOn
        PROVE  p \in works \union ConfigProblems(o)
    <3> HIDE DEF seen
    <3>1. QED
      BY <1>1, <2>2, PresentIsActive DEF ConfigProblems, Does, SwitchedOn
  <2>3. QED
    BY <2>1, <2>2 DEF ProblemsAreInert
<1>2. QED
  BY <1>1, InputsTyped, PTL

-----------------------------------------------------------------------------
(* What a session cost.                                                    *)

\* Dividing what was multiplied gives it back.
LEMMA QuotientOfProduct ==
  ASSUME NEW c \in Nat, NEW d \in Nat \ {0}
  PROVE  (c * d) \div d = c
<1>1. c * d \in Nat
  OBVIOUS
<1> DEFINE whole == c * d
           q == whole \div d
<1>2. whole \in Nat
  BY <1>1
<1> HIDE DEF whole
<1>3. q \in Nat /\ q * d <= whole /\ whole < q * d + d
  BY <1>2
<1> HIDE DEF q
<1>4. CASE q < c
  <2>1. q + 1 \in Nat /\ q + 1 <= c
    BY <1>3, <1>4
  <2>2. (q + 1) * d <= c * d
    BY <2>1, ProductGrows
  <2>3. (q + 1) * d = q * d + d /\ q * d \in Nat
    BY <1>3
  <2>4. QED BY <1>2, <1>3, <2>2, <2>3 DEF whole
<1>5. CASE c < q
  <2>1. c + 1 \in Nat /\ c + 1 <= q
    BY <1>3, <1>5
  <2>2. (c + 1) * d <= q * d
    BY <1>3, <2>1, ProductGrows
  <2>3. (c + 1) * d = c * d + d /\ q * d \in Nat
    BY <1>3
  <2>4. QED BY <1>2, <1>3, <2>2, <2>3 DEF whole
<1>6. QED
  BY <1>3, <1>4, <1>5 DEF q, whole

\* Two amounts, each at a price between two bounds, cost together what the bounds allow.
LEMMA WeightedCost ==
  ASSUME NEW a \in Nat, NEW b \in Nat, NEW p \in Int, NEW q \in Int, NEW m \in Int,
         m <= p, m <= q
  PROVE  m * (a + b) <= a * p + b * q
<1>1. PICK x \in Nat : p = m + x
  <2>1. p - m \in Nat /\ p = m + (p - m)
    OBVIOUS
  <2>2. QED BY <2>1
<1>2. PICK y \in Nat : q = m + y
  <2>1. q - m \in Nat /\ q = m + (q - m)
    OBVIOUS
  <2>2. QED BY <2>1
<1>3. a * p = m * a + a * x /\ a * x \in Nat
  BY <1>1
<1>4. b * q = m * b + b * y /\ b * y \in Nat
  BY <1>2
<1>5. m * (a + b) = m * a + m * b /\ m * a \in Int /\ m * b \in Int
  OBVIOUS
<1>6. QED
  BY <1>3, <1>4, <1>5

\* The same from above.
LEMMA WeightedCostAtMost ==
  ASSUME NEW a \in Nat, NEW b \in Nat, NEW p \in Int, NEW q \in Int, NEW m \in Int,
         p <= m, q <= m
  PROVE  a * p + b * q <= m * (a + b)
<1>1. PICK x \in Nat : m = p + x
  <2>1. m - p \in Nat /\ m = p + (m - p)
    OBVIOUS
  <2>2. QED BY <2>1
<1>2. PICK y \in Nat : m = q + y
  <2>1. m - q \in Nat /\ m = q + (m - q)
    OBVIOUS
  <2>2. QED BY <2>1
<1>3. m * a = a * p + a * x /\ a * x \in Nat /\ a * p \in Int
  BY <1>1
<1>4. m * b = b * q + b * y /\ b * y \in Nat /\ b * q \in Int
  BY <1>2
<1>5. m * (a + b) = m * a + m * b
  OBVIOUS
<1>6. QED
  BY <1>3, <1>4, <1>5

\* The ticks of a session that the tariff allowed.
AllowedTicks(ticks) ==
  {k \in 1..ticks : OffPeakNow(o, SensorValues, (Moment + Day - k) % Day) = TRUE}

\* The walk of the cost counts the ticks that the tariff allowed.
LEMMA SplitIsAllowed ==
  ASSUME o.sensors = {}, NEW ticks \in Nat
  PROVE  /\ SplitSession(Moment, ticks, UsableWindows(o.windows)).offPeak
              = Cardinality(AllowedTicks(ticks))
         /\ SplitSession(Moment, ticks, UsableWindows(o.windows)).peak
              = ticks - Cardinality(AllowedTicks(ticks))
<1> DEFINE windows == UsableWindows(o.windows)
           inside == {k \in 1..ticks : WithinWindows((Moment + Day - k) % Day, windows)}
           offPeak == IF windows = {} THEN 0 ELSE Cardinality(inside)
<1>1. SplitSession(Moment, ticks, windows) = [offPeak |-> offPeak, peak |-> ticks - offPeak]
  BY DEF SplitSession
<1>2. CASE windows = {}
  <2>1. \A k \in 1..ticks : OffPeakNow(o, SensorValues, (Moment + Day - k) % Day) = None
    BY <1>2 DEF OffPeakNow
  <2>2. AllowedTicks(ticks) = {}
    BY <2>1, AnswerAssumption DEF AllowedTicks
  <2>3. Cardinality(AllowedTicks(ticks)) = 0
    BY <2>2, FS_EmptySet
  <2>4. offPeak = 0
    BY <1>2
  <2> HIDE DEF offPeak
  <2>5. QED
    BY <1>1, <2>3, <2>4
<1>3. CASE windows # {}
  <2>1. ASSUME NEW k \in 1..ticks
        PROVE  /\ OffPeakNow(o, SensorValues, (Moment + Day - k) % Day)
                    = WithinWindows((Moment + Day - k) % Day, windows)
               /\ WithinWindows((Moment + Day - k) % Day, windows) \in BOOLEAN
    BY <1>3 DEF OffPeakNow, WithinWindows
  <2> HIDE DEF windows
  <2>2. AllowedTicks(ticks) = inside
    BY <2>1 DEF AllowedTicks
  <2> HIDE DEF inside
  <2>3. offPeak = Cardinality(AllowedTicks(ticks))
    BY <1>3, <2>2
  <2> HIDE DEF offPeak
  <2>4. QED
    BY <1>1, <2>3 DEF windows
<1>4. QED
  BY <1>2, <1>3

\* For every household without sensors, every session of at most a day and every price, a
\* session is billed by the hours that the tariff allowed (session_costing.py).
THEOREM SessionIsBilled == InputsSpec => []BilledAsAllowed
<1>1. BilledAsAllowed
  <2> DEFINE split(t) == SplitSession(Moment, t, UsableWindows(o.windows))
  <2>1. SUFFICES
          ASSUME o.sensors = {}, NEW ticks \in 1..Day,
                 NEW P \in Prices, NEW Q \in Prices,
                 SessionCost(2 * ticks, split(ticks), P, Q) # None
          PROVE  LET cost == SessionCost(2 * ticks, split(ticks), P, Q)
                     energy == 2 * ticks
                 IN  /\ AllowedTicks(ticks) = 1..ticks => cost = energy * P
                     /\ AllowedTicks(ticks) = {} => cost = energy * Q
                     /\ Min({P, Q}) * energy <= cost
                     /\ cost <= Max({P, Q}) * energy
    BY DEF BilledAsAllowed, AllowedTicks
  <2> DEFINE n == Cardinality(AllowedTicks(ticks))
             cost == SessionCost(2 * ticks, split(ticks), P, Q)
  <2>2. Day \in Nat /\ ticks \in Nat \ {0} /\ P \in Int /\ Q \in Int
    BY PlanAssumption, ReportAssumption
  <2>3. /\ n \in Nat /\ n <= ticks
        /\ AllowedTicks(ticks) = 1..ticks => n = ticks
        /\ AllowedTicks(ticks) = {} => n = 0
    <3>1. IsFiniteSet(1..ticks) /\ Cardinality(1..ticks) = ticks
      BY <2>2, FS_Interval
    <3>2. AllowedTicks(ticks) \in SUBSET (1..ticks)
      BY DEF AllowedTicks
    <3>3. QED
      BY <3>1, <3>2, FS_Subset, FS_CardinalityType, FS_EmptySet
  <2>4. split(ticks).offPeak = n /\ split(ticks).peak = ticks - n
    BY <2>1, <2>2, SplitIsAllowed
  <2> HIDE DEF n, split
  <2>5. OffPeakEnergy(2 * ticks, split(ticks)) = 2 * n
    <3>1. n + (ticks - n) = ticks
      BY <2>2, <2>3
    <3>2. OffPeakEnergy(2 * ticks, split(ticks)) = ((2 * ticks) * n) \div ticks
      BY <2>2, <2>4, <3>1 DEF OffPeakEnergy
    <3>3. (2 * ticks) * n = (2 * n) * ticks /\ 2 * n \in Nat
      BY <2>2, <2>3
    <3>4. ((2 * n) * ticks) \div ticks = 2 * n
      BY <2>2, <3>3, QuotientOfProduct
    <3>5. QED BY <3>2, <3>3, <3>4
  <2>6. cost = (2 * n) * P + (2 * ticks - 2 * n) * Q
    <3>1. ~(P = 0 /\ Q = 0)
      BY <2>1 DEF SessionCost
    <3>2. ~(2 * ticks <= 0)
      BY <2>2
    <3>3. QED BY <2>5, <3>1, <3>2 DEF SessionCost
  <2> HIDE DEF cost
  <2> DEFINE a == 2 * n
             b == 2 * ticks - 2 * n
  <2>7. a \in Nat /\ b \in Nat /\ a + b = 2 * ticks
    BY <2>2, <2>3
  <2>8. AllowedTicks(ticks) = 1..ticks => cost = (2 * ticks) * P
    BY <2>2, <2>3, <2>6
  <2>9. AllowedTicks(ticks) = {} => cost = (2 * ticks) * Q
    BY <2>2, <2>3, <2>6
  <2>10. cost = a * P + b * Q
    BY <2>6
  <2> HIDE DEF a, b
  <2>11. Min({P, Q}) * (2 * ticks) <= cost
    <3>1. Min({P, Q}) \in Int /\ Min({P, Q}) <= P /\ Min({P, Q}) <= Q
      <4>1. Min({P, Q}) = IF P <= Q THEN P ELSE Q
        BY <2>2, PairMaxMin
      <4>2. QED BY <2>2, <4>1
    <3>2. Min({P, Q}) * (a + b) <= a * P + b * Q
      BY <2>2, <2>7, <3>1, WeightedCost
    <3>3. QED BY <2>7, <2>10, <3>2
  <2>12. cost <= Max({P, Q}) * (2 * ticks)
    <3>1. Max({P, Q}) \in Int /\ P <= Max({P, Q}) /\ Q <= Max({P, Q})
      <4>1. Max({P, Q}) = IF P >= Q THEN P ELSE Q
        BY <2>2, PairMaxMin
      <4>2. QED BY <2>2, <4>1
    <3>2. a * P + b * Q <= Max({P, Q}) * (a + b)
      BY <2>2, <2>7, <3>1, WeightedCostAtMost
    <3>3. QED BY <2>7, <2>10, <3>2
  <2>13. QED
    BY <2>8, <2>9, <2>11, <2>12 DEF cost
<1>2. QED
  BY <1>1, PTL

-----------------------------------------------------------------------------
(* What is reported of the sessions.                                       *)

\* The numbers that a finite set of things is labelled with.
LEMMA LabelsAreFinite ==
  ASSUME NEW I, IsFiniteSet(I), NEW f \in [I -> Nat]
  PROVE  {f[i] : i \in I} \in SUBSET Nat /\ IsFiniteSet({f[i] : i \in I})
<1> DEFINE E == {f[i] : i \in I}
<1>1. E \in SUBSET Nat
  OBVIOUS
<1>2. f \in Surjection(I, E)
  BY DEF Surjection
<1>3. IsFiniteSet(E)
  <2> HIDE DEF E
  <2>1. QED BY <1>2, FS_Surjection
<1>4. QED
  BY <1>1, <1>3

\* There is a median: the least number that more than half are at or under.
IsMedian(I, f, half, e) ==
  /\ Cardinality({i \in I : f[i] < e}) <= half
  /\ half < Cardinality({i \in I : f[i] <= e})

LEMMA MedianExists ==
  ASSUME NEW I, IsFiniteSet(I), NEW f \in [I -> Nat], NEW half \in Nat, half < Cardinality(I)
  PROVE  \E i \in I : IsMedian(I, f, half, f[i])
<1> DEFINE E == {f[i] : i \in I}
           upTo(e) == {i \in I : f[i] <= e}
           under(e) == {i \in I : f[i] < e}
           G == {e \in E : half < Cardinality(upTo(e))}
<1>1. E \in SUBSET Nat /\ IsFiniteSet(E)
  BY LabelsAreFinite
<1>2. Cardinality(I) \in Nat /\ I # {}
  BY FS_CardinalityType, FS_EmptySet
<1>3. G # {}
  <2>1. E # {}
    BY <1>2
  <2>2. PICK top \in E : \A e \in E : top >= e
    <3> HIDE DEF E
    <3>1. QED BY <1>1, <2>1, GreatestExists
  <2>3. upTo(top) = I
    <3>1. \A i \in I : f[i] \in E
      OBVIOUS
    <3>2. \A i \in I : f[i] <= top
      BY <1>1, <2>2, <3>1
    <3>3. QED BY <3>2
  <2>4. top \in G
    BY <2>2, <2>3
  <2>5. QED BY <2>4
<1>4. PICK e \in G : \A x \in G : e <= x
  <2>1. G \in SUBSET Nat
    BY <1>1
  <2> HIDE DEF G
  <2>2. QED BY <1>3, <2>1, LeastExists
<1>5. e \in E /\ e \in Nat /\ half < Cardinality(upTo(e))
  BY <1>1, <1>4
<1>6. Cardinality(under(e)) <= half
  <2>1. CASE under(e) = {}
    <3>1. Cardinality({}) = 0
      BY FS_EmptySet
    <3>2. QED BY <2>1, <3>1
  <2>2. CASE under(e) # {}
    <3> DEFINE B == {x \in E : x < e}
    <3>1. B \in SUBSET Nat /\ IsFiniteSet(B) /\ B # {}
      <4>1. B \in SUBSET E
        OBVIOUS
      <4>2. B # {}
        BY <2>2
      <4> HIDE DEF B, E
      <4>3. QED BY <1>1, <4>1, <4>2, FS_Subset
    <3>2. PICK p \in B : \A x \in B : p >= x
      <4> HIDE DEF B
      <4>1. QED BY <3>1, GreatestExists
    <3>3. p \in E /\ p < e /\ p \in Nat
      BY <3>1, <3>2
    <3>4. p \notin G
      BY <1>4, <1>5, <3>3
    <3>5. ~(half < Cardinality(upTo(p)))
      BY <3>3, <3>4
    <3>6. upTo(p) = under(e)
      <4>1. ASSUME NEW i \in I, f[i] <= p PROVE f[i] < e
        <5>1. f[i] \in Nat
          OBVIOUS
        <5>2. QED BY <1>5, <3>3, <4>1, <5>1
      <4>2. ASSUME NEW i \in I, f[i] < e PROVE f[i] <= p
        <5>1. f[i] \in B /\ f[i] \in Nat
          BY <4>2
        <5>2. QED BY <3>2, <3>3, <5>1
      <4>3. QED BY <4>1, <4>2
    <3>7. Cardinality(under(e)) \in Nat
      <4>1. under(e) \in SUBSET I
        OBVIOUS
      <4> HIDE DEF under
      <4>2. QED BY <4>1, FS_Subset, FS_CardinalityType
    <3> HIDE DEF upTo, under
    <3>8. QED BY <3>5, <3>6, <3>7
  <2>3. QED BY <2>1, <2>2
<1>7. IsMedian(I, f, half, e)
  BY <1>5, <1>6 DEF IsMedian
<1>8. QED
  BY <1>5, <1>7

\* The sessions that can be trusted, and what they ran at.
Rated(sessions) == {i \in DOMAIN sessions : SessionAverage(sessions[i]) # None}

LEMMA RatedAreTyped ==
  ASSUME NEW sessions \in Seq(SessionType)
  PROVE  /\ Rated(sessions) \in SUBSET (1..Len(sessions)) /\ Len(sessions) \in Nat
         /\ IsFiniteSet(Rated(sessions)) /\ Cardinality(Rated(sessions)) \in Nat
         /\ \A i \in DOMAIN sessions : sessions[i].energy \in Nat /\ sessions[i].ticks \in Nat
         /\ \A i \in Rated(sessions) : SessionAverage(sessions[i]) \in Nat
<1>1. DOMAIN sessions = 1..Len(sessions) /\ Len(sessions) \in Nat
  OBVIOUS
<1>2. Rated(sessions) \in SUBSET (1..Len(sessions))
  BY <1>1 DEF Rated
<1>3. IsFiniteSet(1..Len(sessions))
  BY <1>1, FS_Interval
<1>4. IsFiniteSet(Rated(sessions)) /\ Cardinality(Rated(sessions)) \in Nat
  BY <1>2, <1>3, FS_Subset, FS_CardinalityType
<1>5. ASSUME NEW i \in DOMAIN sessions
      PROVE  sessions[i].energy \in Nat /\ sessions[i].ticks \in Nat
  <2>1. sessions[i] \in SessionType
    BY <1>1
  <2>2. QED BY <2>1 DEF SessionType
<1>6. ASSUME NEW i \in Rated(sessions) PROVE SessionAverage(sessions[i]) \in Nat
  <2>1. /\ SessionAverage(sessions[i]) # None
        /\ sessions[i].energy \in Nat /\ sessions[i].ticks \in Nat
    BY <1>5 DEF Rated
  <2> DEFINE t == sessions[i].ticks
             e == sessions[i].energy
  <2>2. ~(t < MinSessionTicks \/ e < MinSessionEnergy)
        /\ SessionAverage(sessions[i]) = e \div t
    BY <2>1 DEF SessionAverage
  <2>3. t \in Nat \ {0}
    BY <2>1, <2>2, PlanAssumption
  <2>4. e \in Nat
    BY <2>1
  <2> HIDE DEF t, e
  <2>5. e \div t \in Nat
    BY <2>3, <2>4, Quotients
  <2>6. QED BY <2>2, <2>5
<1>7. QED
  BY <1>1, <1>2, <1>4, <1>5, <1>6

\* The best rate is that of one of the sessions, and no other is above it (learned_power_kw).
LEMMA BestIsDemonstrated ==
  ASSUME NEW sessions \in Seq(SessionType), NEW vehicle,
         \A i \in DOMAIN sessions : vehicle \in {None, sessions[i].vehicle}
  PROVE  LET best == LearnedPower(sessions, vehicle)
             demonstrated == \E k \in Rated(sessions) :
               /\ best = (SessionAverage(sessions[k]) * 95) \div 100
               /\ \A i \in Rated(sessions) :
                    SessionAverage(sessions[i]) <= SessionAverage(sessions[k])
         IN  /\ best = None \/ demonstrated
             /\ Rated(sessions) # {} /\ Cardinality(Rated(sessions)) >= MinSessions =>
                  demonstrated
<1> DEFINE R == Rated(sessions)
           avg == [i \in R |-> SessionAverage(sessions[i])]
           E == {avg[i] : i \in R}
<1>1. /\ IsFiniteSet(R) /\ Cardinality(R) \in Nat
      /\ \A i \in R : SessionAverage(sessions[i]) \in Nat
  BY RatedAreTyped
<1>2. {i \in DOMAIN sessions : /\ vehicle # None => sessions[i].vehicle = vehicle
                               /\ SessionAverage(sessions[i]) # None} = R
  BY DEF Rated
<1>3. {SessionAverage(sessions[i]) : i \in R} = E
  <2>1. \A i \in R : avg[i] = SessionAverage(sessions[i])
    OBVIOUS
  <2> HIDE DEF avg, R
  <2>2. QED BY <2>1
<1>4. LearnedPower(sessions, vehicle) =
        IF Cardinality(R) < MinSessions \/ R = {} THEN None ELSE (Max(E) * 95) \div 100
  <2> HIDE DEF R, E
  <2>1. QED BY <1>2, <1>3 DEF LearnedPower
<1>5. avg \in [R -> Nat]
  BY <1>1
<1>6. E \in SUBSET Nat /\ IsFiniteSet(E)
  <2> HIDE DEF avg, R
  <2>1. QED BY <1>1, <1>5, LabelsAreFinite
<1>7. ASSUME R # {}
      PROVE  \E k \in R : /\ Max(E) = SessionAverage(sessions[k])
                          /\ \A i \in R : SessionAverage(sessions[i])
                                            <= SessionAverage(sessions[k])
  <2>1. E # {}
    BY <1>7
  <2>2. Max(E) \in E /\ \A y \in E : Max(E) >= y
    <3> HIDE DEF E
    <3>1. QED BY <1>6, <2>1, FiniteMaxMin
  <2>3. PICK k \in R : Max(E) = avg[k]
    BY <2>2
  <2>4. \A i \in R : avg[i] \in E /\ avg[i] = SessionAverage(sessions[i])
    OBVIOUS
  <2>5. Max(E) \in Nat
    BY <1>6, <2>2
  <2> HIDE DEF E, avg, R
  <2>6. \A i \in R : SessionAverage(sessions[i]) <= Max(E)
    BY <1>1, <2>2, <2>4, <2>5
  <2>7. QED BY <2>3, <2>4, <2>6
<1>8. Cardinality(R) \in Int /\ MinSessions \in Int
  BY <1>1, PlanAssumption
<1> HIDE DEF R, E
<1>9. ASSUME R # {}, Cardinality(R) >= MinSessions
      PROVE  LearnedPower(sessions, vehicle) = (Max(E) * 95) \div 100
  BY <1>4, <1>8, <1>9
<1>10. LearnedPower(sessions, vehicle) = None \/ (R # {} /\ Cardinality(R) >= MinSessions)
  BY <1>4, <1>8
<1>11. R # {} /\ Cardinality(R) >= MinSessions =>
         \E k \in R : /\ LearnedPower(sessions, vehicle)
                           = (SessionAverage(sessions[k]) * 95) \div 100
                      /\ \A i \in R : SessionAverage(sessions[i]) <= SessionAverage(sessions[k])
  BY <1>7, <1>9
<1>12. QED
  BY <1>10, <1>11 DEF R

\* The usual energy is that of one of the sessions that can be trusted (typical_energy_kwh).
LEMMA TypicalIsOne ==
  ASSUME NEW sessions \in Seq(SessionType), TypicalEnergy(sessions) # None
  PROVE  \E j \in Rated(sessions) : TypicalEnergy(sessions) = sessions[j].energy
<1> DEFINE R == Rated(sessions)
           f == [i \in R |-> sessions[i].energy]
           half == Cardinality(R) \div 2
           IsMiddle(e) == /\ Cardinality({i \in R : sessions[i].energy < e}) <= half
                          /\ half < Cardinality({i \in R : sessions[i].energy <= e})
           E == {sessions[i].energy : i \in R}
<1>1. IsFiniteSet(R) /\ Cardinality(R) \in Nat /\ f \in [R -> Nat] /\ R \in SUBSET DOMAIN sessions
  BY RatedAreTyped DEF Rated
<1>2. /\ ~(Cardinality(R) < RecentWindow)
      /\ TypicalEnergy(sessions) = CHOOSE e \in E : IsMiddle(e)
  BY DEF TypicalEnergy, Rated
<1>3. half \in Nat /\ half < Cardinality(R)
  <2>1. RecentWindow \in Nat \ {0}
    BY ReportAssumption
  <2> DEFINE n == Cardinality(R)
  <2>2. n \in Nat \ {0}
    BY <1>1, <1>2, <2>1
  <2> HIDE DEF n, R
  <2>3. n \div 2 \in Nat /\ n \div 2 < n
    BY <2>2
  <2>4. QED BY <2>3 DEF n
<1>4. PICK j \in R : IsMedian(R, f, half, f[j])
  <2> HIDE DEF R, f, half
  <2>1. QED BY <1>1, <1>3, MedianExists
<1>5. \A i \in R : f[i] = sessions[i].energy
  OBVIOUS
<1> HIDE DEF f, R, half
<1>6. \A e : /\ {i \in R : f[i] < e} = {i \in R : sessions[i].energy < e}
             /\ {i \in R : f[i] <= e} = {i \in R : sessions[i].energy <= e}
  BY <1>5
<1>7. IsMiddle(f[j])
  BY <1>4, <1>6 DEF IsMedian
<1> HIDE DEF IsMiddle
<1>8. f[j] \in E
  BY <1>5
<1>9. \E e \in E : IsMiddle(e)
  BY <1>7, <1>8
<1>10. TypicalEnergy(sessions) \in E
  BY <1>2, <1>9
<1>11. QED
  BY <1>10 DEF R

\* The latest sessions that can be trusted and ran well below a rate.
SlowOnes(sessions, best) ==
  {i \in Rated(sessions) : i <= RecentWindow /\ SessionAverage(sessions[i]) * 100 < best * 70}

LEMMA SlowAreCounted ==
  ASSUME NEW sessions \in Seq(SessionType), NEW best
  PROVE  /\ ChargingSlower(sessions, best) =
              (best \notin {None, 0} /\ Cardinality(SlowOnes(sessions, best)) >= SlowRequired)
         /\ IsFiniteSet(SlowOnes(sessions, best))
<1> DEFINE length == Len(sessions)
           n == Min({RecentWindow, length})
           recent == SubSeq(sessions, 1, n)
<1>1. length \in Nat /\ DOMAIN sessions = 1..length /\ RecentWindow \in Nat
  BY ReportAssumption
<1> HIDE DEF length
<1>2. n = IF RecentWindow <= length THEN RecentWindow ELSE length
  <2>1. RecentWindow \in Int /\ length \in Int
    BY <1>1
  <2>2. QED BY <2>1, PairMaxMin
<1> HIDE DEF n
<1>3. n \in Nat /\ \A i \in 1..n : i \in DOMAIN sessions
  BY <1>1, <1>2
<1>4. DOMAIN recent = 1..n /\ \A i \in 1..n : recent[i] = sessions[i]
  <2>1. \A i \in 1..n : sessions[i] \in SessionType
    BY <1>1, <1>3
  <2>2. /\ recent \in Seq(SessionType)
        /\ Len(recent) = IF 1 <= n THEN n - 1 + 1 ELSE 0
        /\ \A i \in 1..(n - 1 + 1) : recent[i] = sessions[1 + i - 1]
    BY <1>3, <2>1, SubSeqProperties
  <2> HIDE DEF recent
  <2>3. DOMAIN recent = 1..n
    BY <1>3, <2>2
  <2>4. ASSUME NEW i \in 1..n PROVE recent[i] = sessions[i]
    <3>1. i \in 1..(n - 1 + 1) /\ 1 + i - 1 = i
      BY <1>3
    <3>2. QED BY <2>2, <3>1
  <2>5. QED BY <2>3, <2>4
<1>5. Recent(sessions) = recent
  BY DEF Recent, n, length
<1> HIDE DEF recent
<1>6. \A i \in DOMAIN sessions : i <= RecentWindow <=> i \in 1..n
  BY <1>1, <1>2
<1>7. {i \in DOMAIN recent : /\ SessionAverage(recent[i]) # None
                             /\ SessionAverage(recent[i]) * 100 < best * 70}
        = SlowOnes(sessions, best)
  BY <1>3, <1>4, <1>6 DEF SlowOnes, Rated
<1>8. ChargingSlower(sessions, best) =
        (best \notin {None, 0} /\ Cardinality(SlowOnes(sessions, best)) >= SlowRequired)
  BY <1>5, <1>7 DEF ChargingSlower
<1>9. IsFiniteSet(SlowOnes(sessions, best))
  <2>1. SlowOnes(sessions, best) \in SUBSET Rated(sessions)
    BY DEF SlowOnes
  <2>2. QED BY <2>1, RatedAreTyped, FS_Subset
<1>10. QED
  BY <1>8, <1>9

\* Sessions that stay close to each other are not slow.
LEMMA SteadyIsNotSlow ==
  ASSUME NEW sessions \in Seq(SessionType), NEW vehicle,
         \A i \in DOMAIN sessions : vehicle \in {None, sessions[i].vehicle},
         \A i, j \in Rated(sessions) :
           SessionAverage(sessions[i]) * 100 >= SessionAverage(sessions[j]) * 70
  PROVE  ~ChargingSlower(sessions, LearnedPower(sessions, vehicle))
<1> DEFINE best == LearnedPower(sessions, vehicle)
<1>1. SUFFICES ASSUME best # None PROVE SlowOnes(sessions, best) = {}
  <2>1. Cardinality({}) = 0 /\ SlowRequired \in Nat \ {0}
    BY FS_EmptySet, ReportAssumption
  <2>2. SlowOnes(sessions, best) = {} => ~(Cardinality(SlowOnes(sessions, best)) >= SlowRequired)
    BY <2>1
  <2> HIDE DEF best
  <2>3. best = None \/ SlowOnes(sessions, best) = {} => ~ChargingSlower(sessions, best)
    BY <2>2, SlowAreCounted
  <2>4. QED BY <1>1, <2>3 DEF best
<1>2. PICK k \in Rated(sessions) : best = (SessionAverage(sessions[k]) * 95) \div 100
  BY <1>1, BestIsDemonstrated
<1> HIDE DEF best
<1>3. ASSUME NEW i \in Rated(sessions)
      PROVE  ~(SessionAverage(sessions[i]) * 100 < best * 70)
  <2> DEFINE x == SessionAverage(sessions[i])
             y == SessionAverage(sessions[k])
  <2>1. x \in Nat /\ y \in Nat /\ x * 100 >= y * 70
    BY RatedAreTyped
  <2>2. best = (y * 95) \div 100
    BY <1>2
  <2> HIDE DEF x, y
  <2>3. ~(x * 100 < best * 70)
    BY <2>1, <2>2
  <2>4. QED BY <2>3 DEF x
<1>4. QED
  BY <1>3 DEF SlowOnes

\* The latest sessions are slow when each ran at less than half of what was demonstrated.
LEMMA HalvedIsSlow ==
  ASSUME NEW sessions \in Seq(SessionType), NEW vehicle,
         \A i \in DOMAIN sessions : vehicle \in {None, sessions[i].vehicle},
         1..SlowRequired \subseteq Rated(sessions),
         NEW j \in Rated(sessions) \ (1..SlowRequired),
         SessionAverage(sessions[j]) > 1,
         \A i \in 1..SlowRequired :
           SessionAverage(sessions[i]) * 2 < SessionAverage(sessions[j])
  PROVE  ChargingSlower(sessions, LearnedPower(sessions, vehicle))
<1> DEFINE best == LearnedPower(sessions, vehicle)
           latest == 1..SlowRequired
<1>1. /\ SlowRequired \in Nat \ {0} /\ RecentWindow \in Nat /\ SlowRequired <= RecentWindow
      /\ MinSessions \in Nat /\ MinSessions <= SlowRequired + 1
  BY ReportAssumption, PlanAssumption
<1>2. IsFiniteSet(latest) /\ Cardinality(latest) = SlowRequired
  <2>1. 1 \in Int /\ SlowRequired \in Int /\ ~(1 > SlowRequired)
        /\ SlowRequired - 1 + 1 = SlowRequired
    BY <1>1
  <2>2. QED BY <2>1, FS_Interval
<1>3. Cardinality(Rated(sessions)) >= MinSessions
  <2>1. IsFiniteSet(Rated(sessions)) /\ Cardinality(Rated(sessions)) \in Nat
    BY RatedAreTyped
  <2>2. latest \cup {j} \in SUBSET Rated(sessions) /\ j \notin latest
    OBVIOUS
  <2> HIDE DEF latest
  <2>3. Cardinality(latest \cup {j}) = SlowRequired + 1
    BY <1>2, <2>2, FS_AddElement
  <2>4. Cardinality(latest \cup {j}) <= Cardinality(Rated(sessions))
    BY <2>1, <2>2, FS_Subset
  <2>5. QED BY <1>1, <2>1, <2>3, <2>4
<1>4. PICK k \in Rated(sessions) :
        /\ best = (SessionAverage(sessions[k]) * 95) \div 100
        /\ \A i \in Rated(sessions) : SessionAverage(sessions[i]) <= SessionAverage(sessions[k])
  BY <1>3, BestIsDemonstrated
<1> HIDE DEF best
<1> DEFINE y == SessionAverage(sessions[j])
           m == SessionAverage(sessions[k])
<1>5. y \in Nat /\ m \in Nat /\ y <= m /\ y > 1 /\ best = (m * 95) \div 100
  BY <1>4, RatedAreTyped
<1>6. ASSUME NEW i \in latest PROVE i \in SlowOnes(sessions, best)
  <2> DEFINE x == SessionAverage(sessions[i])
  <2>1. i \in Rated(sessions) /\ i <= RecentWindow
    BY <1>1
  <2>2. x \in Nat /\ x * 2 < y
    BY <2>1, RatedAreTyped
  <2> HIDE DEF x, y, m
  <2>3. x * 100 < best * 70
    BY <1>5, <2>2
  <2>4. QED BY <2>1, <2>3 DEF SlowOnes, x
<1>7. best \notin {None, 0}
  <2> HIDE DEF y, m
  <2>1. best \in Int /\ best > 0
    BY <1>5
  <2>2. QED BY <2>1, NoneAssumption
<1>8. Cardinality(SlowOnes(sessions, best)) >= SlowRequired
  <2>1. latest \in SUBSET SlowOnes(sessions, best)
    BY <1>6
  <2>2. /\ IsFiniteSet(SlowOnes(sessions, best))
        /\ Cardinality(SlowOnes(sessions, best)) \in Nat
    BY SlowAreCounted, FS_CardinalityType
  <2> HIDE DEF latest
  <2>3. Cardinality(latest) <= Cardinality(SlowOnes(sessions, best))
    BY <2>1, <2>2, FS_Subset
  <2>4. QED BY <1>1, <1>2, <2>2, <2>3
<1>9. QED
  BY <1>7, <1>8, SlowAreCounted DEF best

\* Reported as short, the latest sessions got less than half of what some session got.
LEMMA ShortIsShort ==
  ASSUME NEW sessions \in Seq(SessionType), RepeatedlyShort(sessions, TypicalEnergy(sessions))
  PROVE  \E j \in Rated(sessions) : \A i \in 1..ShortRequired :
           /\ i \in DOMAIN sessions
           /\ sessions[i].energy * 100 < sessions[j].energy * 40
           /\ sessions[i].energy * 2 < sessions[j].energy
<1> DEFINE typical == TypicalEnergy(sessions)
<1>1. /\ typical # None /\ Len(sessions) >= ShortRequired
      /\ \A i \in 1..ShortRequired : sessions[i].energy * 100 < typical * 40
  BY DEF RepeatedlyShort
<1>2. PICK j \in Rated(sessions) : typical = sessions[j].energy
  BY <1>1, TypicalIsOne
<1> HIDE DEF typical
<1>3. ASSUME NEW i \in 1..ShortRequired
      PROVE  /\ i \in DOMAIN sessions
             /\ sessions[i].energy * 100 < sessions[j].energy * 40
             /\ sessions[i].energy * 2 < sessions[j].energy
  <2>1. ShortRequired \in Nat /\ Len(sessions) \in Nat /\ DOMAIN sessions = 1..Len(sessions)
    BY ReportAssumption
  <2>2. i \in DOMAIN sessions /\ j \in DOMAIN sessions
    BY <1>1, <2>1 DEF Rated
  <2> DEFINE x == sessions[i].energy
             y == sessions[j].energy
  <2>3. x \in Nat /\ y \in Nat /\ x * 100 < y * 40
    BY <1>1, <1>2, <2>2, RatedAreTyped
  <2> HIDE DEF x, y
  <2>4. x * 2 < y
    BY <2>3
  <2>5. QED BY <2>2, <2>3, <2>4 DEF x, y
<1>4. QED
  BY <1>3

\* For every history of one vehicle's sessions a steady car is not reported, one that has
\* slowed to less than half is, and what is reported as short is (detect_anomalies).
THEOREM AlarmsHaveCause == InputsSpec => []AlarmsAreEarned
<1>1. ASSUME home \in Homes PROVE AlarmsAreEarned
  <2> DEFINE sessions == home.sessions
             rated == {i \in DOMAIN sessions : SessionAverage(sessions[i]) # None}
             average(i) == SessionAverage(sessions[i])
             alarms == Anomalies(sessions, home.vehicle)
             steady == /\ \A i, j \in rated : average(i) * 100 >= average(j) * 70
                       /\ \A i, j \in DOMAIN sessions :
                            sessions[i].energy * 100 >= sessions[j].energy * 40
             latest == 1..SlowRequired
  <2>1. sessions \in Seq(SessionType)
    BY <1>1, HomeIsHousehold DEF HouseholdType
  <2>2. SUFFICES ASSUME \A i \in DOMAIN sessions : home.vehicle \in {None, sessions[i].vehicle}
        PROVE  /\ steady => alarms = {}
               /\ /\ latest \subseteq rated
                  /\ \E j \in rated \ latest :
                       average(j) > 1 /\ \A i \in latest : average(i) * 2 < average(j)
                  => "slower" \in alarms
               /\ "short" \in alarms => \A i \in 1..ShortRequired :
                    \E j \in rated : sessions[i].energy * 2 < sessions[j].energy
    BY Zenon DEF AlarmsAreEarned
  <2>3. rated = Rated(sessions)
    BY DEF Rated
  <2>4. /\ "slower" \in alarms <=> ChargingSlower(sessions, LearnedPower(sessions, home.vehicle))
        /\ "short" \in alarms <=> RepeatedlyShort(sessions, TypicalEnergy(sessions))
        /\ alarms \subseteq {"slower", "short"}
    BY DEF Anomalies
  <2> HIDE DEF sessions, alarms, rated
  <2>5. steady => "slower" \notin alarms
    BY <2>1, <2>2, <2>3, <2>4, SteadyIsNotSlow
  <2>6. steady => "short" \notin alarms
    <3>1. SUFFICES ASSUME steady, "short" \in alarms PROVE FALSE
      OBVIOUS
    <3>2. PICK j \in Rated(sessions) : \A i \in 1..ShortRequired :
            i \in DOMAIN sessions /\ sessions[i].energy * 100 < sessions[j].energy * 40
      BY <2>1, <2>4, <3>1, ShortIsShort
    <3>3. 1 \in 1..ShortRequired
      BY ReportAssumption
    <3>4. 1 \in DOMAIN sessions /\ j \in DOMAIN sessions
      BY <3>2, <3>3 DEF Rated
    <3>5. sessions[1].energy * 100 < sessions[j].energy * 40
      BY <3>2, <3>3
    <3>6. sessions[1].energy * 100 >= sessions[j].energy * 40
      BY <3>1, <3>4
    <3>7. sessions[1].energy \in Nat /\ sessions[j].energy \in Nat
      BY <2>1, <3>4, RatedAreTyped
    <3>8. QED BY <3>5, <3>6, <3>7
  <2>7. ASSUME latest \subseteq rated,
               NEW j \in rated \ latest,
               average(j) > 1, \A i \in latest : average(i) * 2 < average(j)
        PROVE  "slower" \in alarms
    BY <2>1, <2>2, <2>3, <2>4, <2>7, HalvedIsSlow
  <2>8. "short" \in alarms => \A i \in 1..ShortRequired :
          \E j \in rated : sessions[i].energy * 2 < sessions[j].energy
    BY <2>1, <2>3, <2>4, ShortIsShort
  <2>9. steady => alarms = {}
    BY <2>4, <2>5, <2>6
  <2>10. QED
    BY <2>7, <2>8, <2>9 DEF sessions, alarms, rated
<1>2. QED
  BY <1>1, HouseholdStays, PTL
=============================================================================
