-------------------------- MODULE ChargeGatesProofs --------------------------
(***************************************************************************)
(* What every verdict of the gates satisfies, for every ladder, every set  *)
(* of delays and every context the controller can build.  It rests on the  *)
(* least-number principle, proved here by counting: the library's          *)
(* induction theorems take an operator parameter.                          *)
(***************************************************************************)
EXTENDS ChargeGates, FiniteSetTheorems, TLAPS

\* A context the controller can build: the ladder is bounded, and the cap that
\* narrowed it is on it, unless it left no current at all.
IsContext(c) ==
  /\ \E top \in Nat : c.ladder \subseteq 0..top
  /\ c.ladder # {} => c.cap \in c.ladder \union {None}
  /\ c.current \in Nat \union {None}
  /\ c.forceCurrent \in Nat \union {None}

\* A verdict that the apply layer can carry out within the narrowed ladder.
IsVerdict(v, c) ==
  /\ v.action \in Actions
  /\ v.target \in c.ladder \union {None}
  /\ v.action \in {"SET", "FORCE"} => v.target \in c.ladder
  /\ v.timers \in TimerState

\* A set verdict does not skip an offered current on its way up.
IsGentle(v, c) ==
  v.action = "SET" /\ c.current \in c.ladder =>
    ~\E a \in c.ladder : c.current < a /\ a < v.target

\* No current is left, or the external condition blocks charging.
Vetoed(c) == c.ladder = {} \/ ~c.external

-----------------------------------------------------------------------------
(* Extremes. *)

\* Were there none, the interval D that S spans below one of its elements would be
\* mapped by x - 1 one to one into D without its top, which the pigeonhole forbids.
\* Used for the ladder of currents and for the first gate that decides.
LEMMA LeastExists ==
  ASSUME NEW S \in SUBSET Nat, S # {}
  PROVE  \E x \in S : \A y \in S : x <= y
<1>1. SUFFICES ASSUME \A x \in S : \E y \in S : y < x
               PROVE  FALSE
  OBVIOUS
<1>2. PICK n \in S : TRUE
  OBVIOUS
<1> DEFINE D == {x \in 0..n : \E y \in S : y <= x}
           f == [x \in D |-> x - 1]
<1>3. IsFiniteSet(D) /\ Cardinality(D) \in Nat
  <2>1. IsFiniteSet(0..n) /\ D \in SUBSET (0..n)
    BY FS_Interval
  <2>2. QED
    BY <2>1, FS_Subset, FS_CardinalityType
<1>4. n \in D
  OBVIOUS
<1>5. IsFiniteSet(D \ {n}) /\ Cardinality(D \ {n}) < Cardinality(D)
  <2> HIDE DEF D
  <2>1. /\ IsFiniteSet(D \ {n})
        /\ Cardinality(D \ {n}) = IF n \in D THEN Cardinality(D) - 1 ELSE Cardinality(D)
    BY <1>3, FS_RemoveElement
  <2>2. QED BY <2>1, <1>3, <1>4
<1>6. f \in [D -> D \ {n}]
  <2>1. ASSUME NEW x \in D
        PROVE  x - 1 \in D \ {n}
    <3>1. PICK y \in S : y <= x
      OBVIOUS
    <3>2. PICK z \in S : z < y
      BY <1>1
    <3>3. QED
      BY <3>1, <3>2
  <2>2. QED
    BY <2>1
<1>7. PICK x \in D, y \in D : x # y /\ f[x] = f[y]
  <2> HIDE DEF D, f
  <2>1. QED BY <1>3, <1>5, <1>6, FS_PigeonHole
<1>8. QED
  BY <1>7

\* A non-empty set of integers within bounds has a least and a greatest element, as the
\* ladder of offered currents (allowed_currents) does.
LEMMA Extrema ==
  ASSUME NEW lo \in Int, NEW hi \in Int, NEW S \in SUBSET (lo..hi), S # {}
  PROVE  /\ \E x \in S : \A y \in S : x <= y
         /\ \E x \in S : \A y \in S : x >= y
<1>1. \E x \in S : \A y \in S : x <= y
  <2> DEFINE T == {x - lo : x \in S}
  <2>1. T \in SUBSET Nat /\ T # {}
    OBVIOUS
  <2>2. PICK m \in T : \A t \in T : m <= t
    <3> HIDE DEF T
    <3>1. QED BY <2>1, LeastExists
  <2>3. PICK x \in S : m = x - lo
    OBVIOUS
  <2>4. ASSUME NEW y \in S PROVE x <= y
    <3>1. m <= y - lo BY <2>2
    <3>2. QED BY <3>1, <2>3
  <2>5. QED BY <2>4
<1>2. \E x \in S : \A y \in S : x >= y
  <2> DEFINE T == {hi - x : x \in S}
  <2>1. T \in SUBSET Nat /\ T # {}
    OBVIOUS
  <2>2. PICK m \in T : \A t \in T : m <= t
    <3> HIDE DEF T
    <3>1. QED BY <2>1, LeastExists
  <2>3. PICK x \in S : m = hi - x
    OBVIOUS
  <2>4. ASSUME NEW y \in S PROVE x >= y
    <3>1. m <= hi - y BY <2>2
    <3>2. QED BY <3>1, <2>3
  <2>5. QED BY <2>4
<1>3. QED BY <1>1, <1>2

\* So Min and Max pick them (min_current and max_current of GateContext).
LEMMA MaxMin ==
  ASSUME NEW lo \in Int, NEW hi \in Int, NEW S \in SUBSET (lo..hi), S # {}
  PROVE  /\ Max(S) \in S /\ \A y \in S : Max(S) >= y
         /\ Min(S) \in S /\ \A y \in S : Min(S) <= y
<1>1. Max(S) \in S /\ \A y \in S : Max(S) >= y
  <2>1. \E x \in S : \A y \in S : x >= y BY Extrema
  <2>2. QED BY <2>1, Zenon DEF Max
<1>2. Min(S) \in S /\ \A y \in S : Min(S) <= y
  <2>1. \E x \in S : \A y \in S : x <= y BY Extrema
  <2>2. QED BY <2>1, Zenon DEF Min
<1>3. QED BY <1>1, <1>2

\* Of two numbers they pick the greater and the lesser (the clamps).
LEMMA PairMaxMin ==
  ASSUME NEW a \in Int, NEW b \in Int
  PROVE  /\ Max({a, b}) = IF a >= b THEN a ELSE b
         /\ Min({a, b}) = IF a <= b THEN a ELSE b
<1> DEFINE lo == IF a <= b THEN a ELSE b
           hi == IF a <= b THEN b ELSE a
           S == {a, b}
<1>1. lo \in Int /\ hi \in Int /\ S \in SUBSET (lo..hi) /\ S # {}
  OBVIOUS
<1>2. Max(S) \in S /\ (\A y \in S : Max(S) >= y) /\ Min(S) \in S /\ \A y \in S : Min(S) <= y
  <2> HIDE DEF S, lo, hi
  <2>1. QED BY <1>1, MaxMin
<1>3. Max(S) \in {a, b} /\ Max(S) >= a /\ Max(S) >= b
  BY <1>2
<1>4. Min(S) \in {a, b} /\ Min(S) <= a /\ Min(S) <= b
  BY <1>2
<1> DEFINE greater == Max(S)
           lesser == Min(S)
<1>5. greater = IF a >= b THEN a ELSE b
  <2> HIDE DEF greater, lesser
  <2>1. greater \in {a, b} /\ greater >= a /\ greater >= b
    BY <1>3 DEF greater
  <2>2. QED BY <2>1
<1>6. lesser = IF a <= b THEN a ELSE b
  <2> HIDE DEF greater, lesser
  <2>1. lesser \in {a, b} /\ lesser <= a /\ lesser <= b
    BY <1>4 DEF lesser
  <2>2. QED BY <2>1
<1>7. QED BY <1>5, <1>6

\* The form the ladder of currents has.
LEMMA LadderMaxMin ==
  ASSUME NEW top \in Nat, NEW S, S \subseteq 0..top, S # {}
  PROVE  /\ S \subseteq Nat
         /\ Max(S) \in S /\ \A y \in S : Max(S) >= y
         /\ Min(S) \in S /\ \A y \in S : Min(S) <= y
<1>1. 0 \in Int /\ top \in Int /\ S \in SUBSET (0..top)
  OBVIOUS
<1>2. /\ Max(S) \in S /\ \A y \in S : Max(S) >= y
      /\ Min(S) \in S /\ \A y \in S : Min(S) <= y
  BY <1>1, MaxMin, Zenon
<1>3. S \subseteq Nat
  OBVIOUS
<1>4. QED
  BY <1>2, <1>3

-----------------------------------------------------------------------------
(* The gates. *)

\* Exactly one gate decides: the last one always does, so a first one exists.
LEMMA FirstDecidingExists ==
  ASSUME NEW c
  PROVE  /\ FirstDeciding(c) \in 1..12
         /\ Decides(Gates[FirstDeciding(c)], c)
         /\ \A j \in 1..(FirstDeciding(c) - 1) : ~Decides(Gates[j], c)
<1> DEFINE I == {i \in 1..12 : Decides(Gates[i], c)}
<1>1. 12 \in I
  <2>1. Gates[12] = "start"
    BY DEF Gates
  <2>2. Decides("start", c)
    BY DEF Decides
  <2>3. QED
    BY <2>1, <2>2
<1>2. PICK m \in I : \A i \in I : m <= i
  <2> HIDE DEF I
  <2>1. I \in SUBSET Nat
    BY DEF I
  <2>2. QED
    BY <1>1, <2>1, LeastExists
<1>3. DOMAIN Gates = 1..12
  BY DEF Gates
<1>4. \E i \in DOMAIN Gates : Decides(Gates[i], c) /\ \A j \in 1..(i - 1) : ~Decides(Gates[j], c)
  <2>1. m \in DOMAIN Gates /\ Decides(Gates[m], c)
    BY <1>3
  <2>2. ASSUME NEW j \in 1..(m - 1) PROVE ~Decides(Gates[j], c)
    <3>1. j \in 1..12 /\ ~(m <= j)
      OBVIOUS
    <3>2. QED
      BY <1>2, <3>1
  <2>3. QED
    BY <2>1, <2>2
<1>5. /\ FirstDeciding(c) \in DOMAIN Gates
      /\ Decides(Gates[FirstDeciding(c)], c)
      /\ \A j \in 1..(FirstDeciding(c) - 1) : ~Decides(Gates[j], c)
  BY <1>4, Zenon DEF FirstDeciding
<1>6. QED
  BY <1>3, <1>5

-----------------------------------------------------------------------------
\* The ladder a gate regulates on, once no_currents has declined: min_current and
\* max_current are offered currents.
LEMMA LadderEnds ==
  ASSUME NEW c, IsContext(c), c.ladder # {}
  PROVE  /\ c.ladder \subseteq Nat
         /\ Min(c.ladder) \in c.ladder /\ \A a \in c.ladder : Min(c.ladder) <= a
         /\ Max(c.ladder) \in c.ladder /\ \A a \in c.ladder : Max(c.ladder) >= a
<1>1. PICK top \in Nat : c.ladder \subseteq 0..top
  BY DEF IsContext
<1>2. QED
  BY <1>1, LadderMaxMin, Zenon

\* The setpoint regulation starts from is an offered current (_gate_charging).
LEMMA CurrentOnLadder ==
  ASSUME NEW c, IsContext(c), c.ladder # {}
  PROVE  /\ Current(c) \in c.ladder
         /\ c.current \in c.ladder => Current(c) = c.current
BY LadderEnds DEF Current

\* One step of the ramp ends on an offered current and passes none by (ramp_towards).
LEMMA RampStepsOnce ==
  ASSUME NEW top \in Nat, NEW ladder \in SUBSET (0..top),
         NEW current \in ladder, NEW target \in ladder, target # current
  PROVE  /\ RampTowards(current, target, ladder) \in ladder
         /\ ~\E a \in ladder : current < a /\ a < RampTowards(current, target, ladder)
<1>1. CASE target > current
  <2> DEFINE above == {a \in ladder : a > current}
  <2>1. above \subseteq 0..top /\ above # {}
    BY <1>1
  <2>2. Min(above) \in above /\ \A a \in above : Min(above) <= a
    <3> HIDE DEF above
    <3>1. QED BY <2>1, LadderMaxMin, Zenon
  <2>3. RampTowards(current, target, ladder) = Min(above)
    BY <1>1 DEF RampTowards
  <2>4. ASSUME NEW a \in ladder, current < a PROVE ~(a < Min(above))
    <3>1. a \in above /\ Min(above) \in 0..top
      BY <2>1, <2>2, <2>4
    <3>2. QED
      BY <2>2, <3>1
  <2>5. QED
    BY <2>2, <2>3, <2>4
<1>2. CASE ~(target > current)
  <2> DEFINE below == {a \in ladder : a < current}
  <2>1. below \subseteq 0..top /\ below # {}
    <3>1. target \in below
      BY <1>2
    <3>2. QED
      BY <3>1
  <2>2. Max(below) \in below
    <3> HIDE DEF below
    <3>1. QED BY <2>1, LadderMaxMin, Zenon
  <2>3. RampTowards(current, target, ladder) = Max(below)
    BY <1>2 DEF RampTowards
  <2>4. Max(below) < current /\ Max(below) \in 0..top /\ Max(below) \in ladder
    BY <2>1, <2>2
  <2>5. QED
    <3> HIDE DEF below
    <3>1. QED BY <2>3, <2>4
<1>3. QED
  BY <1>1, <1>2

\* What the surplus pays for is an offered current, or nothing.
LEMMA TargetOnLadder ==
  ASSUME NEW c, IsContext(c), c.ladder # {}
  PROVE  TargetCurrent(c) \in c.ladder \union {None}
<1>1. PICK top \in Nat : c.ladder \subseteq 0..top
  BY DEF IsContext
<1> DEFINE affordable == {a \in c.ladder : c.surplus > 0 /\ a <= c.surplus \div WattsPerAmp}
<1>2. affordable # {} => Max(affordable) \in affordable
  <2>1. affordable \subseteq 0..top
    BY <1>1
  <2> HIDE DEF affordable
  <2>2. QED
    BY <2>1, LadderMaxMin, Zenon
<1>3. MaxSupported(c) = IF affordable = {} THEN 0 ELSE Max(affordable)
  BY DEF MaxSupported, CurrentSupportedBy
<1>4. MaxSupported(c) \in c.ladder \union {0}
  BY <1>2, <1>3
<1>5. MaxSupported(c) >= Min(c.ladder) => MaxSupported(c) \in c.ladder
  <2>1. Min(c.ladder) \in 0..top /\ Min(c.ladder) \in c.ladder
    BY <1>1, LadderEnds
  <2>2. 0 >= Min(c.ladder) => Min(c.ladder) = 0
    BY <2>1
  <2>3. QED
    BY <1>4, <2>1, <2>2
<1>6. QED
  BY <1>5, LadderEnds DEF TargetCurrent

-----------------------------------------------------------------------------
\* Each gate that sets a current sets an offered one, and keeps the timers in range.

LEMMA ClimbSound ==
  ASSUME NEW c, IsContext(c), c.ladder # {}, NEW t \in TimerState, NEW cooled
  PROVE  IsVerdict(ClimbToMax(c, t, cooled), c) /\ IsGentle(ClimbToMax(c, t, cooled), c)
<1> DEFINE v == ClimbToMax(c, t, cooled)
<1>1. CASE v = Hold(t)
  BY <1>1 DEF IsVerdict, IsGentle, Hold, Say, Actions
<1>2. CASE /\ v = SetTo(RampTowards(Current(c), Max(c.ladder), c.ladder), t)
           /\ Current(c) # Max(c.ladder)
  <2>1. PICK top \in Nat : c.ladder \in SUBSET (0..top)
    BY DEF IsContext
  <2>2. /\ RampTowards(Current(c), Max(c.ladder), c.ladder) \in c.ladder
        /\ ~\E a \in c.ladder : /\ Current(c) < a
                                /\ a < RampTowards(Current(c), Max(c.ladder), c.ladder)
    BY <1>2, <2>1, RampStepsOnce, LadderEnds, CurrentOnLadder
  <2>3. QED
    BY <1>2, <2>2, CurrentOnLadder DEF IsVerdict, IsGentle, SetTo, Say, Actions
<1>3. Current(c) >= Max(c.ladder) \/ Current(c) # Max(c.ladder)
  BY LadderEnds, CurrentOnLadder
<1>4. QED
  BY <1>1, <1>2, <1>3 DEF ClimbToMax

LEMMA RegulateSound ==
  ASSUME NEW c, IsContext(c), c.ladder # {}, NEW t \in TimerState
  PROVE  IsVerdict(Regulate(c, t), c) /\ IsGentle(Regulate(c, t), c)
<1> DEFINE v == Regulate(c, t)
<1>1. CASE v = Hold(t)
  BY <1>1 DEF IsVerdict, IsGentle, Hold, Say, Actions
<1>2. CASE /\ v = SetTo(RampTowards(Current(c), TargetCurrent(c), c.ladder), t)
           /\ TargetCurrent(c) # None /\ TargetCurrent(c) # Current(c)
  <2>1. PICK top \in Nat : c.ladder \in SUBSET (0..top)
    BY DEF IsContext
  <2>2. TargetCurrent(c) \in c.ladder
    BY <1>2, TargetOnLadder
  <2>3. /\ RampTowards(Current(c), TargetCurrent(c), c.ladder) \in c.ladder
        /\ ~\E a \in c.ladder : /\ Current(c) < a
                                /\ a < RampTowards(Current(c), TargetCurrent(c), c.ladder)
    BY <1>2, <2>1, <2>2, RampStepsOnce, CurrentOnLadder
  <2>4. QED
    BY <1>2, <2>3, CurrentOnLadder DEF IsVerdict, IsGentle, SetTo, Say, Actions
<1>3. QED
  BY <1>1, <1>2 DEF Regulate

\* An age never outgrows what it is compared with, and a candidate that does not count
\* stays one (the "now - ts < delay" comparisons of the timers).
LEMMA OlderInRange ==
  ASSUME NEW limit \in Nat, NEW age \in (0..limit) \union {None}
  PROVE  /\ Older(age, limit) \in (0..limit) \union {None}
         /\ age \in 0..limit => Older(age, limit) \in 0..limit
BY NoneAssumption DEF Older

\* Clearing the candidates, starting one and stamping a timer keep the timers in range.
LEMMA TimersStayInRange ==
  ASSUME NEW t \in TimerState
  PROVE  /\ NoCandidates(t) \in TimerState
         /\ [t EXCEPT !.reduce = 0] \in TimerState
         /\ [t EXCEPT !.start = None] \in TimerState
         /\ [t EXCEPT !.stop = None] \in TimerState
         /\ [t EXCEPT !.stop = 0] \in TimerState
         /\ [t EXCEPT !.start = 0, !.stop = None] \in TimerState
         /\ [t EXCEPT !.stop = None, !.surplusStop = 0] \in TimerState
         /\ Aged(t) \in TimerState
<1>1. 0 \in 0..StartDelay /\ 0 \in 0..StopDelay /\ 0 \in 0..ProtectionHold /\ 0 \in 0..RestartLock
  BY DelayAssumption
<1>2. /\ NoCandidates(t) \in TimerState
      /\ [t EXCEPT !.reduce = 0] \in TimerState
      /\ [t EXCEPT !.start = None] \in TimerState
      /\ [t EXCEPT !.stop = None] \in TimerState
      /\ [t EXCEPT !.stop = 0] \in TimerState
  BY <1>1 DEF TimerState, NoCandidates
<1>3. [t EXCEPT !.start = 0, !.stop = None] \in TimerState
  BY <1>1 DEF TimerState
<1>4. [t EXCEPT !.stop = None, !.surplusStop = 0] \in TimerState
  BY <1>1 DEF TimerState
<1>5. Aged(t) \in TimerState
  <2>1. /\ Older(t.start, StartDelay) \in (0..StartDelay) \union {None}
        /\ Older(t.stop, StopDelay) \in (0..StopDelay) \union {None}
        /\ Older(t.increase, UpCooldown) \in 0..UpCooldown
        /\ Older(t.decrease, DownCooldown) \in 0..DownCooldown
        /\ Older(t.reduce, ProtectionHold) \in 0..ProtectionHold
        /\ Older(t.surplusStop, RestartLock) \in 0..RestartLock
    BY DelayAssumption, OlderInRange DEF TimerState
  <2>2. QED
    BY <2>1 DEF Aged, TimerState
<1>6. QED
  BY <1>2, <1>3, <1>4, <1>5

LEMMA StopSound ==
  ASSUME NEW c, NEW t \in TimerState
  PROVE  /\ IsVerdict(StopWhenDue(c, t), c)
         /\ StopWhenDue(c, t).action \in {"HOLD", "STOP"}
<1>1. [t EXCEPT !.stop = None, !.surplusStop = IF SurplusStop(c) THEN 0 ELSE @] \in TimerState
  <2>1. 0 \in 0..RestartLock
    BY DelayAssumption
  <2>2. CASE SurplusStop(c)
    BY <2>1, <2>2 DEF TimerState
  <2>3. CASE ~SurplusStop(c)
    BY <2>3 DEF TimerState
  <2>4. QED
    BY <2>2, <2>3
<1>2. QED
  BY <1>1, TimersStayInRange DEF StopWhenDue, IsVerdict, Hold, Stop, Say, Actions

LEMMA StartSound ==
  ASSUME NEW c, IsContext(c), c.ladder # {}, NEW t \in TimerState
  PROVE  IsVerdict(Start(c, t), c) /\ Start(c, t).action \in {"IDLE", "START"}
BY LadderEnds, TimersStayInRange DEF Start, IsVerdict, Idle, StartAt, Say, Actions

LEMMA ForceChargeSound ==
  ASSUME NEW c, IsContext(c), c.ladder # {}, NEW t \in TimerState
  PROVE  IsVerdict(ForceCharge(c, t), c) /\ ForceCharge(c, t).action = "FORCE"
<1> DEFINE affordable == {a \in c.ladder : c.forceCurrent = None \/ a <= c.forceCurrent}
           target == IF affordable = {} THEN Min(c.ladder) ELSE Max(affordable)
<1>1. PICK top \in Nat : c.ladder \subseteq 0..top
  BY DEF IsContext
<1>2. affordable # {} => Max(affordable) \in affordable
  <2>1. affordable \subseteq 0..top
    BY <1>1
  <2> HIDE DEF affordable
  <2>2. QED
    BY <2>1, LadderMaxMin, Zenon
<1>3. target \in c.ladder
  BY <1>2, LadderEnds
<1>4. ForceCharge(c, t) = Say("FORCE", target, t)
  BY DEF ForceCharge
<1> HIDE DEF target
<1>5. QED
  BY <1>3, <1>4 DEF IsVerdict, Say, Actions

-----------------------------------------------------------------------------
\* The order, gate by gate, and who answers for it.
LEMMA TheOrder ==
  /\ Gates[1] = "no_currents" /\ Gates[2] = "external_charge_blocked"
  /\ Gates[3] = "force_charge" /\ Gates[4] = "protection_reduce"
  /\ Gates[5] = "tariff" /\ Gates[6] = "pause"
  /\ Gates[7] = "cap_only" /\ Gates[8] = "mode_disabled"
  /\ Gates[9] = "battery_floor_tariff_fallback" /\ Gates[10] = "grid_sensor"
  /\ Gates[11] = "charging" /\ Gates[12] = "start"
BY DEF Gates

LEMMA TheAnswers ==
  ASSUME NEW c, NEW t
  PROVE  /\ Answer("no_currents", c, t) = NoCurrents(c, t)
         /\ Answer("external_charge_blocked", c, t) = ExternalChargeBlocked(c, t)
         /\ Answer("force_charge", c, t) = ForceCharge(c, t)
         /\ Answer("protection_reduce", c, t) = ProtectionReduce(c, t)
         /\ Answer("tariff", c, t) = Tariff(c, t)
         /\ Answer("pause", c, t) = Pause(c, t)
         /\ Answer("cap_only", c, t) = CapOnly(c, t)
         /\ Answer("mode_disabled", c, t) = ModeDisabled(c, t)
         /\ Answer("battery_floor_tariff_fallback", c, t) = BatteryFloorTariffFallback(c, t)
         /\ Answer("grid_sensor", c, t) = GridSensor(c, t)
         /\ Answer("charging", c, t) = Charging(c, t)
         /\ Answer("start", c, t) = Start(c, t)
BY DEF Answer

\* A gate that decides on an empty ladder is no_currents; one that decides against the
\* external veto comes before it.
LEMMA VetoesComeFirst ==
  ASSUME NEW c
  PROVE  /\ FirstDeciding(c) # 1 => c.ladder # {}
         /\ FirstDeciding(c) \notin {1, 2} => ~Vetoed(c)
<1>1. Decides("no_currents", c) <=> c.ladder = {}
  BY DEF Decides
<1>2. Decides("external_charge_blocked", c) <=> ~c.external
  BY DEF Decides
<1>3. FirstDeciding(c) # 1 => ~Decides("no_currents", c)
  BY FirstDecidingExists, TheOrder
<1>4. FirstDeciding(c) \notin {1, 2} => ~Decides("external_charge_blocked", c)
  BY FirstDecidingExists, TheOrder
<1>5. QED
  BY <1>1, <1>2, <1>3, <1>4, Zenon DEF Vetoed

\* The verdict of one evaluation: it stays on the narrowed ladder, it does not jump up,
\* and under a veto it neither sets a current nor starts a charge (evaluate).
LEMMA VerdictSound ==
  ASSUME NEW c, IsContext(c), NEW t \in TimerState
  PROVE  /\ IsVerdict(Evaluate(c, t), c)
         /\ IsGentle(Evaluate(c, t), c)
         /\ Vetoed(c) => Evaluate(c, t).action \in {"IDLE", "STOP"}
<1> DEFINE i == FirstDeciding(c)
           v == Evaluate(c, t)
           Sound(w) == /\ IsVerdict(w, c)
                       /\ IsGentle(w, c)
                       /\ Vetoed(c) => w.action \in {"IDLE", "STOP"}
<1>1. v = Answer(Gates[i], c, t)
  BY DEF Evaluate, DecidedBy
<1>2. i \in 1..12 /\ Decides(Gates[i], c)
  BY FirstDecidingExists
<1>3. (i # 1 => c.ladder # {}) /\ (i \notin {1, 2} => ~Vetoed(c))
  BY VetoesComeFirst
<1> HIDE DEF i
<1>4. CASE i = 1
  <2>1. v = NoCurrents(c, t)
    BY <1>1, <1>4, TheOrder, TheAnswers
  <2>2. QED
    BY <2>1 DEF NoCurrents, Stop, Idle, Say, Actions, IsVerdict, IsGentle
<1>5. CASE i = 2
  <2>1. v = Stop(t)
    BY <1>1, <1>5, TheOrder, TheAnswers DEF ExternalChargeBlocked
  <2>2. QED
    BY <2>1 DEF Stop, Say, Actions, IsVerdict, IsGentle
<1>6. CASE i = 3
  <2>1. v = ForceCharge(c, t)
    BY <1>1, <1>6, TheOrder, TheAnswers
  <2>2. QED
    BY <1>3, <1>6, <2>1, ForceChargeSound DEF IsGentle
<1>7. CASE i = 4
  <2>1. v = SetTo(c.cap, [t EXCEPT !.reduce = 0])
    BY <1>1, <1>7, TheOrder, TheAnswers DEF ProtectionReduce
  <2>2. c.cap # None /\ c.current # None /\ c.current > c.cap
    BY <1>2, <1>7, TheOrder DEF Decides
  <2>3. c.cap \in c.ladder /\ c.ladder \subseteq Nat
    BY <1>3, <1>7, <2>2, LadderEnds DEF IsContext
  <2>4. c.current \in Nat
    BY <2>2 DEF IsContext
  <2>5. IsVerdict(v, c)
    <3> DEFINE reduced == [t EXCEPT !.reduce = 0]
    <3>1. reduced \in TimerState
      BY TimersStayInRange
    <3>2. v = SetTo(c.cap, reduced)
      BY <2>1
    <3> HIDE DEF reduced
    <3>3. QED
      BY <2>3, <3>1, <3>2 DEF SetTo, Say, Actions, IsVerdict
  <2>6. IsGentle(v, c)
    <3>1. v.target = c.cap
      BY <2>1 DEF SetTo, Say
    <3>2. ~\E a \in c.ladder : c.current < a /\ a < c.cap
      BY <2>2, <2>3, <2>4
    <3>3. QED
      BY <3>1, <3>2 DEF IsGentle
  <2>7. QED
    BY <1>3, <1>7, <2>5, <2>6
<1>8. CASE i = 5
  <2>1. v = Stop(t) \/ v = StartAt(None, t)
    BY <1>1, <1>8, TheOrder, TheAnswers DEF Tariff
  <2>2. QED
    BY <1>3, <1>8, <2>1 DEF Stop, StartAt, Say, Actions, IsVerdict, IsGentle
<1>9. CASE i = 6
  <2>1. v = [Stop(t) EXCEPT !.ownOnly = TRUE]
    BY <1>1, <1>9, TheOrder, TheAnswers DEF Pause
  <2>2. QED
    BY <2>1 DEF Stop, Say, Actions, IsVerdict, IsGentle
<1>10. CASE i = 7 \/ i = 9
  <2>1. \/ v = StartAt(Min(c.ladder), NoCandidates(t))
        \/ v = ClimbToMax(c, NoCandidates(t), t.increase >= UpCooldown)
        \/ v = ClimbToMax(c, NoCandidates(t), TRUE)
    BY <1>1, <1>10, TheOrder, TheAnswers DEF CapOnly, BatteryFloorTariffFallback
  <2>2. c.ladder # {} /\ ~Vetoed(c)
    BY <1>3, <1>10
  <2>3. CASE v = StartAt(Min(c.ladder), NoCandidates(t))
    <3>1. NoCandidates(t) \in TimerState /\ Min(c.ladder) \in c.ladder
      BY <2>2, LadderEnds, TimersStayInRange
    <3>2. QED
      BY <2>2, <2>3, <3>1 DEF StartAt, Say, Actions, IsVerdict, IsGentle
  <2>4. CASE \E cooled : v = ClimbToMax(c, NoCandidates(t), cooled)
    <3>1. NoCandidates(t) \in TimerState
      BY TimersStayInRange
    <3>2. QED
      BY <2>2, <2>4, <3>1, ClimbSound
  <2>5. QED
    BY <2>1, <2>3, <2>4
<1>11. CASE i = 8 \/ i = 10
  <2>1. v = Idle(t) \/ v = Idle(NoCandidates(t))
    BY <1>1, <1>11, TheOrder, TheAnswers DEF ModeDisabled, GridSensor
  <2>2. NoCandidates(t) \in TimerState
    BY TimersStayInRange
  <2>3. QED
    BY <2>1, <2>2 DEF Idle, Say, Actions, IsVerdict, IsGentle
<1>12. CASE i = 11
  <2>1. v = IF MustStop(c) THEN StopWhenDue(c, [t EXCEPT !.start = None])
            ELSE Regulate(c, NoCandidates(t))
    BY <1>1, <1>12, TheOrder, TheAnswers DEF Charging
  <2>2. NoCandidates(t) \in TimerState /\ [t EXCEPT !.start = None] \in TimerState
    BY TimersStayInRange
  <2>3. c.ladder # {} /\ ~Vetoed(c)
    BY <1>3, <1>12
  <2>4. CASE MustStop(c)
    BY <2>1, <2>2, <2>3, <2>4, StopSound DEF IsGentle
  <2>5. CASE ~MustStop(c)
    BY <2>1, <2>2, <2>3, <2>5, RegulateSound
  <2>6. QED
    BY <2>4, <2>5
<1>13. CASE i = 12
  <2>1. v = Start(c, t)
    BY <1>1, <1>13, TheOrder, TheAnswers
  <2>2. QED
    BY <1>3, <1>13, <2>1, StartSound DEF IsGentle
<1>14. QED
  BY <1>2, <1>4, <1>5, <1>6, <1>7, <1>8, <1>9, <1>10, <1>11, <1>12, <1>13

\* Over the cap, only a stop or a force charge comes before the reduction to it, so that
\* without one the charge either ends, whoever started it, or is set to the cap.
LEMMA OverCapIsCut ==
  ASSUME NEW c, NEW t, ~c.force, c.cap # None, c.current # None, c.current > c.cap
  PROVE  \/ Evaluate(c, t).action = "STOP" /\ ~Evaluate(c, t).ownOnly
         \/ Evaluate(c, t).action = "SET" /\ Evaluate(c, t).target = c.cap
<1> DEFINE i == FirstDeciding(c)
           v == Evaluate(c, t)
<1>1. v = Answer(Gates[i], c, t)
  BY DEF Evaluate, DecidedBy
<1>2. i \in 1..12 /\ Decides(Gates[i], c) /\ \A j \in 1..(i - 1) : ~Decides(Gates[j], c)
  BY FirstDecidingExists
<1>3. Decides(Gates[4], c)
  BY TheOrder DEF Decides
<1> HIDE DEF i
<1>4. i \in 1..4
  BY <1>2, <1>3
<1>5. CASE i = 1
  BY <1>1, <1>5, TheOrder, TheAnswers DEF NoCurrents, Stop, Say
<1>6. CASE i = 2
  BY <1>1, <1>6, TheOrder, TheAnswers DEF ExternalChargeBlocked, Stop, Say
<1>7. i # 3
  <2>1. Decides(Gates[3], c) <=> c.force
    BY TheOrder DEF Decides
  <2>2. QED BY <1>2, <2>1
<1>8. CASE i = 4
  BY <1>1, <1>8, TheOrder, TheAnswers DEF ProtectionReduce, SetTo, Say
<1>9. QED
  BY <1>4, <1>5, <1>6, <1>7, <1>8
=============================================================================
