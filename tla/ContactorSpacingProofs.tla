------------------------ MODULE ContactorSpacingProofs ------------------------
(***************************************************************************)
(* The spacing of the contactor's operations, for every delay, lock and    *)
(* ladder.  The spacing properties are not inductive by themselves: they   *)
(* follow from how old a candidate may be, CandidatesAreRecent, which      *)
(* needs the timers' types from the controller's own invariant.            *)
(***************************************************************************)
EXTENDS ContactorSpacing, SurplusControllerProofs

HInv == TypeOK /\ HistoryTypeOK /\ CandidatesAreRecent

-----------------------------------------------------------------------------
\* What one evaluation does to the candidates and to the restart lock (the gates of
\* charge_gates.py, one case each): only a surplus stop arms the lock, only _gate_start
\* starts a start candidate, and a regulated start leaves no stop candidate behind.
LEMMA TimersEffect ==
  ASSUME NEW c, NEW t \in TimerState, NEW v, v = Evaluate(c, t)
  PROVE  /\ FirstDeciding(c) = 11 /\ v.action = "STOP" /\ SurplusStop(c) =>
              v.timers.surplusStop = 0 /\ v.timers.start = None
         /\ ~(FirstDeciding(c) = 11 /\ v.action = "STOP" /\ SurplusStop(c)) =>
              v.timers.surplusStop = t.surplusStop
         /\ \/ v.timers.start \in {t.start, None}
            \/ v.timers.start = 0 /\ t.surplusStop = RestartLock
         /\ v.timers.stop \in {t.stop, None, 0}
         /\ FirstDeciding(c) \in {7, 9, 12} /\ v.action = "START" => v.timers.stop = None
<1> DEFINE i == FirstDeciding(c)
<1>1. v = Answer(Gates[i], c, t) /\ i \in 1..12
  BY FirstDecidingExists DEF Evaluate, DecidedBy
<1> HIDE DEF i
<1>2. /\ NoCandidates(t).start = None /\ NoCandidates(t).stop = None
      /\ NoCandidates(t).surplusStop = t.surplusStop
  BY DEF NoCandidates, TimerState
<1>3. CASE i \in {1, 2, 3, 5, 6, 8}
  <2>1. \A a, target : Say(a, target, t).timers = t
    BY DEF Say
  <2>2. /\ NoCurrents(c, t).timers = t /\ ExternalChargeBlocked(c, t).timers = t
        /\ Tariff(c, t).timers = t /\ ModeDisabled(c, t).timers = t
    BY <2>1 DEF NoCurrents, ExternalChargeBlocked, Tariff, ModeDisabled, Idle, Stop, StartAt
  <2>3. ForceCharge(c, t).timers = t
    BY <2>1, Zenon DEF ForceCharge
  <2>4. Pause(c, t).timers = t
    BY DEF Pause, Stop, Say
  <2>5. v.timers = t
    BY <1>1, <1>3, <2>2, <2>3, <2>4, TheOrder, TheAnswers
  <2>6. QED
    BY <1>3, <2>5 DEF i
<1>4. CASE i = 4
  <2>1. v.timers = [t EXCEPT !.reduce = 0]
    BY <1>1, <1>4, TheOrder, TheAnswers DEF ProtectionReduce, SetTo, Say
  <2>2. /\ v.timers.surplusStop = t.surplusStop
        /\ v.timers.start = t.start /\ v.timers.stop = t.stop
    BY <2>1 DEF TimerState
  <2>3. QED
    BY <1>4, <2>2 DEF i
<1>5. CASE i = 7 \/ i = 9
  <2>1. v.timers = NoCandidates(t)
    BY <1>1, <1>5, TheOrder, TheAnswers DEF CapOnly, BatteryFloorTariffFallback, ClimbToMax,
       Hold, SetTo, StartAt, Say
  <2>2. QED
    BY <1>2, <1>5, <2>1 DEF i
<1>6. CASE i = 10
  <2>1. v.timers \in {t, NoCandidates(t)}
    BY <1>1, <1>6, TheOrder, TheAnswers DEF GridSensor, Idle, Say
  <2>2. QED
    BY <1>2, <1>6, <2>1 DEF i
<1>7. CASE i = 11
  <2> DEFINE u == [t EXCEPT !.start = None]
  <2>1. v = IF MustStop(c) THEN StopWhenDue(c, u) ELSE Regulate(c, NoCandidates(t))
    BY <1>1, <1>7, TheOrder, TheAnswers DEF Charging
  <2>2. u.start = None /\ u.stop = t.stop /\ u.surplusStop = t.surplusStop /\ u \in TimerState
    BY DEF TimerState
  <2> HIDE DEF u
  <2>3. CASE MustStop(c)
    <3>1. CASE u.stop = None \/ u.stop < StopDelay
      <4>1. v.action = "HOLD" /\ v.timers \in {u, [u EXCEPT !.stop = 0]}
        BY <2>1, <2>3, <3>1 DEF StopWhenDue, Hold, Say
      <4>2. /\ v.timers.start = None /\ v.timers.surplusStop = u.surplusStop
            /\ v.timers.stop \in {u.stop, 0}
        BY <2>2, <4>1 DEF TimerState
      <4>3. QED
        BY <1>7, <2>2, <4>1, <4>2 DEF i
    <3>2. CASE ~(u.stop = None \/ u.stop < StopDelay)
      <4>1. /\ v.action = "STOP"
            /\ v.timers = [u EXCEPT !.stop = None,
                                    !.surplusStop = IF SurplusStop(c) THEN 0 ELSE @]
        BY <2>1, <2>3, <3>2 DEF StopWhenDue, Stop, Say
      <4>2. /\ v.timers.start = None /\ v.timers.stop = None
            /\ v.timers.surplusStop = IF SurplusStop(c) THEN 0 ELSE u.surplusStop
        BY <2>2, <4>1 DEF TimerState
      <4>3. QED
        BY <1>7, <2>2, <4>1, <4>2 DEF i
    <3>3. QED
      BY <3>1, <3>2
  <2>4. CASE ~MustStop(c)
    <3>1. v.action # "STOP" /\ v.timers = NoCandidates(t)
      BY <2>1, <2>4 DEF Regulate, Hold, SetTo, Say
    <3>2. QED
      BY <1>2, <1>7, <3>1 DEF i
  <2>5. QED
    BY <2>3, <2>4
<1>8. CASE i = 12
  <2>1. v = Start(c, t)
    BY <1>1, <1>8, TheOrder, TheAnswers
  <2>2. t.surplusStop \in 0..RestartLock /\ RestartLock \in Nat
    BY DelayAssumption DEF TimerState
  <2>3. CASE v.timers = NoCandidates(t)
    BY <1>2, <1>8, <2>3 DEF i
  <2>4. CASE /\ v.action = "IDLE" /\ ~(t.surplusStop < RestartLock)
             /\ v.timers = [t EXCEPT !.start = 0, !.stop = None]
    <3>1. /\ v.timers.start = 0 /\ v.timers.stop = None
          /\ v.timers.surplusStop = t.surplusStop
      BY <2>4 DEF TimerState
    <3>2. QED
      BY <1>8, <2>2, <2>4, <3>1 DEF i
  <2>5. CASE v.action = "IDLE" /\ v.timers = [t EXCEPT !.stop = None]
    <3>1. /\ v.timers.start = t.start /\ v.timers.stop = None
          /\ v.timers.surplusStop = t.surplusStop
      BY <2>5 DEF TimerState
    <3>2. QED
      BY <1>8, <2>5, <3>1 DEF i
  <2>6. QED
    BY <2>1, <2>3, <2>4, <2>5 DEF Start, Idle, StartAt, Say
<1>9. QED
  BY <1>1, <1>3, <1>4, <1>5, <1>6, <1>7, <1>8

-----------------------------------------------------------------------------
\* The history variables only watch: every behaviour of HistorySpec is one of Spec, so
\* what is proved of the controller holds here as well.
LEMMA HistoryOnlyWatches == HistorySpec => Spec
<1>1. HistoryInit => Init
  BY DEF HistoryInit
<1>2. [HistoryNext]_allVars => [Next]_vars
  BY DEF HistoryNext, allVars, vars, Next
<1>3. QED
  BY <1>1, <1>2, PTL DEF HistorySpec, Spec

\* The decisions the history records, by the index of the gate that took them.
LEMMA WhoDecides ==
  /\ DecidedBy(GateContext) = "charging" <=> FirstDeciding(GateContext) = 11
  /\ DecidedBy(GateContext) = "start" <=> FirstDeciding(GateContext) = 12
  /\ DecidedBy(GateContext) \in {"start", "cap_only", "battery_floor_tariff_fallback"} <=>
       FirstDeciding(GateContext) \in {7, 9, 12}
BY FirstDecidingExists, TheOrder DEF DecidedBy

\* The writes stamp the two adjustment timers and no other.
LEMMA WritesKeepCandidates ==
  ASSUME TypeOK, Writes
  PROVE  /\ timers'.start = timers.start /\ timers'.stop = timers.stop
         /\ timers'.surplusStop = timers.surplusStop
<1>1. timers \in TimerState
  BY DEF TypeOK
<1>2. ASSUME NEW t \in TimerState
      PROVE  /\ StampIncrease(t).start = t.start /\ StampIncrease(t).stop = t.stop
             /\ StampIncrease(t).surplusStop = t.surplusStop
             /\ StampDecrease(t).start = t.start /\ StampDecrease(t).stop = t.stop
             /\ StampDecrease(t).surplusStop = t.surplusStop
  BY DEF StampIncrease, StampDecrease, TimerState
<1>3. /\ StampDecrease(StampIncrease(timers)).start = timers.start
      /\ StampDecrease(StampIncrease(timers)).stop = timers.stop
      /\ StampDecrease(StampIncrease(timers)).surplusStop = timers.surplusStop
  BY <1>1 DEF StampIncrease, StampDecrease, TimerState
<1>4. timers' \in {timers, StampIncrease(timers), StampDecrease(timers),
                  StampDecrease(StampIncrease(timers))}
  BY DEF Writes, WriteSetpoint, WriteEnable, WriteDisable, StampAdjustment
<1>5. QED
  BY <1>1, <1>2, <1>3, <1>4

LEMMA AroundKeepsCandidates ==
  ASSUME TypeOK, Around
  PROVE  /\ timers'.start = timers.start /\ timers'.stop = timers.stop
         /\ timers'.surplusStop = timers.surplusStop
<1>1. CASE Writes
  BY <1>1, WritesKeepCandidates
<1>2. CASE ~Writes
  <2>1. timers' = timers
    BY <1>2 DEF Around, Refreshed, CoordinatorUpdate, SensorUpdate, ApplySettings,
       ForceChargeFor, PauseFor, ChargeToggledOutside, SetpointChangedOutside, Shutdown
  <2>2. QED
    BY <2>1
<1>3. QED
  BY <1>1, <1>2

-----------------------------------------------------------------------------
LEMMA RestType == Rest \in Nat /\ RestartLock \in Nat /\ StartDelay \in Nat /\ StopDelay \in Nat
BY DelayAssumption DEF Rest

LEMMA HistoryStarts == HistoryInit => HistoryTypeOK /\ CandidatesAreRecent
<1> SUFFICES ASSUME HistoryInit PROVE HistoryTypeOK /\ CandidatesAreRecent
  OBVIOUS
<1>1. /\ timers.start = None /\ timers.stop = None /\ timers.surplusStop = RestartLock
      /\ sinceStop = Rest /\ sinceStart = StopDelay
  BY DEF HistoryInit, Init, FreshTimers
<1>2. QED
  BY <1>1, RestType DEF HistoryTypeOK, CandidatesAreRecent, Rest

\* An evaluation resets a history variable exactly when it clears what is measured by it.
LEMMA EvaluationKeepsRecent ==
  ASSUME HInv, EvaluateOnce,
         sinceStop' = IF DecidesSurplusStop THEN 0 ELSE sinceStop,
         sinceStart' = IF DecidesRegulatedStart THEN 0 ELSE sinceStart
  PROVE  HistoryTypeOK' /\ CandidatesAreRecent'
<1> DEFINE v == Evaluate(GateContext, timers)
<1>1. timers \in TimerState /\ timers' = v.timers /\ pc = "ready"
  BY DEF HInv, TypeOK, EvaluateOnce
<1>2. /\ DecidesSurplusStop => v.timers.surplusStop = 0 /\ v.timers.start = None
      /\ ~DecidesSurplusStop => v.timers.surplusStop = timers.surplusStop
      /\ \/ v.timers.start \in {timers.start, None}
         \/ v.timers.start = 0 /\ timers.surplusStop = RestartLock
      /\ v.timers.stop \in {timers.stop, None, 0}
      /\ DecidesRegulatedStart => v.timers.stop = None
  BY <1>1, TimersEffect, WhoDecides DEF DecidesSurplusStop, DecidesRegulatedStart, Verdict
<1> HIDE DEF v
<1>3. HistoryTypeOK'
  BY RestType DEF HInv, HistoryTypeOK
<1>4. CASE DecidesSurplusStop
  BY <1>1, <1>2, <1>4, RestType DEF HInv, HistoryTypeOK, CandidatesAreRecent
<1>5. CASE ~DecidesSurplusStop
  BY <1>1, <1>2, <1>5, RestType, NoneAssumption DEF HInv, HistoryTypeOK, CandidatesAreRecent
<1>6. QED
  BY <1>3, <1>4, <1>5

\* Time passes over the timers and the history alike.
LEMMA TickKeepsRecent ==
  ASSUME HInv, Tick,
         sinceStop' = Older(sinceStop, Rest),
         sinceStart' = Older(sinceStart, StopDelay)
  PROVE  HistoryTypeOK' /\ CandidatesAreRecent'
<1>1. /\ timers'.start = Older(timers.start, StartDelay)
      /\ timers'.stop = Older(timers.stop, StopDelay)
      /\ timers'.surplusStop = Older(timers.surplusStop, RestartLock)
  BY DEF Tick, Aged
<1>2. /\ timers.start \in (0..StartDelay) \union {None}
      /\ timers.stop \in (0..StopDelay) \union {None}
      /\ timers.surplusStop \in 0..RestartLock
      /\ sinceStop \in 0..Rest /\ sinceStart \in 0..StopDelay
  BY DEF HInv, TypeOK, TimerState, HistoryTypeOK
<1>3. /\ sinceStop' = IF sinceStop >= Rest THEN sinceStop ELSE sinceStop + 1
      /\ sinceStart' = IF sinceStart >= StopDelay THEN sinceStart ELSE sinceStart + 1
      /\ timers'.surplusStop = IF timers.surplusStop >= RestartLock THEN timers.surplusStop
                               ELSE timers.surplusStop + 1
  BY <1>1, <1>2, RestType, NoneAssumption DEF Older
<1>4. HistoryTypeOK'
  BY <1>2, <1>3, RestType DEF HistoryTypeOK
<1>5. timers'.surplusStop < RestartLock =>
        sinceStop' = timers'.surplusStop /\ timers'.start = None
  <2>1. SUFFICES ASSUME timers'.surplusStop < RestartLock
                 PROVE  sinceStop' = timers'.surplusStop /\ timers'.start = None
    OBVIOUS
  <2>2. timers.surplusStop < RestartLock /\ timers'.surplusStop = timers.surplusStop + 1
    BY <1>2, <1>3, <2>1, RestType
  <2>3. sinceStop = timers.surplusStop /\ timers.start = None
    BY <2>2 DEF HInv, CandidatesAreRecent
  <2>4. timers'.start = None
    BY <1>1, <2>3 DEF Older
  <2>5. QED
    BY <1>2, <1>3, <2>2, <2>3, <2>4, RestType DEF Rest
<1>6. timers'.surplusStop = RestartLock => sinceStop' >= RestartLock
  BY <1>2, <1>3, RestType DEF HInv, CandidatesAreRecent, Rest
<1>7. timers'.start # None => sinceStop' >= RestartLock + timers'.start
  <2>1. SUFFICES ASSUME timers'.start # None
                 PROVE  sinceStop' >= RestartLock + timers'.start
    OBVIOUS
  <2>2. timers.start \in 0..StartDelay
    BY <1>1, <1>2, <2>1 DEF Older
  <2>3. sinceStop >= RestartLock + timers.start
    BY <2>2, NoneAssumption DEF HInv, CandidatesAreRecent
  <2>4. timers'.start = IF timers.start >= StartDelay THEN timers.start ELSE timers.start + 1
    BY <1>1, <2>2, RestType, NoneAssumption DEF Older
  <2>5. QED
    BY <1>2, <1>3, <2>2, <2>3, <2>4, RestType DEF Rest
<1>8. timers'.stop # None => sinceStart' >= timers'.stop
  <2>1. SUFFICES ASSUME timers'.stop # None
                 PROVE  sinceStart' >= timers'.stop
    OBVIOUS
  <2>2. timers.stop \in 0..StopDelay
    BY <1>1, <1>2, <2>1 DEF Older
  <2>3. sinceStart >= timers.stop
    BY <2>2, NoneAssumption DEF HInv, CandidatesAreRecent
  <2>4. timers'.stop = IF timers.stop >= StopDelay THEN timers.stop ELSE timers.stop + 1
    BY <1>1, <2>2, RestType, NoneAssumption DEF Older
  <2>5. QED
    BY <1>2, <1>3, <2>2, <2>3, <2>4, RestType
<1>9. QED
  BY <1>4, <1>5, <1>6, <1>7, <1>8 DEF CandidatesAreRecent

LEMMA HistoryKeepsRecent ==
  ASSUME HInv, [HistoryNext]_allVars
  PROVE  HistoryTypeOK' /\ CandidatesAreRecent'
<1>1. CASE /\ EvaluateOnce
           /\ sinceStop' = IF DecidesSurplusStop THEN 0 ELSE sinceStop
           /\ sinceStart' = IF DecidesRegulatedStart THEN 0 ELSE sinceStart
  BY <1>1, EvaluationKeepsRecent
<1>2. CASE /\ Tick
           /\ sinceStop' = Older(sinceStop, Rest)
           /\ sinceStart' = Older(sinceStart, StopDelay)
  BY <1>2, TickKeepsRecent
<1>3. CASE Around /\ UNCHANGED historyVars
  <2>1. /\ timers'.start = timers.start /\ timers'.stop = timers.stop
        /\ timers'.surplusStop = timers.surplusStop
    BY <1>3, AroundKeepsCandidates DEF HInv
  <2>2. QED
    BY <1>3, <2>1 DEF HInv, HistoryTypeOK, CandidatesAreRecent, historyVars
<1>4. CASE UNCHANGED allVars
  BY <1>4 DEF HInv, HistoryTypeOK, CandidatesAreRecent, allVars, vars
<1>5. QED
  BY <1>1, <1>2, <1>3, <1>4 DEF HistoryNext

LEMMA SpecHInv == HistorySpec => []HInv
<1>1. HistorySpec => []TypeOK
  BY HistoryOnlyWatches, TypeCorrect, PTL
<1>2. HistoryInit => HistoryTypeOK /\ CandidatesAreRecent
  BY HistoryStarts
<1>3. /\ TypeOK /\ HistoryTypeOK /\ CandidatesAreRecent
      /\ [HistoryNext]_allVars
      => (HistoryTypeOK /\ CandidatesAreRecent)'
  BY HistoryKeepsRecent DEF HInv
<1>4. TypeOK /\ HistoryTypeOK /\ CandidatesAreRecent => HInv
  BY DEF HInv
<1>5. QED
  BY <1>1, <1>2, <1>3, <1>4, PTL DEF HistorySpec

-----------------------------------------------------------------------------
\* A start candidate never predates the end of the restart lock, and a stop candidate
\* never predates the start of the charge it would stop.
THEOREM CandidatesStayRecent == HistorySpec => []CandidatesAreRecent
<1>1. HInv => CandidatesAreRecent
  BY DEF HInv
<1>2. QED
  BY <1>1, SpecHInv, PTL

\* For every lock and start delay: surplus regulation lets the charger rest for the lock
\* and then for the whole delay (#75), however the modes and requests interleave.
THEOREM RestIsServed == HistorySpec => []RestsBeforeSurplusStart
<1>1. HInv => RestsBeforeSurplusStart
  <2>1. SUFFICES ASSUME HInv, DecidesSurplusStart PROVE sinceStop = Rest
    BY DEF RestsBeforeSurplusStart
  <2> DEFINE v == Evaluate(GateContext, timers)
  <2>2. v = Start(GateContext, timers) /\ v.action = "START"
    BY <2>1, TheAnswers DEF DecidesSurplusStart, Verdict, Evaluate
  <2>3. timers.start # None /\ ~(timers.start < StartDelay)
    BY <2>2 DEF Start, Idle, Say
  <2>4. timers.start = StartDelay
    BY <2>1, <2>3, RestType DEF HInv, TypeOK, TimerState
  <2>5. sinceStop >= Rest /\ sinceStop \in 0..Rest
    BY <2>1, <2>3, <2>4 DEF HInv, HistoryTypeOK, CandidatesAreRecent, Rest
  <2>6. QED
    BY <2>5, RestType
<1>2. QED
  BY <1>1, SpecHInv, PTL

\* For every stop delay: a charge that regulation started runs for the whole delay before
\* regulation stops it for lack of surplus.
THEOREM RunIsServed == HistorySpec => []RunsBeforeSurplusStop
<1>1. HInv => RunsBeforeSurplusStop
  <2>1. SUFFICES ASSUME HInv, DecidesSurplusStop PROVE sinceStart = StopDelay
    BY DEF RunsBeforeSurplusStop
  <2> DEFINE v == Evaluate(GateContext, timers)
             u == [timers EXCEPT !.start = None]
  <2>2. v = Charging(GateContext, timers) /\ v.action = "STOP"
    BY <2>1, TheAnswers DEF DecidesSurplusStop, Verdict, Evaluate
  <2>3. v = StopWhenDue(GateContext, u)
    BY <2>1, <2>2 DEF Charging, DecidesSurplusStop, MustStop
  <2>4. u.stop = timers.stop
    BY <2>1 DEF HInv, TypeOK, TimerState
  <2>5. timers.stop # None /\ ~(timers.stop < StopDelay)
    BY <2>2, <2>3, <2>4 DEF StopWhenDue, Hold, Say
  <2>6. timers.stop = StopDelay
    BY <2>1, <2>5, RestType DEF HInv, TypeOK, TimerState
  <2>7. sinceStart >= StopDelay /\ sinceStart \in 0..StopDelay
    BY <2>1, <2>5, <2>6 DEF HInv, HistoryTypeOK, CandidatesAreRecent
  <2>8. QED
    BY <2>7, RestType
<1>2. QED
  BY <1>1, SpecHInv, PTL
=============================================================================
