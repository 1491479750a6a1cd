------------------------ MODULE SurplusControllerProofs ------------------------
(***************************************************************************)
(* The safety of SurplusController for every ladder, every set of sensor   *)
(* readings and options, and every delay.  The inductive invariant is the  *)
(* conjunction of the three invariants TLC checks: a setpoint being        *)
(* written has to be on the ladder for the charger's own state to stay     *)
(* within its type.  And the scheduling of its evaluations, for which the  *)
(* types and the shutdown are enough.                                      *)
(***************************************************************************)
EXTENDS SchedulerRefinement, ChargeGatesProofs

IInv == TypeOK /\ SetpointWithinCap /\ RampIsGentle

-----------------------------------------------------------------------------
LEMMA AgeLimitType ==
  AgeLimit \in Nat /\ AgeLimit >= UpCooldown /\ AgeLimit >= DownCooldown
<1>1. UpCooldown \in Nat /\ DownCooldown \in Nat
  BY DelayAssumption
<1>2. \E x \in {UpCooldown, DownCooldown} : \A y \in {UpCooldown, DownCooldown} : x >= y
  BY <1>1
<1>3. /\ AgeLimit \in {UpCooldown, DownCooldown}
      /\ \A y \in {UpCooldown, DownCooldown} : AgeLimit >= y
  BY <1>2, Zenon DEF AgeLimit, Max
<1>4. QED
  BY <1>1, <1>3

LEMMA SetpointsType == Ladder \subseteq Nat /\ Setpoints \subseteq Nat
BY LadderAssumption, AppCurrentsAssumption DEF Setpoints

\* Narrowing the ladder by a cap leaves the cap on it, or nothing at all.
LEMMA NarrowedLadder ==
  ASSUME NEW cap \in Caps
  PROVE  /\ AvailableCurrents(cap) \subseteq Ladder
         /\ cap \in AvailableCurrents(cap) \union {0, None}
         /\ cap = 0 => AvailableCurrents(cap) = {}
<1>1. AvailableCurrents(cap) \subseteq Ladder
  BY DEF AvailableCurrents
<1>2. CASE cap \in Ladder
  <2>1. cap \in Nat \ {0} /\ cap <= cap
    BY <1>2, LadderAssumption
  <2>2. cap \in AvailableCurrents(cap)
    BY <1>2, <2>1 DEF AvailableCurrents
  <2>3. QED
    BY <1>1, <2>1, <2>2
<1>3. CASE cap = 0
  <2>1. ASSUME NEW a \in Ladder PROVE ~(cap = None \/ a <= cap)
    <3>1. a \in Int /\ a >= 1
      BY LadderAssumption
    <3>2. 0 # None
      BY NoneAssumption
    <3>3. QED
      BY <1>3, <3>1, <3>2
  <2>2. QED
    BY <1>1, <1>3, <2>1 DEF AvailableCurrents
<1>4. CASE cap = None
  <2>1. 0 # None
    BY NoneAssumption
  <2>2. QED
    BY <1>1, <1>4, <2>1
<1>5. QED
  BY <1>2, <1>3, <1>4 DEF Caps

\* The context the controller builds is one the gate lemmas speak of: the cap that
\* narrowed the ladder is itself on the narrowed ladder (_build_gate_context).
LEMMA ContextOK ==
  ASSUME TypeOK
  PROVE  /\ IsContext(GateContext) /\ GateContext.ladder = AvailableCurrents(reading.cap)
         /\ reading.cap = 0 => GateContext.ladder = {}
<1>1. /\ GateContext.ladder = AvailableCurrents(reading.cap)
      /\ GateContext.cap = reading.cap
      /\ GateContext.current = data.setpoint
      /\ GateContext.forceCurrent = force.current
  BY DEF GateContext
<1>2. AvailableCurrents(reading.cap) \subseteq 1..MaxCurrent /\ MaxCurrent \in Nat
  BY LadderAssumption DEF AvailableCurrents
<1>3. reading.cap \in Caps
  BY InputAssumption DEF TypeOK, ReadingType
<1>4. /\ reading.cap \in AvailableCurrents(reading.cap) \union {0, None}
      /\ reading.cap = 0 => AvailableCurrents(reading.cap) = {}
  BY <1>3, NarrowedLadder
<1>5. data.setpoint \in Nat \union {None} /\ force.current \in Nat \union {None}
  BY SetpointsType DEF TypeOK, DataType, ForceType
<1>6. QED
  BY <1>1, <1>2, <1>4, <1>5 DEF IsContext

\* The verdict the controller applies, in the terms of its own state.
LEMMA VerdictOK ==
  ASSUME TypeOK, NEW v, v = Evaluate(GateContext, timers)
  PROVE  /\ v.action \in Actions
         /\ v.target \in AvailableCurrents(reading.cap) \union {None}
         /\ v.action \in {"SET", "FORCE"} => v.target \in AvailableCurrents(reading.cap)
         /\ v.timers \in TimerState
         /\ v.action = "SET" /\ data.setpoint \in AvailableCurrents(reading.cap) =>
              ~\E a \in AvailableCurrents(reading.cap) : data.setpoint < a /\ a < v.target
         /\ ~reading.external \/ reading.cap = 0 => v.action \in {"IDLE", "STOP"}
<1>1. timers \in TimerState
  BY DEF TypeOK
<1>2. /\ IsVerdict(v, GateContext)
      /\ IsGentle(v, GateContext)
      /\ Vetoed(GateContext) => v.action \in {"IDLE", "STOP"}
  BY <1>1, ContextOK, VerdictSound
<1>3. ~reading.external \/ reading.cap = 0 => Vetoed(GateContext)
  <2>1. GateContext.external = reading.external /\ GateContext.cap = reading.cap
    BY DEF GateContext
  <2>2. QED
    BY <2>1, ContextOK DEF Vetoed
<1>4. GateContext.current = data.setpoint
  BY DEF GateContext
<1>5. QED
  BY <1>2, <1>3, <1>4, ContextOK DEF IsVerdict, IsGentle

\* Where applying a verdict begins.
LEMMA FirstStepOK ==
  ASSUME NEW v, v.action \in Actions
  PROVE  /\ FirstStep(v) \in {"set", "enable", "disable", "done"}
         /\ FirstStep(v) = "set" => /\ v.action \in {"SET", "START", "FORCE"}
                                    /\ v.action # "SET" => v.target # None
         /\ FirstStep(v) = "enable" => v.action \in {"START", "FORCE"}
         /\ FirstStep(v) = "disable" => v.action = "STOP"
BY DEF FirstStep, Actions

-----------------------------------------------------------------------------
\* How the pieces of an action keep the task's part of the state in its type.

LEMMA ScheduleKeepsTask ==
  ASSUME TypeOK, ScheduleEvaluation
  PROVE  /\ rerun' \in BOOLEAN
         /\ \/ pc' = pc
            \/ pc = "idle" /\ pc' = "ready"
BY DEF TypeOK, ScheduleEvaluation

\* A schedule, or no change at all: the job stays what the task needs, and what is being
\* written with it.
LEMMA TaskUndisturbed ==
  ASSUME IInv, job' = job,
         \/ pc' = pc
         \/ pc = "idle" /\ pc' = "ready"
  PROVE  /\ pc' \in {"idle", "ready"} \union Steps
         /\ IF pc' \in Steps THEN job' \in JobType ELSE job' = None
         /\ SetpointWithinCap'
         /\ RampIsGentle'
BY DEF IInv, TypeOK, Steps, SetpointWithinCap, RampIsGentle, AvailableCurrents

LEMMA TaskEnds ==
  ASSUME NEW asked \in BOOLEAN, EvaluationEnds(asked)
  PROVE  /\ pc' \in {"idle", "ready"} /\ job' = None /\ rerun' \in BOOLEAN
         /\ SetpointWithinCap' /\ RampIsGentle'
BY DEF EvaluationEnds, SetpointWithinCap, RampIsGentle

\* The next await of the same evaluation: no more setpoint to write.
LEMMA TaskGoesOn ==
  ASSUME IInv, pc \in Steps, pc' \in Steps \ {"set"}, job' = job
  PROVE  /\ job' \in JobType
         /\ SetpointWithinCap' /\ RampIsGentle'
BY DEF IInv, TypeOK, Steps, SetpointWithinCap, RampIsGentle

LEMMA StampsInRange ==
  ASSUME TypeOK, pc \in Steps
  PROVE  /\ StampAdjustment \in TimerState
         /\ StampDecrease(StampIncrease(timers)) \in TimerState
<1>1. job.age \in Nat
  BY AgeLimitType DEF TypeOK, JobType
<1>2. StampedAgo(job.age, UpCooldown) \in 0..UpCooldown
  BY <1>1, DelayAssumption DEF StampedAgo
<1>3. StampedAgo(job.age, DownCooldown) \in 0..DownCooldown
  BY <1>1, DelayAssumption DEF StampedAgo
<1>4. timers \in TimerState
  BY DEF TypeOK
<1>5. ASSUME NEW t \in TimerState
      PROVE  StampIncrease(t) \in TimerState /\ StampDecrease(t) \in TimerState
  BY <1>2, <1>3 DEF StampIncrease, StampDecrease, TimerState
<1>6. QED
  BY <1>4, <1>5 DEF StampAdjustment

\* The charger's setpoint is one it can report.
LEMMA WrittenSetpoint ==
  ASSUME IInv, pc = "set"
  PROVE  job \in JobType /\ job.target \in Ladder /\ job.target \in Setpoints
<1>1. job \in JobType
  BY DEF IInv, TypeOK, Steps
<1>2. job.target \in AvailableCurrents(job.cap)
  BY DEF IInv, SetpointWithinCap
<1>3. QED
  BY <1>1, <1>2 DEF AvailableCurrents, Setpoints

-----------------------------------------------------------------------------
LEMMA InitIInv == Init => IInv
<1> SUFFICES ASSUME Init PROVE IInv
  OBVIOUS
<1>1. FreshTimers \in TimerState
  BY DelayAssumption DEF FreshTimers, TimerState
<1>2. data \in DataType
  BY DEF Init, ChargerType, DataType
<1>3. force \in ForceType /\ pause \in Nat
  BY DEF Init, ForceType
<1>4. TypeOK
  BY <1>1, <1>2, <1>3 DEF Init, TypeOK, Steps
<1>5. SetpointWithinCap /\ RampIsGentle
  BY DEF Init, SetpointWithinCap, RampIsGentle
<1>6. QED
  BY <1>4, <1>5 DEF IInv

\* An evaluation: what it sets out to write is on the narrowed ladder.
LEMMA EvaluateOnceIInv ==
  ASSUME IInv, EvaluateOnce
  PROVE  IInv'
<1> DEFINE v == Evaluate(GateContext, timers)
           step == FirstStep(v)
<1>1. TypeOK
  BY DEF IInv
<1>2. /\ v.action \in Actions
      /\ v.target \in AvailableCurrents(reading.cap) \union {None}
      /\ v.action \in {"SET", "FORCE"} => v.target \in AvailableCurrents(reading.cap)
      /\ v.timers \in TimerState
      /\ v.action = "SET" /\ data.setpoint \in AvailableCurrents(reading.cap) =>
           ~\E a \in AvailableCurrents(reading.cap) : data.setpoint < a /\ a < v.target
  BY <1>1, VerdictOK
<1>3. /\ step \in {"set", "enable", "disable", "done"}
      /\ step = "set" => /\ v.action \in {"SET", "START", "FORCE"}
                         /\ v.action # "SET" => v.target # None
      /\ step = "enable" => v.action \in {"START", "FORCE"}
      /\ step = "disable" => v.action = "STOP"
  BY <1>2, FirstStepOK
<1>4. /\ timers' = v.timers
      /\ session' \in BOOLEAN
      /\ \/ step = "done" /\ EvaluationEnds(rerun)
         \/ /\ step # "done" /\ pc' = step /\ rerun' = rerun
            /\ job' = [action |-> v.action, target |-> v.target, cap |-> reading.cap,
                       data |-> data, age |-> 0]
      /\ UNCHANGED << charger, data, reading, settings, force, pause, shutdown >>
  BY <1>1 DEF EvaluateOnce, TypeOK
<1> HIDE DEF v, step
<1>5. CASE step = "done" /\ EvaluationEnds(rerun)
  <2>1. /\ pc' \in {"idle", "ready"} /\ job' = None /\ rerun' \in BOOLEAN
        /\ SetpointWithinCap' /\ RampIsGentle'
    BY <1>1, <1>5, TaskEnds DEF TypeOK
  <2>2. TypeOK'
    BY <1>1, <1>2, <1>4, <2>1 DEF TypeOK, Steps
  <2>3. QED
    BY <2>1, <2>2 DEF IInv
<1>6. CASE /\ step # "done" /\ pc' = step /\ rerun' = rerun
           /\ job' = [action |-> v.action, target |-> v.target, cap |-> reading.cap,
                      data |-> data, age |-> 0]
  <2>1. reading.cap \in Caps
    BY <1>1, InputAssumption DEF TypeOK, ReadingType
  <2>2. /\ v.action \in {"START", "STOP", "SET", "FORCE"}
        /\ v.target \in Ladder \union {None}
        /\ data \in DataType
        /\ 0 \in 0..AgeLimit
    BY <1>1, <1>2, <1>3, <1>6, <2>1, NarrowedLadder, AgeLimitType DEF TypeOK
  <2>3. job' \in JobType
    BY <1>6, <2>1, <2>2 DEF JobType
  <2>4. TypeOK'
    BY <1>1, <1>2, <1>3, <1>4, <1>6, <2>3 DEF TypeOK, Steps
  <2>5. SetpointWithinCap'
    BY <1>2, <1>3, <1>6 DEF SetpointWithinCap, AvailableCurrents
  <2>6. RampIsGentle'
    BY <1>2, <1>6 DEF RampIsGentle, AvailableCurrents
  <2>7. QED
    BY <2>4, <2>5, <2>6 DEF IInv
<1>7. QED
  BY <1>4, <1>5, <1>6

\* The writes: what reaches the charger was on the ladder when it was decided.
LEMMA WritesIInv ==
  ASSUME IInv, Writes
  PROVE  IInv'
<1>1. TypeOK
  BY DEF IInv
<1>2. rerun \in BOOLEAN
  BY <1>1 DEF TypeOK
<1>3. ASSUME NEW applied \in BOOLEAN, NEW ok \in BOOLEAN, WriteSetpoint(applied, ok)
      PROVE  IInv'
  <2>1. pc = "set" /\ job.target \in Setpoints /\ charger \in ChargerType
    BY <1>1, <1>3, WrittenSetpoint DEF WriteSetpoint, TypeOK
  <2>2. charger' \in ChargerType
    BY <1>3, <2>1 DEF WriteSetpoint, ChargerType
  <2>3. CASE EvaluationEnds(rerun) /\ UNCHANGED timers
    <3>1. /\ pc' \in {"idle", "ready"} /\ job' = None /\ rerun' \in BOOLEAN
          /\ SetpointWithinCap' /\ RampIsGentle'
      BY <1>2, <2>3, TaskEnds
    <3>2. TypeOK'
      BY <1>1, <1>3, <2>2, <2>3, <3>1 DEF TypeOK, WriteSetpoint, Steps
    <3>3. QED
      BY <3>1, <3>2 DEF IInv
  <2>4. CASE /\ pc' \in {"enable", "setRefresh"}
             /\ timers' \in {timers, StampAdjustment}
             /\ UNCHANGED << job, rerun >>
    <3>1. job' \in JobType /\ SetpointWithinCap' /\ RampIsGentle'
      BY <2>1, <2>4, TaskGoesOn DEF Steps
    <3>2. timers' \in TimerState
      BY <1>1, <2>1, <2>4, StampsInRange DEF TypeOK, Steps
    <3>3. TypeOK'
      BY <1>1, <1>3, <2>2, <2>4, <3>1, <3>2 DEF TypeOK, WriteSetpoint, Steps
    <3>4. QED
      BY <3>1, <3>3 DEF IInv
  <2>5. QED
    BY <1>3, <2>3, <2>4 DEF WriteSetpoint
<1>4. ASSUME NEW applied \in BOOLEAN, NEW ok \in BOOLEAN,
             WriteEnable(applied, ok) \/ WriteDisable(applied, ok)
      PROVE  IInv'
  <2>1. pc \in {"enable", "disable"} /\ charger \in ChargerType
    BY <1>1, <1>4 DEF WriteEnable, WriteDisable, TypeOK
  <2>2. charger' \in ChargerType
    BY <1>4, <2>1 DEF WriteEnable, WriteDisable, ChargerType
  <2>3. CASE EvaluationEnds(rerun) /\ UNCHANGED << timers, session >>
    <3>1. /\ pc' \in {"idle", "ready"} /\ job' = None /\ rerun' \in BOOLEAN
          /\ SetpointWithinCap' /\ RampIsGentle'
      BY <1>2, <2>3, TaskEnds
    <3>2. TypeOK'
      BY <1>1, <1>4, <2>2, <2>3, <3>1 DEF TypeOK, WriteEnable, WriteDisable, Steps
    <3>3. QED
      BY <3>1, <3>2 DEF IInv
  <2>4. CASE /\ pc' = "refresh"
             /\ timers' \in {timers, StampDecrease(StampIncrease(timers))}
             /\ session' \in BOOLEAN
             /\ UNCHANGED << job, rerun >>
    <3>1. job' \in JobType /\ SetpointWithinCap' /\ RampIsGentle'
      BY <2>1, <2>4, TaskGoesOn DEF Steps
    <3>2. timers' \in TimerState
      BY <1>1, <2>1, <2>4, StampsInRange DEF TypeOK, Steps
    <3>3. TypeOK'
      BY <1>1, <1>4, <2>2, <2>4, <3>1, <3>2 DEF TypeOK, WriteEnable, WriteDisable, Steps
    <3>4. QED
      BY <3>1, <3>3 DEF IInv
  <2>5. QED
    BY <1>4, <2>3, <2>4 DEF WriteEnable, WriteDisable
<1>5. QED
  BY <1>3, <1>4 DEF Writes

\* What a poll brings is what the charger has, or no setpoint.
LEMMA PollType ==
  ASSUME TypeOK, NEW reply \in PollReplies
  PROVE  reply \in DataType
BY DEF TypeOK, PollReplies, ChargerType, DataType

LEMMA RefreshedIInv ==
  ASSUME IInv, NEW outcome \in Outcomes, Refreshed(outcome)
  PROVE  IInv'
<1>1. TypeOK /\ pc \in Steps
  BY DEF IInv, Refreshed, Steps
<1>2. data' \in DataType
  BY <1>1, PollType DEF Refreshed, TypeOK
<1> DEFINE asked == rerun \/ outcome # "silent"
<1>3. asked \in BOOLEAN
  BY <1>1 DEF TypeOK
<1>4. /\ \/ pc' = "enable" /\ rerun' = asked /\ UNCHANGED << job, session >>
         \/ session' \in BOOLEAN /\ EvaluationEnds(asked)
      /\ UNCHANGED << charger, reading, settings, timers, force, pause, shutdown >>
  BY <1>1 DEF Refreshed, TypeOK
<1> HIDE DEF asked
<1>5. CASE pc' = "enable" /\ rerun' = asked /\ UNCHANGED << job, session >>
  <2>1. job' \in JobType /\ SetpointWithinCap' /\ RampIsGentle'
    BY <1>1, <1>5, TaskGoesOn DEF Steps
  <2>2. TypeOK'
    BY <1>1, <1>2, <1>3, <1>4, <1>5, <2>1 DEF TypeOK, Steps
  <2>3. QED
    BY <2>1, <2>2 DEF IInv
<1>6. CASE session' \in BOOLEAN /\ EvaluationEnds(asked)
  <2>1. /\ pc' \in {"idle", "ready"} /\ job' = None /\ rerun' \in BOOLEAN
        /\ SetpointWithinCap' /\ RampIsGentle'
    BY <1>3, <1>6, TaskEnds
  <2>2. TypeOK'
    BY <1>1, <1>2, <1>4, <1>6, <2>1 DEF TypeOK, Steps
  <2>3. QED
    BY <2>1, <2>2 DEF IInv
<1>7. QED
  BY <1>4, <1>5, <1>6

\* The world around the task disturbs neither what it writes nor its job.
LEMMA AroundIInv ==
  ASSUME IInv, Around
  PROVE  IInv'
<1>1. TypeOK
  BY DEF IInv
<1>2. CASE Writes
  BY <1>2, WritesIInv
<1>3. CASE \E outcome \in Outcomes : Refreshed(outcome)
  BY <1>3, RefreshedIInv
<1>4. CASE \E ok \in BOOLEAN : CoordinatorUpdate(ok)
  <2>1. /\ data' \in DataType /\ ScheduleEvaluation
        /\ UNCHANGED << charger, reading, settings, timers, force, pause, session, job, shutdown >>
    BY <1>1, <1>4, PollType DEF CoordinatorUpdate, TypeOK
  <2>2. QED
    BY <1>1, <2>1, ScheduleKeepsTask, TaskUndisturbed DEF IInv, TypeOK
<1>5. CASE SensorUpdate
  <2>1. /\ reading' \in Readings
        /\ UNCHANGED << charger, data, settings, timers, force, pause, session, job, shutdown >>
    BY <1>5 DEF SensorUpdate
  <2>2. rerun' \in BOOLEAN
    BY <1>1, <1>5, ScheduleKeepsTask DEF SensorUpdate, TypeOK
  <2>3. pc' = pc \/ (pc = "idle" /\ pc' = "ready")
    BY <1>1, <1>5, ScheduleKeepsTask DEF SensorUpdate
  <2>4. /\ pc' \in {"idle", "ready"} \union Steps
        /\ IF pc' \in Steps THEN job' \in JobType ELSE job' = None
        /\ SetpointWithinCap' /\ RampIsGentle'
    BY <2>1, <2>3, TaskUndisturbed
  <2>5. TypeOK'
    BY <1>1, <2>1, <2>2, <2>4 DEF TypeOK
  <2>6. QED
    BY <2>4, <2>5 DEF IInv
<1>6. CASE ApplySettings
  <2>1. /\ settings' \in SettingsChoices /\ ScheduleEvaluation
        /\ UNCHANGED << charger, data, reading, timers, force, pause, session, job, shutdown >>
    BY <1>6 DEF ApplySettings
  <2>2. QED
    BY <1>1, <2>1, ScheduleKeepsTask, TaskUndisturbed DEF IInv, TypeOK
<1>7. CASE \E request \in ForceRequests : ForceChargeFor(request)
  <2>1. /\ force' \in ForceType /\ ScheduleEvaluation
        /\ UNCHANGED << charger, data, reading, settings, timers, pause, session, job, shutdown >>
    BY <1>7, InputAssumption DEF ForceChargeFor
  <2>2. QED
    BY <1>1, <2>1, ScheduleKeepsTask, TaskUndisturbed DEF IInv, TypeOK
<1>8. CASE \E duration \in PauseDurations : PauseFor(duration)
  <2>1. /\ pause' \in Nat /\ ScheduleEvaluation
        /\ UNCHANGED << charger, data, reading, settings, timers, force, session, job, shutdown >>
    BY <1>8, InputAssumption DEF PauseFor
  <2>2. QED
    BY <1>1, <2>1, ScheduleKeepsTask, TaskUndisturbed DEF IInv, TypeOK
<1>9. CASE ChargeToggledOutside \/ SetpointChangedOutside
  <2>1. /\ charger' \in ChargerType
        /\ UNCHANGED << data, reading, settings, timers, force, pause, session,
                        pc, job, rerun, shutdown >>
    BY <1>1, <1>9 DEF ChargeToggledOutside, SetpointChangedOutside, TypeOK, ChargerType, Setpoints
  <2>2. QED
    BY <1>1, <2>1, TaskUndisturbed DEF IInv, TypeOK
<1>10. CASE Shutdown
  <2>1. AfterWrite \in ChargerType
    <3>1. pc = "set" => job.target \in Setpoints
      BY WrittenSetpoint
    <3>2. charger \in ChargerType
      BY <1>1 DEF TypeOK
    <3>3. QED
      BY <3>1, <3>2 DEF AfterWrite, ChargerType
  <2>2. TypeOK'
    BY <1>1, <1>10, <2>1 DEF Shutdown, TypeOK, Steps
  <2>3. SetpointWithinCap' /\ RampIsGentle'
    BY <1>10 DEF Shutdown, SetpointWithinCap, RampIsGentle
  <2>4. QED
    BY <2>2, <2>3 DEF IInv
<1>11. QED
  BY <1>2, <1>3, <1>4, <1>5, <1>6, <1>7, <1>8, <1>9, <1>10 DEF Around

\* Time passes over the timers, the countdowns and the age of the evaluation's `now`.
LEMMA TickIInv ==
  ASSUME IInv, Tick
  PROVE  IInv'
<1>1. TypeOK
  BY DEF IInv
<1>2. timers' \in TimerState
  BY <1>1, TimersStayInRange DEF Tick, TypeOK
<1>3. force' \in ForceType /\ pause' \in Nat
  BY <1>1 DEF Tick, TypeOK, ForceType
<1>4. CASE pc \in Steps
  <2>1. job \in JobType /\ job' = [job EXCEPT !.age = Older(@, AgeLimit)]
    BY <1>1, <1>4 DEF Tick, TypeOK
  <2>2. Older(job.age, AgeLimit) \in 0..AgeLimit
    BY <2>1, AgeLimitType, OlderInRange DEF JobType
  <2>3. /\ job' \in JobType
        /\ job'.action = job.action /\ job'.target = job.target
        /\ job'.cap = job.cap /\ job'.data = job.data
    BY <2>1, <2>2 DEF JobType
  <2>4. TypeOK'
    BY <1>1, <1>2, <1>3, <1>4, <2>3 DEF Tick, TypeOK
  <2>5. SetpointWithinCap' /\ RampIsGentle'
    BY <2>3 DEF IInv, Tick, SetpointWithinCap, RampIsGentle, AvailableCurrents
  <2>6. QED
    BY <2>4, <2>5 DEF IInv
<1>5. CASE pc \notin Steps
  <2>1. job' = job /\ pc' = pc
    BY <1>5 DEF Tick
  <2>2. TypeOK'
    BY <1>1, <1>2, <1>3, <1>5, <2>1 DEF Tick, TypeOK
  <2>3. QED
    BY <2>1, <2>2, TaskUndisturbed DEF IInv
<1>6. QED
  BY <1>4, <1>5

LEMMA StutterIInv ==
  ASSUME IInv, UNCHANGED vars
  PROVE  IInv'
<1>1. TypeOK'
  BY DEF IInv, TypeOK, vars
<1>2. SetpointWithinCap' /\ RampIsGentle'
  BY DEF IInv, SetpointWithinCap, RampIsGentle, AvailableCurrents, vars
<1>3. QED
  BY <1>1, <1>2 DEF IInv

LEMMA NextIInv == IInv /\ [Next]_vars => IInv'
BY EvaluateOnceIInv, TickIInv, AroundIInv, StutterIInv DEF Next

\* The three invariants hold together in every behaviour.
LEMMA SpecIInv == Spec => []IInv
BY InitIInv, NextIInv, PTL DEF Spec

-----------------------------------------------------------------------------
\* Every variable stays within its type, whatever fails, is lost or comes in between;
\* in particular the charger only ever holds setpoints it offers or the app left there.
THEOREM TypeCorrect == Spec => []TypeOK
<1>1. IInv => TypeOK
  BY DEF IInv
<1>2. QED
  BY <1>1, SpecIInv, PTL

\* No write exceeds the protection cap its evaluation saw, for every ladder and every cap
\* on it: neither a force charge nor a ramp can widen the narrowed ladder again.
THEOREM CapRespected == Spec => []SetpointWithinCap
<1>1. IInv => SetpointWithinCap
  BY DEF IInv
<1>2. QED
  BY <1>1, SpecIInv, PTL

\* Regulation never passes by an offered current on its way up.
THEOREM RampWalked == Spec => []RampIsGentle
<1>1. IInv => RampIsGentle
  BY DEF IInv
<1>2. QED
  BY <1>1, SpecIInv, PTL

\* No evaluation under a veto or without any current left sets a current or starts a
\* charge, for every combination of options, timers and requests.
THEOREM VetoObeyed == Spec => VetoStartsNothing
<1> DEFINE Starts == pc = "ready" /\ pc' \in {"set", "enable"}
<1>1. ASSUME TypeOK, EvaluateOnce, Starts
      PROVE  reading.external /\ reading.cap # 0
  <2> DEFINE v == Evaluate(GateContext, timers)
  <2>1. /\ v.action \in Actions
        /\ ~reading.external \/ reading.cap = 0 => v.action \in {"IDLE", "STOP"}
    BY <1>1, VerdictOK
  <2>2. FirstStep(v) \in {"set", "enable"}
    BY <1>1 DEF EvaluateOnce, EvaluationEnds
  <2>3. v.action \notin {"IDLE", "STOP"}
    <3>1. v.action \in {"SET", "START", "FORCE"}
      <4> HIDE DEF v
      <4>1. QED BY <2>1, <2>2, FirstStepOK
    <3>2. QED
      BY <3>1
  <2>4. QED
    BY <2>1, <2>3
<1>2. ASSUME Tick \/ Around \/ UNCHANGED vars
      PROVE  ~Starts
  BY <1>2 DEF Tick, Around, Writes, WriteSetpoint, WriteEnable, WriteDisable, Refreshed,
     CoordinatorUpdate, SensorUpdate, ApplySettings, ForceChargeFor, PauseFor,
     ChargeToggledOutside, SetpointChangedOutside, Shutdown, ScheduleEvaluation, vars
<1>3. TypeOK /\ [Next]_vars => [Starts => reading.external /\ reading.cap # 0]_vars
  BY <1>1, <1>2 DEF Next
<1>4. QED
  BY <1>3, TypeCorrect, PTL DEF Spec, VetoStartsNothing

-----------------------------------------------------------------------------
(* The scheduling implements EvaluationPromise. *)

\* A task that is shut down stands nowhere: what makes Begin and End answer to ~closed.
NoneAfterShutdown == shutdown => pc = "idle"

RInv == TypeOK /\ NoneAfterShutdown

LEMMA SpecNoneAfterShutdown == Spec => []NoneAfterShutdown
<1>1. Init => NoneAfterShutdown
  BY DEF Init, NoneAfterShutdown
<1>2. NoneAfterShutdown /\ [Next]_vars => NoneAfterShutdown'
  <2> SUFFICES ASSUME NoneAfterShutdown, [Next]_vars
               PROVE  NoneAfterShutdown'
    OBVIOUS
  <2> USE DEF NoneAfterShutdown
  <2>1. CASE EvaluateOnce
    BY <2>1 DEF EvaluateOnce
  <2>2. CASE Tick
    BY <2>2 DEF Tick
  <2>3. CASE Writes
    BY <2>3 DEF Writes, WriteSetpoint, WriteEnable, WriteDisable
  <2>4. CASE \E outcome \in Outcomes : Refreshed(outcome)
    BY <2>4 DEF Refreshed
  <2>5. CASE \E ok \in BOOLEAN : CoordinatorUpdate(ok)
    BY <2>5 DEF CoordinatorUpdate, ScheduleEvaluation
  <2>6. CASE SensorUpdate
    BY <2>6 DEF SensorUpdate, ScheduleEvaluation
  <2>7. CASE \/ ApplySettings
             \/ \E request \in ForceRequests : ForceChargeFor(request)
             \/ \E duration \in PauseDurations : PauseFor(duration)
    BY <2>7 DEF ApplySettings, ForceChargeFor, PauseFor, ScheduleEvaluation
  <2>8. CASE ChargeToggledOutside \/ SetpointChangedOutside
    BY <2>8 DEF ChargeToggledOutside, SetpointChangedOutside
  <2>9. CASE Shutdown
    BY <2>9 DEF Shutdown
  <2>10. CASE UNCHANGED vars
    BY <2>10 DEF vars
  <2>11. QED
    BY <2>1, <2>2, <2>3, <2>4, <2>5, <2>6, <2>7, <2>8, <2>9, <2>10 DEF Next, Around
<1>3. QED
  BY <1>1, <1>2, PTL DEF Spec

-----------------------------------------------------------------------------
(* Scheduling, seen from the promise. *)

LEMMA InitRefines == Init => Promise!Init
BY DEF Init, Promise!Init, Owed, Evaluating, Steps

\* A handler that schedules is a request, or goes unheard after the shutdown.
LEMMA SchedulingIsARequest ==
  ASSUME RInv, ScheduleEvaluation, UNCHANGED shutdown
  PROVE  Promise!Request \/ Promise!ChangeUnheard
<1> USE DEF Owed, Evaluating, Steps
<1>1. CASE shutdown
  BY <1>1 DEF ScheduleEvaluation, Promise!ChangeUnheard
<1>2. CASE ~shutdown
  <2>1. pc \in {"idle", "ready"} \union Steps /\ rerun \in BOOLEAN
    BY DEF RInv, TypeOK
  <2>2. CASE pc = "idle"
    BY <1>2, <2>1, <2>2 DEF ScheduleEvaluation, Promise!Request
  <2>3. CASE pc # "idle"
    BY <1>2, <2>1, <2>3 DEF ScheduleEvaluation, Promise!Request
  <2>4. QED
    BY <2>2, <2>3
<1>3. QED
  BY <1>1, <1>2

LEMMA EvaluateOnceBegins ==
  ASSUME RInv, EvaluateOnce
  PROVE  Promise!Begin
<1>1. pc = "ready" /\ ~shutdown /\ shutdown' = shutdown
  BY DEF EvaluateOnce, RInv, NoneAfterShutdown
<1>2. UNCHANGED RequestedInput
  BY DEF EvaluateOnce, RequestedInput
<1>3. Owed /\ ~Evaluating /\ Owed' \in BOOLEAN /\ Evaluating' \in BOOLEAN
  BY <1>1 DEF Owed, Evaluating, Steps
<1>4. QED
  BY <1>1, <1>2, <1>3 DEF Promise!Begin

\* The end of an evaluation keeps what was asked meanwhile.
LEMMA EndsWithTheRequest ==
  ASSUME RInv, pc \in Steps, NEW asked \in BOOLEAN, rerun => asked,
         EvaluationEnds(asked), UNCHANGED shutdown,
         UNCHANGED RequestedInput \/ asked
  PROVE  Promise!End
<1>1. ~shutdown
  BY DEF RInv, NoneAfterShutdown, Steps
<1>2. Evaluating /\ ~Evaluating' /\ Owed' = asked
  BY <1>1 DEF EvaluationEnds, Evaluating, Owed, Steps
<1>3. Owed => asked
  BY DEF Owed, Steps
<1>4. QED
  BY <1>2, <1>3 DEF Promise!End

LEMMA WritesRefine ==
  ASSUME RInv, Writes
  PROVE  [Promise!Next]_Promise!vars
<1>1. rerun \in BOOLEAN /\ UNCHANGED << RequestedInput, shutdown >>
  BY DEF RInv, TypeOK, Writes, WriteSetpoint, WriteEnable, WriteDisable, RequestedInput
<1>2. pc \in Steps
  BY DEF Writes, WriteSetpoint, WriteEnable, WriteDisable, Steps
<1>3. EvaluationEnds(rerun) \/ (pc' \in Steps /\ UNCHANGED rerun)
  BY DEF Writes, WriteSetpoint, WriteEnable, WriteDisable, Steps
<1>4. CASE EvaluationEnds(rerun)
  BY <1>1, <1>2, <1>4, EndsWithTheRequest DEF Promise!Next
<1>5. CASE pc' \in Steps /\ UNCHANGED rerun
  BY <1>1, <1>2, <1>5 DEF Promise!vars, Owed, Evaluating, Steps
<1>6. QED
  BY <1>3, <1>4, <1>5

LEMMA RefreshedRefines ==
  ASSUME RInv, NEW outcome \in Outcomes, Refreshed(outcome)
  PROVE  [Promise!Next]_Promise!vars
<1> DEFINE asked == rerun \/ outcome # "silent"
<1>1. asked \in BOOLEAN /\ (rerun => asked) /\ rerun \in BOOLEAN
  BY DEF RInv, TypeOK
<1>2. pc \in Steps /\ UNCHANGED shutdown /\ ~shutdown
  BY DEF Refreshed, Steps, RInv, NoneAfterShutdown
<1>3. UNCHANGED RequestedInput \/ asked
  BY DEF Refreshed, RequestedInput
<1>4. CASE EvaluationEnds(asked)
  BY <1>1, <1>2, <1>3, <1>4, EndsWithTheRequest DEF Promise!Next
<1>5. CASE pc' = "enable" /\ rerun' = asked
  <2>1. CASE asked
    BY <1>2, <1>5, <2>1 DEF Promise!Next, Promise!Request, Owed, Evaluating, Steps
  <2>2. CASE ~asked
    BY <1>1, <1>2, <1>3, <1>5, <2>2 DEF Promise!vars, Owed, Evaluating, Steps
  <2>3. QED
    BY <2>1, <2>2
<1>6. EvaluationEnds(asked) \/ (pc' = "enable" /\ rerun' = asked)
  BY DEF Refreshed
<1>7. QED
  BY <1>4, <1>5, <1>6

LEMMA ShutdownCloses ==
  ASSUME Shutdown
  PROVE  Promise!Close
BY DEF Shutdown, Promise!Close, Owed, Evaluating, Steps, RequestedInput

LEMMA UndisturbedRefines ==
  ASSUME UNCHANGED << pc, rerun, shutdown, data, settings, force.current >>
  PROVE  UNCHANGED Promise!vars
BY DEF Promise!vars, Owed, Evaluating, RequestedInput

-----------------------------------------------------------------------------
LEMMA NextRefines ==
  ASSUME RInv, [Next]_vars
  PROVE  [Promise!Next]_Promise!vars
<1>1. CASE EvaluateOnce
  BY <1>1, EvaluateOnceBegins DEF Promise!Next
<1>2. CASE Tick
  BY <1>2, UndisturbedRefines DEF Tick, RInv, TypeOK, ForceType
<1>3. CASE Writes
  BY <1>3, WritesRefine
<1>4. CASE \E outcome \in Outcomes : Refreshed(outcome)
  BY <1>4, RefreshedRefines
<1>5. CASE \E ok \in BOOLEAN : CoordinatorUpdate(ok)
  BY <1>5, SchedulingIsARequest DEF CoordinatorUpdate, Promise!Next
<1>6. CASE SensorUpdate
  <2>1. CASE ScheduleEvaluation
    BY <1>6, <2>1, SchedulingIsARequest DEF SensorUpdate, Promise!Next
  <2>2. CASE UNCHANGED << pc, rerun >>
    BY <1>6, <2>2, UndisturbedRefines DEF SensorUpdate
  <2>3. QED
    BY <1>6, <2>1, <2>2 DEF SensorUpdate
<1>7. CASE \/ ApplySettings
           \/ \E request \in ForceRequests : ForceChargeFor(request)
           \/ \E duration \in PauseDurations : PauseFor(duration)
  BY <1>7, SchedulingIsARequest DEF ApplySettings, ForceChargeFor, PauseFor, Promise!Next
<1>8. CASE ChargeToggledOutside \/ SetpointChangedOutside
  BY <1>8, UndisturbedRefines DEF ChargeToggledOutside, SetpointChangedOutside
<1>9. CASE Shutdown
  BY <1>9, ShutdownCloses DEF Promise!Next
<1>10. CASE UNCHANGED vars
  BY <1>10, UndisturbedRefines DEF vars
<1>11. QED
  BY <1>1, <1>2, <1>3, <1>4, <1>5, <1>6, <1>7, <1>8, <1>9, <1>10 DEF Next, Around

\* For every ladder, cap, delay, threshold and set of inputs the task loop with its rerun
\* flag keeps the promise of _schedule_evaluation: no request is lost, one evaluation at a
\* time, none after the shutdown.
THEOREM SchedulerKeepsPromise == Spec => PromiseKept
<1>1. RInv /\ [Next]_vars => [Promise!Next]_Promise!vars
  BY NextRefines
<1>2. Spec => []RInv
  BY TypeCorrect, SpecNoneAfterShutdown, PTL DEF RInv
<1>3. QED
  BY <1>1, <1>2, InitRefines, PTL DEF Spec, PromiseKept, Promise!Spec
=============================================================================
