-------------------------- MODULE SurplusController --------------------------
(***************************************************************************)
(* The controller that drives one charger (solar_surplus.py): it reads the *)
(* sensors and the coordinator's last snapshot of the charger, asks the    *)
(* gates for one verdict and carries it out with one or two writes, each   *)
(* an await during which anything else may happen.                         *)
(*                                                                         *)
(* One evaluation runs at a time, in the evaluation task.  pc is where the *)
(* task stands:                                                            *)
(*   "idle"                     no task                                    *)
(*   "ready"                    about to evaluate                          *)
(*   "set" "enable" "disable"   awaiting a write to the charger            *)
(*   "setRefresh" "refresh"     awaiting the coordinator's refresh         *)
(* and job is what it remembers of its evaluation across those awaits.     *)
(*                                                                         *)
(* What is reported and persisted (decision reasons, regulation_active,    *)
(* debug figures, session energy and price) decides nothing here and is    *)
(* left out.                                                               *)
(***************************************************************************)
EXTENDS ChargeGates

CONSTANTS
  MaxCurrent,     \* the highest of ALLOWED_CURRENTS, 32 in const.py
  Ladder,         \* currents the charger and the installation offer
  AppCurrents,    \* setpoints the vendor's app may leave on the charger
  Readings,       \* what the sensors may say: a set of records, see ReadingType
  SettingsChoices,\* the options the user may have set, see SettingsType
  ForceRequests,  \* calls of the force_charge_for service: [left, current]
  PauseDurations, \* calls of the pause_surplus service, in ticks
  MayOmitSetpoint \* whether a poll may leave the setpoint out of its reply

Caps == Ladder \union {0, None}
Setpoints == Ladder \union AppCurrents

ReadingType ==
  [cap : Caps, surplus : Int \union {None}, battery : BOOLEAN, external : BOOLEAN,
   tariff : {"off", "allowed", "forbidden"}]

SettingsType ==
  [mode : BOOLEAN, capOnly : BOOLEAN, stayAtMin : BOOLEAN, offPeak : BOOLEAN,
   gridSensor : BOOLEAN]

ForceType == [left : Nat, current : Nat \union {None}]

ASSUME LadderAssumption ==
  MaxCurrent \in Nat /\ Ladder \subseteq 1..MaxCurrent
ASSUME AppCurrentsAssumption == AppCurrents \subseteq Nat
ASSUME InputAssumption ==
  /\ Readings \subseteq ReadingType /\ Readings # {}
  /\ SettingsChoices \subseteq SettingsType /\ SettingsChoices # {}
  /\ ForceRequests \subseteq ForceType
  /\ PauseDurations \subseteq Nat
  /\ MayOmitSetpoint \in BOOLEAN

VARIABLES
  charger,   \* the charger itself: whether it charges and its setpoint
  data,      \* coordinator.data: the charger as the last good poll saw it
  reading,   \* the sensors, as Home Assistant holds them
  settings,  \* the controller's copy of the options
  timers,    \* TimerState
  force,     \* the force charge: ticks left and the current it asked for
  pause,     \* ticks left of the pause
  session,   \* _session_active: a charge of the controller's own is running
  pc, job,   \* the evaluation task and what it remembers
  rerun,     \* _rerun_requested
  shutdown   \* _shut_down

vars == << charger, data, reading, settings, timers, force, pause, session,
           pc, job, rerun, shutdown >>

ChargerType == [charging : BOOLEAN, setpoint : Setpoints]
DataType == [charging : BOOLEAN, setpoint : Setpoints \union {None}]

\* An evaluation in flight: the writing verdict, the cap and the snapshot it
\* was decided on, and how long ago its `now` was taken.
AgeLimit == Max({UpCooldown, DownCooldown})
JobType == [action : {"START", "STOP", "SET", "FORCE"}, target : Ladder \union {None},
            cap : Caps, data : DataType, age : 0..AgeLimit]

Steps == {"set", "setRefresh", "enable", "disable", "refresh"}

TypeOK ==
  /\ charger \in ChargerType
  /\ data \in DataType
  /\ reading \in Readings
  /\ settings \in SettingsChoices
  /\ timers \in TimerState
  /\ force \in ForceType
  /\ pause \in Nat
  /\ session \in BOOLEAN
  /\ pc \in {"idle", "ready"} \union Steps
  /\ IF pc \in Steps THEN job \in JobType ELSE job = None
  /\ rerun \in BOOLEAN
  /\ shutdown \in BOOLEAN

-----------------------------------------------------------------------------
(* Scheduling.  A request starts the task, or has a running one go round    *)
(* once more; after the shutdown it is ignored.                            *)

\* Mutant of ScheduleEvaluation: a request that finds the task running is dropped.
ScheduleEvaluationDropsRerun ==
  \/ /\ ~shutdown /\ pc = "idle"
     /\ pc' = "ready"
     /\ UNCHANGED rerun
  \/ /\ shutdown \/ pc # "idle"
     /\ UNCHANGED << pc, rerun >>

ScheduleEvaluation ==
  \/ /\ shutdown
     /\ UNCHANGED << pc, rerun >>
  \/ /\ ~shutdown /\ pc = "idle"
     /\ pc' = "ready"
     /\ UNCHANGED rerun
  \/ /\ ~shutdown /\ pc # "idle"
     /\ rerun' = TRUE
     /\ UNCHANGED pc

\* The evaluation is over: go round again when asked to meanwhile, or end.
EvaluationEnds(asked) ==
  /\ pc' = IF asked THEN "ready" ELSE "idle"
  /\ rerun' = FALSE
  /\ job' = None

-----------------------------------------------------------------------------
(* Deciding.                                                               *)

\* The ladder narrowed by the protection cap: all a gate ever sees.
AvailableCurrents(cap) == {a \in Ladder : cap = None \/ a <= cap}

GateContext ==
  [charging |-> data.charging, current |-> data.setpoint,
   ladder |-> AvailableCurrents(reading.cap), cap |-> reading.cap,
   mode |-> settings.mode, capOnly |-> settings.capOnly,
   stayAtMin |-> settings.stayAtMin, offPeak |-> settings.offPeak,
   gridSensor |-> settings.gridSensor, surplus |-> reading.surplus,
   force |-> force.left > 0, forceCurrent |-> force.current, pause |-> pause > 0,
   external |-> reading.external, tariff |-> reading.tariff,
   battery |-> reading.battery]

\* Mutant of FirstStep: a start at the setpoint the charger already has does nothing.
FirstStepSkipsEnable(v) ==
  CASE v.action = "SET" -> "set"
    [] v.action \in {"START", "FORCE"} /\ v.target \notin {None, data.setpoint} -> "set"
    [] v.action = "START" /\ v.target = None -> "enable"
    [] v.action = "STOP" /\ data.charging /\ (v.ownOnly => session) -> "disable"
    [] OTHER -> "done"

\* Where applying the verdict first awaits; "done" when there is nothing to write.
FirstStep(v) ==
  CASE v.action = "SET" -> "set"
    [] v.action \in {"START", "FORCE"} /\ v.target \notin {None, data.setpoint} -> "set"
    [] v.action = "START" /\ v.target \in {None, data.setpoint} -> "enable"
    [] v.action = "FORCE" /\ v.target = data.setpoint /\ ~data.charging -> "enable"
    [] v.action = "STOP" /\ data.charging /\ (v.ownOnly => session) -> "disable"
    [] OTHER -> "done"

\* A force charge that is already delivered counts as a session of our own.
EvaluateOnce ==
  /\ pc = "ready"
  /\ LET v == Evaluate(GateContext, timers)
         step == FirstStep(v)
     IN  /\ timers' = v.timers
         /\ session' = (session \/ (v.action = "FORCE" /\ step = "done"))
         /\ \/ /\ step = "done"
               /\ EvaluationEnds(rerun)
            \/ /\ step # "done"
               /\ pc' = step
               /\ job' = [action |-> v.action, target |-> v.target, cap |-> reading.cap,
                          data |-> data, age |-> 0]
               /\ UNCHANGED rerun
  /\ UNCHANGED << charger, data, reading, settings, force, pause, shutdown >>

-----------------------------------------------------------------------------
(* Acting.  The client's answer and what the charger did are independent:   *)
(* a write may be lost though reported as done (a charger that does not    *)
(* echo the DP) and be obeyed though reported as failed.  A raised         *)
(* exception ends the evaluation like a reported failure.                  *)

StampIncrease(t) == [t EXCEPT !.increase = StampedAgo(job.age, UpCooldown)]
StampDecrease(t) == [t EXCEPT !.decrease = StampedAgo(job.age, DownCooldown)]

\* The adjustment timers, by the snapshot the decision was taken on.
StampAdjustment ==
  IF job.data.setpoint = None THEN timers
  ELSE IF job.target > job.data.setpoint THEN StampIncrease(timers)
  ELSE StampDecrease(timers)

WriteSetpoint(applied, ok) ==
  /\ pc = "set"
  /\ charger' = IF applied THEN [charger EXCEPT !.setpoint = job.target] ELSE charger
  /\ \/ /\ ~ok
        /\ EvaluationEnds(rerun)
        /\ UNCHANGED timers
     \/ /\ ok /\ job.action = "START"
        /\ pc' = "enable"
        /\ UNCHANGED << timers, job, rerun >>
     \/ /\ ok /\ job.action # "START"
        /\ timers' = StampAdjustment
        /\ pc' = "setRefresh"
        /\ UNCHANGED << job, rerun >>
  /\ UNCHANGED << data, reading, settings, force, pause, session, shutdown >>

WriteEnable(applied, ok) ==
  /\ pc = "enable"
  /\ charger' = IF applied THEN [charger EXCEPT !.charging = TRUE] ELSE charger
  /\ \/ /\ ~ok
        /\ EvaluationEnds(rerun)
        /\ UNCHANGED << timers, session >>
     \/ /\ ok
        /\ timers' = IF job.action = "START" THEN StampDecrease(StampIncrease(timers))
                     ELSE timers
        /\ session' = TRUE
        /\ pc' = "refresh"
        /\ UNCHANGED << job, rerun >>
  /\ UNCHANGED << data, reading, settings, force, pause, shutdown >>

WriteDisable(applied, ok) ==
  /\ pc = "disable"
  /\ charger' = IF applied THEN [charger EXCEPT !.charging = FALSE] ELSE charger
  /\ \/ /\ ~ok
        /\ EvaluationEnds(rerun)
        /\ UNCHANGED session
     \/ /\ ok
        /\ session' = FALSE
        /\ pc' = "refresh"
        /\ UNCHANGED << job, rerun >>
  /\ UNCHANGED << data, reading, settings, timers, force, pause, shutdown >>

\* What a good poll may make of the charger.
PollReplies ==
  [charging : {charger.charging},
   setpoint : {charger.setpoint} \union (IF MayOmitSetpoint THEN {None} ELSE {})]

\* async_request_refresh is over: the poll succeeded and told the listeners, or
\* failed and told them, or did neither (debounced, or not the first failure).
Refreshed(outcome) ==
  /\ pc \in {"setRefresh", "refresh"}
  /\ IF outcome = "polled" THEN data' \in PollReplies ELSE UNCHANGED data
  /\ LET asked == rerun \/ outcome # "silent"
         starts == pc = "setRefresh" /\ job.action = "FORCE" /\ ~job.data.charging
     IN  \/ /\ starts
            /\ pc' = "enable"
            /\ rerun' = asked
            /\ UNCHANGED << job, session >>
         \/ /\ ~starts
            /\ session' = (session \/ job.action = "FORCE")
            /\ EvaluationEnds(asked)
  /\ UNCHANGED << charger, reading, settings, timers, force, pause, shutdown >>

-----------------------------------------------------------------------------
(* The world around the task.                                              *)

\* A poll of the coordinator's own; its listeners run either way.
CoordinatorUpdate(ok) ==
  /\ IF ok THEN data' \in PollReplies ELSE UNCHANGED data
  /\ ScheduleEvaluation
  /\ UNCHANGED << charger, reading, settings, timers, force, pause, session, job, shutdown >>

\* A tracked sensor changes; or an off-peak window opens or closes, unannounced.
SensorUpdate ==
  /\ reading' \in Readings \ {reading}
  /\ ScheduleEvaluation \/ UNCHANGED << pc, rerun >>
  /\ UNCHANGED << charger, data, settings, timers, force, pause, session, job, shutdown >>

ApplySettings ==
  /\ ~shutdown
  /\ settings' \in SettingsChoices \ {settings}
  /\ ScheduleEvaluation
  /\ UNCHANGED << charger, data, reading, timers, force, pause, session, job, shutdown >>

ForceChargeFor(request) ==
  /\ ~shutdown
  /\ force' = request
  /\ ScheduleEvaluation
  /\ UNCHANGED << charger, data, reading, settings, timers, pause, session, job, shutdown >>

PauseFor(duration) ==
  /\ ~shutdown
  /\ pause' = duration
  /\ ScheduleEvaluation
  /\ UNCHANGED << charger, data, reading, settings, timers, force, session, job, shutdown >>

\* The app, the charger or the car starts or ends the charge by itself.
ChargeToggledOutside ==
  /\ charger' = [charger EXCEPT !.charging = ~@]
  /\ UNCHANGED << data, reading, settings, timers, force, pause, session,
                  pc, job, rerun, shutdown >>

SetpointChangedOutside ==
  /\ \E a \in AppCurrents \ {charger.setpoint} : charger' = [charger EXCEPT !.setpoint = a]
  /\ UNCHANGED << data, reading, settings, timers, force, pause, session,
                  pc, job, rerun, shutdown >>

\* The charger once the write in flight, if any, has reached it.
AfterWrite ==
  CASE pc = "set"     -> [charger EXCEPT !.setpoint = job.target]
    [] pc = "enable"  -> [charger EXCEPT !.charging = TRUE]
    [] pc = "disable" -> [charger EXCEPT !.charging = FALSE]
    [] OTHER          -> charger

\* The entry is unloaded: the task is cancelled at its await, the thread that is
\* writing is not.
Shutdown ==
  /\ ~shutdown
  /\ shutdown' = TRUE
  /\ charger' \in {charger, AfterWrite}
  /\ pc' = "idle"
  /\ job' = None
  /\ UNCHANGED << data, reading, settings, timers, force, pause, session, rerun >>

Tick ==
  /\ timers' = Aged(timers)
  /\ force' = IF force.left > 0 THEN [force EXCEPT !.left = @ - 1] ELSE force
  /\ pause' = IF pause > 0 THEN pause - 1 ELSE pause
  /\ job' = IF pc \in Steps THEN [job EXCEPT !.age = Older(@, AgeLimit)] ELSE job
  /\ UNCHANGED << charger, data, reading, settings, session, pc, rerun, shutdown >>

-----------------------------------------------------------------------------
Init ==
  /\ charger \in ChargerType
  /\ data = charger
  /\ reading \in Readings
  /\ settings \in SettingsChoices
  /\ timers = FreshTimers
  /\ force = [left |-> 0, current |-> None]
  /\ pause = 0
  /\ session = FALSE
  /\ pc = "ready"
  /\ job = None
  /\ rerun = FALSE
  /\ shutdown = FALSE

Writes ==
  \E applied, ok \in BOOLEAN :
    WriteSetpoint(applied, ok) \/ WriteEnable(applied, ok) \/ WriteDisable(applied, ok)

Outcomes == {"polled", "failed", "silent"}

\* Everything else than a decision and the passing of time.
Around ==
  \/ Writes
  \/ \E outcome \in Outcomes : Refreshed(outcome)
  \/ \E ok \in BOOLEAN : CoordinatorUpdate(ok)
  \/ SensorUpdate
  \/ ApplySettings
  \/ \E request \in ForceRequests : ForceChargeFor(request)
  \/ \E duration \in PauseDurations : PauseFor(duration)
  \/ ChargeToggledOutside
  \/ SetpointChangedOutside
  \/ Shutdown

Next == EvaluateOnce \/ Tick \/ Around

Spec == Init /\ [][Next]_vars

-----------------------------------------------------------------------------
(* Safety.                                                                 *)

\* Whatever asked for it -- a ramp, a start, a protection reduction or a force
\* charge -- the current being written is one the charger offers and fits under
\* the protection cap the decision was taken on (charge_gates.py, "no gate can
\* widen it again"; _async_apply).
SetpointWithinCap ==
  pc = "set" => job.target \in AvailableCurrents(job.cap)

\* An evaluation that sees the external veto, or a cap that leaves no current, never
\* goes on to set a current or to start a charge: nothing outranks the two vetoes,
\* not even a force charge (the order of GATES).
VetoStartsNothing ==
  [][pc = "ready" /\ pc' \in {"set", "enable"} => reading.external /\ reading.cap # 0]_vars

\* No evaluation moves the charge up by more than one offered current from what the
\* charger reports, but for a force charge (ramp_towards: "changes are walked").
RampIsGentle ==
  pc = "set" /\ job.action = "SET" /\ job.data.setpoint \in AvailableCurrents(job.cap) =>
    ~\E a \in AvailableCurrents(job.cap) : job.data.setpoint < a /\ a < job.target
=============================================================================
