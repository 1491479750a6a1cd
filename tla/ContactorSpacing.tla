--------------------------- MODULE ContactorSpacing ---------------------------
(***************************************************************************)
(* How often surplus regulation may switch the charger's contactor.  Two   *)
(* history variables, outside the code's state, measure the time between   *)
(* the decisions of SurplusController: the timers the code keeps for it    *)
(* pass through every gate, every failed write and every change of mode.   *)
(***************************************************************************)
EXTENDS SurplusController

VARIABLES
  sinceStop,    \* ticks since surplus regulation last decided to stop a charge
  sinceStart    \* ticks since a gate that owns the delay timers decided a start

historyVars == << sinceStop, sinceStart >>
allVars == << vars, sinceStop, sinceStart >>

Rest == RestartLock + StartDelay

Verdict == Evaluate(GateContext, timers)

DecidesSurplusStop ==
  /\ pc = "ready"
  /\ DecidedBy(GateContext) = "charging"
  /\ Verdict.action = "STOP"
  /\ SurplusStop(GateContext)

DecidesSurplusStart ==
  /\ pc = "ready"
  /\ DecidedBy(GateContext) = "start"
  /\ Verdict.action = "START"

\* A tariff start is not among these: that gate leaves the candidates alone.
DecidesRegulatedStart ==
  /\ pc = "ready"
  /\ DecidedBy(GateContext) \in {"start", "cap_only", "battery_floor_tariff_fallback"}
  /\ Verdict.action = "START"

HistoryTypeOK ==
  /\ sinceStop \in 0..Rest
  /\ sinceStart \in 0..StopDelay

HistoryInit ==
  /\ Init
  /\ sinceStop = Rest
  /\ sinceStart = StopDelay

HistoryNext ==
  \/ /\ EvaluateOnce
     /\ sinceStop' = IF DecidesSurplusStop THEN 0 ELSE sinceStop
     /\ sinceStart' = IF DecidesRegulatedStart THEN 0 ELSE sinceStart
  \/ /\ Tick
     /\ sinceStop' = Older(sinceStop, Rest)
     /\ sinceStart' = Older(sinceStart, StopDelay)
  \/ /\ Around
     /\ UNCHANGED historyVars

HistorySpec == HistoryInit /\ [][HistoryNext]_allVars

-----------------------------------------------------------------------------
\* After a surplus stop the charger rests for the restart lock and then for the whole
\* start delay before surplus regulation starts it again, whatever pauses, force
\* charges, failed writes and changes of mode lie between (#75: "the normal start
\* delay is served after it").
RestsBeforeSurplusStart == DecidesSurplusStart => sinceStop = Rest

\* A charge that regulation itself starts is not stopped for lack of surplus before
\* the stop delay: no stop candidate of an earlier charge survives into it.
RunsBeforeSurplusStop == DecidesSurplusStop => sinceStart = StopDelay

\* What the two rest on: a candidate is never older than the decision that cleared it.
CandidatesAreRecent ==
  /\ timers.surplusStop < RestartLock => sinceStop = timers.surplusStop /\ timers.start = None
  /\ timers.surplusStop = RestartLock => sinceStop >= RestartLock
  /\ timers.start # None => sinceStop >= RestartLock + timers.start
  /\ timers.stop # None => sinceStart >= timers.stop
=============================================================================
