-------------------------- MODULE ControllerLiveness --------------------------
(***************************************************************************)
(* What the controller eventually does, given that the event loop runs its *)
(* task, that time passes, and that the charger answers now and then.      *)
(***************************************************************************)
EXTENDS SurplusController

\* The event loop runs a ready task; the client's retries and timeouts end every
\* write, and the coordinator's end every refresh; time passes.
Scheduled ==
  /\ WF_vars(EvaluateOnce)
  /\ WF_vars(Writes)
  /\ WF_vars(\E outcome \in Outcomes : Refreshed(outcome))
  /\ WF_vars(Tick)

\* The coordinator polls on an interval and some polls succeed; of the writes that are
\* tried over and over, some reach the charger and are confirmed.
ChargerAnswers ==
  /\ WF_vars(CoordinatorUpdate(TRUE))
  /\ SF_vars(WriteSetpoint(TRUE, TRUE))
  /\ SF_vars(WriteEnable(TRUE, TRUE))
  /\ SF_vars(WriteDisable(TRUE, TRUE))

FairSpec == Spec /\ Scheduled /\ ChargerAnswers

-----------------------------------------------------------------------------
\* Under the external veto a charge is stopped, and stopped again however often it is
\* started elsewhere: no write in flight, failed write or forgotten request lets it run
\* on for good (_gate_external_charge_blocked, _async_stop_charge).
VetoedChargeEnds ==
  <>[](~reading.external /\ ~shutdown) => []<>~charger.charging

\* A cap that stays is obeyed: the setpoint comes down to it whatever the app asks for,
\* and when it leaves no current at all the charge is stopped (_gate_protection_reduce,
\* _gate_no_currents).
CapIsObeyed ==
  \A cap \in Ladder \union {0} :
    <>[](reading.cap = cap /\ reading.external /\ ~shutdown) =>
      []<>(IF cap = 0 THEN ~charger.charging ELSE charger.setpoint <= cap)

\* Lasting sun is used: surplus regulation starts a charge that has ended, however often
\* writes fail, once the restart lock and the start delay are served (_gate_start).
Sunny ==
  /\ reading.surplus # None /\ reading.surplus >= StartThreshold /\ reading.battery
  /\ reading.cap = None /\ reading.external
  /\ settings.mode /\ settings.gridSensor
  /\ pause = 0 /\ ~shutdown

SunIsUsed == <>[]Sunny => []<>charger.charging
=============================================================================
