--------------------------- MODULE RegulationClaims ---------------------------
(***************************************************************************)
(* What comments and the README say of the regulation, stated over runs of *)
(* SurplusController with the history each claim needs.  TLC refutes each  *)
(* of them: see the findings.                                              *)
(***************************************************************************)
EXTENDS SurplusController

VARIABLES
  foreign,         \* the running charge was started by the app, the car or the charger
  own,             \* an enable was sent since an evaluation last saw no charge
  stoppedByPause,  \* a charge was stopped, and confirmed so, in the pause now active
  sinceDip         \* ticks since an evaluation saw a surplus too small to start on

historyVars == << foreign, own, stoppedByPause, sinceDip >>
allVars == << vars, historyVars >>

DecidesBy(gate) == pc = "ready" /\ DecidedBy(GateContext) = gate

ClaimsInit ==
  /\ Init
  /\ foreign = charger.charging
  /\ own = FALSE
  /\ stoppedByPause = FALSE
  /\ sinceDip = StartDelay

Dips == reading.surplus # None /\ reading.surplus < StartThreshold

ClaimsNext ==
  \/ /\ EvaluateOnce
     /\ own' = (own /\ data.charging)
     /\ sinceDip' = IF Dips THEN 0 ELSE sinceDip
     /\ UNCHANGED << foreign, stoppedByPause >>
  \/ /\ Tick
     /\ sinceDip' = Older(sinceDip, StartDelay)
     /\ stoppedByPause' = (stoppedByPause /\ pause' > 0)
     /\ UNCHANGED << foreign, own >>
  \/ /\ Around
     /\ foreign' = (charger'.charging /\ IF charger.charging THEN foreign ELSE pc' = pc)
     /\ own' = (own \/ (pc = "enable" /\ pc' # "enable"))
     /\ stoppedByPause' = IF pc = "disable" /\ pc' = "refresh" THEN pause > 0
                          ELSE stoppedByPause /\ pause' = pause /\ force' = force
     /\ UNCHANGED sinceDip

ClaimsSpec == ClaimsInit /\ [][ClaimsNext]_allVars

-----------------------------------------------------------------------------
\* solar_surplus.py:684: "A charge started outside surplus mode -- from the app, say --
\* is not ours to interrupt when merely pausing": the pause gate does not go on to stop a
\* charge started elsewhere, once an evaluation has seen the charger idle before it.
PauseSparesForeignCharge ==
  [][DecidesBy("pause") /\ pc' = "disable" => ~foreign \/ own]_allVars

\* README.md:313: "A pause, a tariff window and the external sensor keep priority over
\* it" (cap-only regulation): a charge stopped during a pause is not started again by an
\* evaluation during that pause, unless a force charge is asked for.
PauseKeepsChargeStopped ==
  [][stoppedByPause /\ pc = "ready" => pc' \notin {"set", "enable"}]_allVars

\* charge_gates.py:718: "The start delay must be served in full and from scratch: a dip
\* resets it above rather than banking partial progress": no surplus start within the
\* start delay of an evaluation that saw too little surplus.
StartDelayServedInFull ==
  [][DecidesBy("start") /\ pc' \in {"set", "enable"} => sinceDip = StartDelay]_allVars
=============================================================================
