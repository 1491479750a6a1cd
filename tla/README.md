# A TLA+ model of the Tuya EV charger integration

This project models the Home Assistant integration in
`custom_components/tuya_ev_charger/` from the sensors to the charger: what it reads,
what it decides and in which order, what it writes, how it keeps its one connection
to the charger alive, what it remembers across a restart, and what may happen between
any two of its steps. TLC checks the model on small instances; TLAPS proves the most
important safety properties for every instance. `PROJECT.json` lists the components,
runs, mutants, hazards and theorems, and maps every definition to the lines it models.

## The system

A Home Assistant *config entry* stands for one charger, reached over the LAN
through a single connection. Its parts:

| Part | State it keeps | Operations | What makes it correct | Modelled in |
|---|---|---|---|---|
| Decision layer: `charge_gates.py`, `surplus_decision.py` | `TimerState`: two delay candidates, two cooldown stamps, the last protection cut, the last surplus stop | `evaluate`: the first of twelve gates that decides gives the verdict and may advance the timers | the order of the gates; no write above the cap; one ladder step at a time; delays served in full | `ChargeGates` |
| Controller: `solar_surplus.py` | timers, force charge and pause deadlines, `_session_active`, the evaluation task and its rerun flag, session energy, forecast average, charge curve | schedule, evaluate, apply one verdict by one or two writes, force, pause, settings, dry run, shutdown, restore | decisions on stale snapshots recover; no request is lost; a veto and a cap are obeyed | `SurplusController`, `GateInputs`, `ControllerMemory` |
| Caps: `surplus_caps.py`, `preemption.py` | the reservation table | the tighter of the house and inverter limits, less reserved power | the house stays within its limits though meters lag; a reservation ends | `SensorReader`, `GateInputs` |
| Reader: `surplus_reader.py`, `surplus_metrics.py` | the battery hysteresis flag | read power, battery, veto, off-peak | the veto fails closed, tariffs fail open | `SensorReader` |
| Settings: `surplus_settings.py`, `helpers.py` | none | parse options; the ladder of currents offered | limits narrow the ladder, never to nothing | `CurrentLadder`, `SensorReader` |
| Planner: `charge_planner.py`, and the learnt rate and curve: `vehicles.py`, `charge_curve.py` | the curve | off-peak, deadline, critical peak | a reachable deadline is met, once forced it is held | `TariffPlan` |
| Client: `tuya_ev_charger.py` | the device, its I/O lock, the reconnect flag | write and verify by read-back, read, connect, close | one user of the device at a time; a stuck thread cannot undo a later command; every call ends | `TuyaClient` |
| Coordinator: `coordinator.py`, `polling.py` | the last snapshot, failure counters, release deadline, cached fault, running relocation | attempts to set up, poll, retry, relocate, refresh the key, release and resume | a loan is disturbed only by what it found under way; the user is asked for a key as the last resort; the device fits the address last learnt; the link recovers | `Coordinator`, `LinkRecovery` |
| Saved state: `controller_state.py`; setup, reload, stop: `__init__.py` | the store | save after 10 s, restore, unload | a restart changes nothing the user asked for | `ControllerMemory`, `Restarts` |
| Session log, cost, anomalies: `session_*.py` | the log and the last signature | record, prime, split, bill, compare | each session once; no false alarm; billed at the price it was allowed at | `SessionAccounts`, `SessionReports` |
| Vehicle tracker: `vehicles.py` | totals and the last counter | attribute, select | no energy is credited that was not delivered | `SessionAccounts` |
| Configuration check: `config_diagnosis.py` | none | name the features that can do nothing | what is reported does nothing; what is not reported works | `SessionReports` |
| Switches, entities, forms, discovery, cloud, `qccdz_session.py` | the pending state of a switch | single writes, forms, reports | - | not modelled, see the end |

How they interact. Sensors and the coordinator call the controller's listeners,
which only schedule: at most one evaluation task runs, and a request that finds it
running sets `_rerun_requested`. An evaluation reads `coordinator.data` and the
sensors without awaiting, consults the gates and then carries out one verdict; each
write awaits the client, which retries and reads back for seconds, and is followed
by a refresh of the coordinator, whose listeners schedule again. Everything else
may happen in those awaits: the app or the car may start or end the charge, the
sensors may change, the user may pause, force, change options or unload. Every call
to the charger, whoever makes it (a poll, a write, a relocation, a loan of the
connection), waits for one lock in the client and does its I/O in a thread that
cannot be interrupted.

The hard parts are the awaits (a decision carried out on data that has changed),
writes whose reported outcome and effect differ, timers that survive from one mode of
regulation into another, flags that stand for the charger's state, threads that
outlive their time-outs, and the points at which a crash loses what was not saved.

## The modules

| Module | What it is |
|---|---|
| `ChargeGates` | the pure layer: timers, ladder arithmetic, one operator per gate, `Gates` the order, `Decides` when a gate does not defer, `Evaluate` the verdict |
| `SurplusController` | the controller and its world: one action per handler and per await |
| `EvaluationPromise`, `SchedulerRefinement` | what the scheduling of evaluations promises its callers, and the mapping under which the task with its rerun flag implements it |
| `ContactorSpacing` | history variables over the controller: time since a surplus stop and since a regulated start |
| `ControllerLiveness` | the fairness assumptions and what they give |
| `RegulationClaims` | claims of comments and the README that the code does not keep, with the history each needs |
| `TuyaClient` | the lock, threads, time-outs, read-backs and cancellation, and a charger that obeys and reports late |
| `WritePromise`, `ClientRefinement` | what the client promises to whoever writes, without lock, threads, read-backs and reconnections, and the mapping under which `TuyaClient` implements it |
| `Coordinator` | the poll and everything it tries, the background relocation, the loan: extends `TuyaClient`, whose calls it makes |
| `LinkRecovery` | history variables over the coordinator, and its safety properties |
| `ControllerMemory` | deadlines, the session flag and counters: in memory, on disk and on the way between the two |
| `SessionAccounts` | `ControllerMemory` with the charger's counter and record, the session log and the vehicle tracker, across setup, unload, stop and crash |
| `Restarts` | history variables over it: what was asked for, what was delivered, what was inherited |
| `CurrentLadder` | the currents offered, from the hardware and the installation's limits |
| `SensorReader` | sensors, inversion, unreadable values, the surplus, both caps, reservations, the battery flag |
| `TariffPlan` | windows across midnight, time needed by curve or rate, the plan |
| `GateInputs` | all of these feeding `ChargeGates!Evaluate`: a household, its meters and the app around one controller whose writes succeed |
| `SessionReports` | cost, split, anomalies and configuration problems over the same households |
| `MC*` | the instances TLC checks |
| `*Proofs` | lemmas and theorems about the module of that name; `SurplusControllerProofs` and `TuyaClientProofs` hold those about the two refinements, `DeadlineProofs` those about departures, over `GateInputs`; `ChargeGatesProofs` also has the facts on extremes of finite sets, and `GateInputsProofs` is about everything from the sensors to the reports: `CurrentLadder`, `SensorReader`, `GateInputs` and `SessionReports` |

The controller appears twice, on purpose. `SurplusController` has every await, failed
write and mode, and takes the sensor readings as an input; `GateInputs` has the whole
way from the sensors to the gates, and takes each evaluation as one step. They share
`ChargeGates`, so that what is proved of a verdict holds in both. In the same way
`Coordinator` takes commands as something `TuyaClient` has already dealt with, and
`SessionAccounts` takes a verdict (`hold`, `start`, `stop`) as an input.

**Time.** The code stores timestamps and only ever asks whether `now - stamp` has
reached a delay. The models store the age itself, which stops growing at the delay
it is compared with, so `Tick` ages everything and the state space is finite. A
stamp that was never set behaves as one that is old enough. The code takes `now`
before its awaits and stamps after them: in `SurplusController` `job.age` counts the
ticks in between and `StampedAgo` gives the stamp that age. `ControllerMemory` has two
clocks: a deadline is the time left by the monotonic clock in memory and by the wall
clock on disk, and only the second can jump. `GateInputs` counts ticks of a day of
`Day` ticks up to `Horizon`.

**The evaluation task.** `pc` is where it stands: `idle`, `ready`, awaiting a
write (`set`, `enable`, `disable`) or a refresh (`setRefresh`, `refresh`). `job` is
what the Python frame holds across the await: verdict, snapshot and cap. A START is
`set` (unless the charger has the setpoint), `enable`, `refresh`; a SET is `set`,
`setRefresh`; a FORCE is `set`, `setRefresh`, and then `enable`, `refresh` when the
charger was idle; a STOP is `disable`, `refresh`. `FirstStep` is the early returns
of `_async_apply` and the methods it calls.

**Writes.** `WriteSetpoint(applied, ok)` and its siblings take what the charger did
and what the client reported as two independent inputs: a data point that is never
echoed is reported done, a late echo is reported failed (`TuyaClient` is where this
comes from). A raised exception ends the evaluation as a reported failure does. A
charger that reports its operating state instead of the switch takes seconds to be seen
charging after an enable: that is an enable not obeyed at first, followed by the charger
starting by itself.

**The client.** A call waits in `waiting` for `holder`; the holder's I/O is `thread[t]`,
which `Obeys` lets reach the charger at any moment before it returns. `TimesOut` forgets
the device and marks the thread `overdue`; `StuckCloses` is the return of the close that
follows, which the code awaits without a limit (`tuya_ev_charger.py:153`), and makes the
thread fail. `Cancel` can do no such thing, and leaves an orphan in `orphans`; closing or
rebuilding the client may end the orphans or, when the close is itself abandoned after
`IO_TIMEOUT_S`, leave them (`OrphansEnd`). `Replied` is every reply to every stage of a
call, including the read-backs of `_async_verify_command`.

**The promise of a write.** In `WritePromise` the holder and those that wait are one
`line`, served from its head. A command may write its value once, while it is served;
its answer ends that, and only what a cancelled task had under way may still come
(`strays`). The answer is independent of whether the value arrived, which is what
`SurplusController` assumes of every write with its `applied` and `ok`.

**The poll.** `pc` of `Coordinator` is what `_async_update_data` awaits; the operators
`TryRediscoverHost`, `TryRefreshLocalKey`, `GiveUp`, `Judge` are the rest of it from one
point on. `real` is where the charger is and which key it has; only a device built with
that address answers. Until a first poll has succeeded there is no coordinator to poll
again: the set-up fails with `ConfigEntryNotReady` and is tried anew, and `SetUpEntry`
begins each attempt with a client for the stored address (`entry`) and fresh counters.
Cooldowns that never started count from the loop's zero, hence `uptime`. `LinkRecovery`
keeps two histories that the coordinator does not: of the key, since when and over how many
polls no success and no other diagnosis has spoken against a wrong one and whether the client
was rebuilt meanwhile (`suspect`, `polls`, `rebuilt`); of the loan, what it found under way
and whether that rebuilt the client (`caught`, `retaken`).

**Restarts.** `CrashAnywhere` falls between any two steps, also between the two awaits
of a poll that log a session and track its energy; `HomeAssistantStops` writes the saves
that are due and unloads nothing; `Unload` saves. The record of the last session is
identified by what it reads as (`Signatures`): two charges may read alike.

**Abstracted.** Decision reasons, traces, debug figures, `regulation_active` and the live
price decide nothing. The minimum run time and the session limits are fixed at "off" by
`solar_surplus.py` and left out. In `SurplusController` the ladder and the restart lock,
live options in the code, are constants. A missing snapshot (`coordinator.data is None`)
does not occur there: setup requires a first refresh. The deferral of
`_schedule_evaluation` through the event loop is part of `ready`. Watts, amperes and
kilowatt-hours are small integers with `WattsPerAmp` and rates chosen to divide.

## What the runs check

| Run | Shows | Bounds |
|---|---|---|
| `ctl` | `TypeOK`, `SetpointWithinCap`, `RampIsGentle`, `VetoStartsNothing`; `PromiseKept`, the refinement of `EvaluationPromise` | ladder {1, 3, 4}: a gap to skip and one to land in; six readings: sun, too little sun at peak hours, a tight cap, an exhausted cap, the veto, an empty battery off-peak; surplus and cap-only modes; a force charge above the tight cap; the app raising the setpoint; polls that omit it. Delays of one tick for the up-cooldown and the protection hold, none for the others: those are `contactor`'s subject |
| `contactor` | `CandidatesAreRecent`, `RestsBeforeSurplusStart`, `RunsBeforeSurplusStop` | start, stop and restart delays of 2 ticks, so that each has a middle; two currents; three modes, pauses, force charges, grid readings that go missing |
| `liveness` | `VetoedChargeEnds`, `CapIsObeyed`, `SunIsUsed` | two currents; sun, dusk, exhausted cap, veto; delays of one tick |
| `client` | `TypeOK`, `Serialised`, `LateWritesHarmless`, `EveryCallEnds`; `WritesKeepPromise`, the refinement of `WritePromise` | three tasks, one of which can be cancelled; two values; three read-backs, so that one can be wrong, one absent and one left |
| `link` | `CoordinatorTypeOK`, `LoanIsQuiet`, `BuiltForAddress`, `ReauthIsLastResort` | poll, relocation and loan; with and without cloud credentials; two hosts and two keys; cooldowns of one tick, a grace of two ticks and two failures, so that either can be the last to be reached; loans of one tick, of which several may follow |
| `recovery` | `LinkRecovers` | the same without a timed loan, which the property excludes in the end (`resume` stays), and with a grace of one tick |
| `restart` | `MemoryTypeOK`, `AccountsTypeOK`, `DeadlinesStand`, `LogInOrder`, `NoInventedSession`, `CreditIsEarned` | one deadline of a tick (longer ones are `DeadlinesKept`); two charges that may read alike; a counter of at most one; one vehicle and nobody; a log of one session, so that the bound is met |
| `inputs` | `LimitsHold`, `ReservationsEnd`, `DryRunDecidesNothing`, `DeadlineIsMet`, `DeadlineChargeHolds`, `LadderKeepsOne`, `ProblemsAreInert`, `AlarmsAreEarned`, `BilledAsAllowed`, `InputsTypeOK` | one initial state per household: two appliances with an inverter's limit and lagging meters, one with its grid meter inverted; sun, clouds and a battery with its thresholds either way round; a forecast with a dead meter; departures that need 4 to 20 units in hours that are all peak or mostly off-peak, cars slower than the charger, cars that taper; the ladders of 216 chargers; settings that can do nothing; every history of up to four sessions of five kinds, or three of two cars. Two days of eight ticks |
| `claims_foreign`, `claims_pause`, `claims_start_delay`, `claims_split` | each finds the finding of its name | one current, two readings at most; `claims_split` is `restart`'s instance |

Two ladder steps up are the least on which a ramp can go wrong, a gap the least on
which it can leave the ladder. One charger and one evaluation task are all there is.
Writes in flight are unbounded in time, as are failures. Time can always pass in all
models but one, so that they have no deadlock to find: that nothing waits for ever is the
subject of the liveness properties. `inputs` ends at its horizon and does not check for
deadlock.

Some properties have conditions that are worth knowing:

- `SetpointWithinCap` is about the cap the decision was taken on. The present cap may
  have shrunk while the write was on its way: nothing in the code prevents that, and
  `CapIsObeyed` says that it is put right. `LimitsHold` is its counterpart in watts, when
  no evaluation is due, the meter is readable and the car may take any current at all; it
  holds through the delay of the meter only for appliances that announce themselves, and
  only as long as the meter catches up within the reservation window (a guard of `Tick`,
  an assumption on the meter).
- `LateWritesHarmless` needs that no task was cancelled: an unload cancels the task that
  writes, and its thread goes on with the device while the lock is free (see the hazards).
- `LoanIsQuiet` is what the code keeps of a loan, which is less than its documentation
  promises (see the remarks): no poll begins, the client is closed and every write refused
  until a task the loan found under way rebuilds the client. A poll found under way may
  knock and probe, which opens the charger's slot, and like a relocation, its own or the one
  it starts, it may rebuild the client. A task is recorded when the loan begins, from what
  it is doing then, and loses the privilege when it ends.
- `ReauthIsLastResort` is measured by the diagnoses that were made and the polls that
  succeeded, not by what the coordinator remembers of them: the charger was diagnosed
  undecryptable the grace period ago or before, and no later diagnosis and no poll has
  refuted it. It does not say that every poll in between was undecryptable.
- `DeadlineIsMet` is for a charger left at the highest current offered, which is what the
  plan assumes, and up to one tick's draw.
- `DeadlinesStand` has a crash lose what was not yet saved, and takes a jump of the wall
  clock while the entry is down for time that passed: nothing else can be known then.
- `LinkRecovers` is about a charger that stays put and is not lent, and whose wrong key is
  diagnosed as one when it is asked at its host (`Diagnosed`); it ends in an answered poll
  or in a request for the key. It excepts `StuckSetUp`: without cloud credentials a set-up
  whose key was changed is tried for ever.

### Fairness

`ControllerLiveness` assumes, and the code gives reason to:

- the event loop runs a ready task, and time passes: `WF(EvaluateOnce)`, `WF(Tick)`;
- every write and every refresh ends: the client bounds each I/O call
  (`IO_TIMEOUT_S`) and the number of read-backs (`COMMAND_VERIFY_RETRIES`), which
  `EveryCallEnds` shows to be enough: `WF(Writes)` and `WF` on `Refreshed`;
- the coordinator polls on an interval and goes on doing so, and a poll succeeds now
  and then: `WF(CoordinatorUpdate(TRUE))`;
- a kind of write that is tried over and over is obeyed and confirmed now and then:
  `SF` on each of the three. Nothing less can make a charger stop.

Nothing is assumed of sensors, the app, or the user; a property that needs a lasting
condition says so (`<>[]`). Polls include the setpoint in this run: a charger that
never reports it cannot be brought down, as `_gate_protection_reduce` has nothing to
compare the cap with.

`TuyaClient!FairSpec`: weak fairness of what the lock's holder does next, whatever that
is. The event loop resumes it, its I/O ends or times out, and closing a socket returns,
which the code does not limit after a time-out. Nothing is assumed of the charger: it may
time out every time.

`Coordinator!LinkSpec`: set-ups and polls are scheduled after each other unless the last
raised `ConfigEntryAuthFailed`; the client's calls and the relocation end; time passes (all
`WF`). A charger that is there and is asked over and over answers, and is heard by a scan;
one that is asked at its own host opens its port, and its key is found in the cloud if there
are credentials, now and then: `SF` on the successful outcome of each. Without these the
network alone could keep the link down for ever.

## What is proved

Under the named assumptions on the constants only: any ladder, delays, thresholds with
stop at most start, sets of inputs; any number of tasks, addresses, values and
read-backs; any number of charges, vehicles and deadlines; any charger, household, limits,
sensors and histories of sessions. The assumptions say what the code's types and constants
say: Python's `None` is neither a number, an answer, a call nor a fault; a host and a key are
independent, so that each may change alone (`CoordinatorAssumption`); appliances are
finitely many and their window lasts some time (`ReaderAssumption`); the checks on sessions
look at enough of them for each other (`ReportAssumption`).

- `ChargeGatesProofs` shows of a single decision that it yields a well-typed
  verdict, that the current it names is on the narrowed ladder, that an adjustment
  up skips none, and that under a veto it is IDLE or STOP (`VerdictSound`). A gate
  is one case of the proof; `FirstDecidingExists` and `VetoesComeFirst` handle the
  order. The least-number principle that finds the first deciding gate's and the
  ladder's extreme elements comes from the pigeonhole theorem on finite sets
  (`LeastExists`), no induction over an operator being available.
- `SurplusControllerProofs`: `IInv` is `TypeOK`, `SetpointWithinCap` and
  `RampIsGentle`. It is inductive as it stands, because `job` carries the snapshot
  and cap it was decided on, and what is left to show of the other actions is that
  they keep `job`. `TypeCorrect`, `CapRespected` and `RampWalked` follow;
  `VetoObeyed` is the action property, by `VerdictSound` under the invariant.
  `SchedulerKeepsPromise`: every step of the controller is a request, a beginning, an
  end or a stutter of `EvaluationPromise`; beyond the types it needs that no evaluation
  is under way once the controller is shut down (`NoneAfterShutdown`).
- `ContactorSpacingProofs`: the spacing invariants are not inductive: they hold
  because the candidates in `timers` are no older than the history allows.
  `CandidatesAreRecent` says it, with one conjunct per stamp; together with the
  types it is inductive, and `RestIsServed` and `RunIsServed` follow from it at the
  moment of the decision.
- `TuyaClientProofs`: mutual exclusion needs that a thread runs for a call
  (`ThreadsServeCalls`): a task that calls nothing has none, so that a new call cannot
  take over someone's thread, and a thread that writes carries the value of its task's
  command, so that what reaches the charger is what the holder asked for
  (`DeviceIsSerialised`, `StuckWritesAreHarmless`). A command that is read back has
  read-backs left, which the type of the countdown needs. The fairness of the run is
  not needed: the theorems are about `Spec`.
  `ClientKeepsPromise` is the refinement of `WritePromise`. It needs that whoever holds
  the lock or waits for it has a call and stands in line once (`InLine`), so that a
  task that is cancelled leaves one place and the others keep theirs
  (`AcquireStandsLast`, `ReleaseMovesUp`, `LeaveKeepsOrder`); and that a thread which
  writes belongs to a command that is not yet being read back (`WritesFirst`), so that
  what reaches the charger was still to be written and is written once.
- `RestartsProofs`: `DeadlinesKept` rests on `FileIsGood` (the file says what is due
  unless it is behind, and it is not behind while the entry is down); `LogOrdered` and
  `NoneInvented` on `RecordIsAhead`: the record the charger reports moves only to later
  charges, and the newest session of the log is older than it or is the one the signature
  was taken from. That two charges may read alike is the reason why the invariant speaks
  of the signature at all.
  `CreditEarned` rests on `CounterIsCovered`: the counter is never further ahead of the
  last reading than what was delivered since. No sum over the vehicles is needed once the
  property speaks of each vehicle's credit.
- `LinkRecoveryProofs`: every step of the coordinator is a step of its client
  (`CoordinatorIsAClient`), so the client's invariant holds under it, `LateWritesHarmless`
  with it. To it `LoanInv` adds whose call is whose (`CallsAreOwn`: a poll that is not
  awaiting the client has no call, and each task makes calls of its own kinds), that what is
  under way during a loan is what the loan found or that led to (`LoanHasCaught`), and that
  a client closed for a loan stays closed until one of them has rebuilt it (`StaysClosed`):
  a thread needs a device, a device a rebuild, and a rebuild a task that is caught.
  `LentIsQuiet` and `DeviceFitsAddress` follow. `ReauthIsLast` rests on `RunIsCounted`: what
  the coordinator remembers of a suspect key (`_undecryptable_since`, `_reconnect_tried`,
  `_consecutive_failures`, `_last_fault`) never exceeds the history of diagnoses and polls,
  at every await of a poll: a cached "undecryptable" is no diagnosis of its own and cannot
  begin a run, because nothing that refutes it leaves it in the cache.
- `GateInputsProofs`, about any household:
  - `LadderIsKept`, by the extremes of finite sets: the presets of a charger have no upper
    bound to argue from.
  - `InputsTyped`: every value on the way from the sensors to the verdict, and what an
    evaluation leaves behind of it. Its conjunct on the thresholds is that of the property.
  - `AskingIsFree`: the battery flag, the reservations and with them the whole sight are the
    same at a second look (`FlagSettles`, `ObservedTwice`, `SightSettles`), for which the
    two thresholds must not cross.
  - `LimitsAreKept` and `ReservationsDoEnd`. `LimitsInv` adds to the types that a listed
    appliance was announced when it was switched on (`AnnouncedInStep`), that the meters
    miss only appliances whose reservation lasts (`MetersLagBriefly`), and that only
    appliances that may be switched are on. Then every watt of the house is metered or
    reserved (`WattsCovered`), the cap leaves room for the car (`CapFits`,
    `CapIsTightest`), and no verdict of the gates leaves a setpoint above
    the cap (`DecisionIsSound`, from `VerdictSound`). Both theorems have a hypothesis,
    `AppliancesAreSeen`: either no appliance is switched, or the load sensor stays
    readable. Without it they are false, see the remarks below; with it the sensors may
    still die, the grid meter among them.
  - `ReportedIsInert`: both directions between the check of the settings and the caps, the
    reader and the planner it speaks of.
  - `AlarmsHaveCause`: with the existence of a median (`MedianExists`) and of the best
    session (`BestIsDemonstrated`), and the margins of the two percentages, which is where
    the condition that a rate be more than the unit of rounding comes from.
  - `SessionIsBilled`: the walk counts the ticks the tariff allowed (`SplitIsAllowed`), and
    what two amounts cost at two prices lies between the prices' bounds (`WeightedCost`).

- `DeadlineProofs`: `DeadlineIsKept` and `DeadlineChargeIsKept`, with hypotheses, because
  neither holds of every household: a departure is missed under a veto, a cap, a critical
  peak (in which not even a forced charge runs) or a charger that is too slow. They are
  `NothingHinders` (no surplus mode, no cap, no veto, no critical peak, readable hours) and
  `RateIsKept` (a car of one rate that is no less than the plan assumes), both for the whole
  behaviour, and `TimeSuffices` (the first departure is not too near); for the second
  theorem `CurveAgrees` (the learnt curve asks for no more time than the rate) in its
  place. Among the run's households the commuters of the peak hours satisfy them, also the
  one whose car draws less than the charger gives.
  The argument is `InTime`: what is missing can still be charged in the time that remains,
  and after an evaluation the car is charging or can wait a tick. A tick of charging keeps
  it (`TickLeavesTime`), a tick of waiting does because the plan forces the charge as soon
  as it would not (`WaitingIsCheap`, from `PlanDecides` on). That needs the tally never to
  run ahead of what was charged (`TallyIsCovered`, `SampledInStep`), and the learnt rate
  never to fall below what was assumed (`RateNeverFalls`). `StillForced` is the same from
  the other side: what forced a charge still does, until less than a tick's draw is left
  or the rate turns out higher. Of the curve, a sum over its buckets, the proof needs only
  that its time is a time and that the plan takes the longer one (`CurveOnlyLengthens`):
  `TariffPlan` sums by counting so that this much can be proved (`PartsAreFinite`).

Every safety property of the passing runs is stated by a theorem. Only model-checked are
the five liveness properties, which are beyond the prover; what the curve's sum amounts to,
which would take an induction over data; and the two deadline properties outside the
hypotheses above, for the run's tapering cars, off-peak hours and households with a cap or
a mode. The claims of `RegulationClaims` and `SplitIsNotStale` are refuted by TLC, not
proved about.

## Findings

1. `PauseSparesForeignCharge`: the session flag outlives the charge it was set for,
   so a pause stops a charge that the app started.
2. `PauseKeepsChargeStopped`: in an off-peak window with cap-only regulation, the
   tariff gate (which decides while idle) and the pause gate (which decides while
   charging) undo each other's writes at every evaluation.
3. `StartDelayServedInFull`: gates before `_gate_start` leave the start candidate
   as it is, so a dip during a pause does not reset the start delay.
4. `SplitIsNotStale`: the off-peak split of the controller's last session is attached to
   the next session too, when that one was started from the app or the flag of the last
   one was never cleared.

Remarks that are no findings, met while modelling:

- When the charger itself offers no current, as opposed to a cap that leaves none,
  `_gate_no_currents` idles before the external veto is consulted, so a running charge
  is not vetoed then. `VetoStartsNothing` promises that nothing is started, not that a
  charge ends.
- A start by the tariff keeps the setpoint the charger has, while the plan assumes the
  highest current offered.
- The deadline has no hysteresis, and the learnt rate no margin but a factor: a charge
  it forced may be given up and forced again when the car draws more than was assumed
  (the last disjunct of `DeadlineChargeHolds`). The time by the curve is rounded up at
  every evaluation, so that it may also drop by more than the time that passed.
- `_session_energy_kwh` is not reset at a departure: a car that leaves and comes back
  within one session has its old energy counted towards the next deadline (`carried`
  in `DeadlineIsMet`).
- `_record_curve_sample` files a sample under the energy after the increment, where its
  comment speaks of the energy before it.
- A forecast blended into the surplus can start a charge that the sun alone would not.
- An appliance that is switched off and on while the load sensor is unreadable keeps the
  date of its first announcement, because `inverter_limit_current` returns before it looks
  at the appliances (`surplus_caps.py:122`); its reservation may be over while the meters do
  not show it yet, and the inverter is overloaded for as long. A household whose load sensor
  dies violates `LimitsHold` in this way; the cases of `inputs` have none.
- A switch refuses a second toggle by comparing with the last snapshot, which may be old.
- With a vehicle chosen, the anomaly check compares everyone's latest sessions with the
  best of that vehicle.
- The log is primed by the first *new* record of a run, not by its first poll
  (`coordinator.py:419-441`): when the record is still the one seen before the restart, the
  next session that is completed only primes, and is never logged.
- `release_connection` promises that the socket is closed and stays so until the loan is
  over (`README.md:698`, `coordinator.py:303-310` and the comment at 341-344). A poll it finds
  under way goes on, knocks, probes and may rebuild the client; so may a relocation, which has
  no look at the loan; after either, writes go through again and hold the slot.
- The comment at `coordinator.py:181` and `CHANGELOG.md:363` speak of several polls in a row
  that were undecryptable. `_consecutive_failures` counts failures of any kind; a diagnosis
  within the cooldown is counted again without being made (`coordinator.py:262-267`), and an
  older one stands when a new one raises; the time of a loan counts towards the grace; and
  the read after the rebuild may fail in any way. A few diagnoses, five minutes apart, among
  failures that were not examined are therefore enough to end in the request for a key.
- `CHANGELOG.md:780` has a rotated key lead to the "Reconfigure" banner. When the key was
  changed before the first poll of a run, and without cloud credentials, every set-up begins
  its counts anew (`__init__.py:244-272`, `coordinator.py:552-554`) and the banner never comes.
- A local key that was refreshed at run time is not stored in the entry, and each sample
  of the session puts the delayed save off again.

## Plan

Done: all modules of the table above, and theorems for every safety property of the
passing runs. What is left, in this order:

1. The composition of `SurplusController` and `TuyaClient`: the write's two outcomes as
   the steps of `WritePromise`, with the stray of a shutdown.
2. The parameters of `SurplusController` that are live options in the code: the ladder
   and the restart lock.
3. The deadline with a curve that tapers, which needs the sum over its buckets.
4. The poll interval and the session clock of qccdz chargers.

## Not modelled

- `qccdz_session.py`: it derives the record by which the log tells sessions apart;
  `SessionAccounts` takes the record as what the charger reports.
- Switches and the other entities: they read the snapshot and issue single writes, which
  `SurplusController` has as the app's and the user's. The pending state of a switch
  decides nothing.
- Forms, texts, diagnostics and constants; the sign and phase detectors, which report.
- Discovery, the cloud, and the decoding of data points: network I/O and payloads; their
  outcomes are inputs of `Coordinator`.
- The address and key that a first success writes back to the entry: `entry` keeps what was
  stored. The cooldown of the key starts where the knock ends, a moment after the code
  stamps it.
- The poll interval and the latency figures of `polling.py` and `coordinator.py`.
- The update listener, service registration, migrations and entity clean-up of
  `__init__.py`; the store of the curves, and more than the active vehicle's curve.
- Clamps of numeric options, each of which stands alone, and unit conversion.
