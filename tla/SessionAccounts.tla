---------------------------- MODULE SessionAccounts ----------------------------
(***************************************************************************)
(* Sessions across restarts: the charger that counts and reports them, the *)
(* coordinator that logs them (session_history.py) and credits their       *)
(* energy to a vehicle (vehicles.py) after each good poll, the controller  *)
(* that samples them (ControllerMemory), and the entry that sets all three *)
(* up again after a reload, a stop or a crash (__init__.py).               *)
(*                                                                         *)
(* The charger has no session numbers: it reports the duration and the     *)
(* energy of the session that ended last, here its signature.  The log and *)
(* the tracker write their files as part of the step that changes them.    *)
(***************************************************************************)
EXTENDS ControllerMemory, SequencesExt

CONSTANTS
  MaxEnergy,  \* bound on the session counter
  Signatures, \* what a finished session reads as
  Vehicles,   \* the configured vehicles, in order
  MaxSessions,\* MAX_SESSIONS
  None

ASSUME AccountsAssumption ==
  /\ MaxEnergy \in Nat /\ MaxSessions \in Nat \ {0}
  /\ Vehicles \in Seq(STRING) /\ Vehicles # << >>
  /\ None \notin Signatures

VARIABLES
  charge,    \* the charger: the last charge begun, whether it runs, its counter
  connected, \* a vehicle is plugged in
  record,    \* the last session it reports: which, and what it reads as
  counting,  \* a poll has credited the counter and is about to look at the record
  primed,    \* _session_log_primed
  signature, \* _last_signature
  log,       \* _sessions: each with the charges its split was sampled from
  tracker    \* the active vehicle, the totals, the last counter

accountVars == << charge, connected, record, counting, primed, signature, log, tracker >>

Car == {Vehicles[i] : i \in DOMAIN Vehicles}

AccountsTypeOK ==
  /\ charge \in [id : Charges \union {0}, on : BOOLEAN, energy : 0..MaxEnergy]
  /\ connected \in BOOLEAN
  /\ record \in [id : Charges \union {0}, reads : Signatures \union {None}]
  /\ counting \in BOOLEAN
  /\ primed \in BOOLEAN
  /\ signature \in Signatures \union {None}
  /\ log \in BoundedSeq([id : Charges, split : SUBSET Charges], MaxSessions)
  /\ tracker.active \in Car \union {None}
  /\ tracker.last \in (0..MaxEnergy) \union {None}
  /\ tracker.totals \in [Car -> Nat]

-----------------------------------------------------------------------------
(* The charger, the car, the app. *)

Begin ==
  /\ charge.id + 1 \in Charges
  /\ charge' = [id |-> charge.id + 1, on |-> TRUE, energy |-> 0]

\* Two sessions may read alike.
End ==
  /\ charge' = [charge EXCEPT !.on = FALSE]
  /\ \E reads \in Signatures : record' = [id |-> charge.id, reads |-> reads]

AppStarts ==
  /\ connected /\ ~charge.on
  /\ Begin
  /\ UNCHANGED << memoryVars, connected, record, counting, primed, signature, log, tracker >>

\* Full, or stopped in the app.
EndsByItself ==
  /\ charge.on
  /\ End
  /\ UNCHANGED << memoryVars, connected, counting, primed, signature, log, tracker >>

Delivers ==
  /\ charge.on /\ charge.energy < MaxEnergy
  /\ charge' = [charge EXCEPT !.energy = @ + 1]
  /\ UNCHANGED << memoryVars, connected, record, counting, primed, signature, log, tracker >>

Plugged ==
  /\ ~connected /\ connected' = TRUE
  /\ UNCHANGED << memoryVars, charge, record, counting, primed, signature, log, tracker >>

Unplugged ==
  /\ connected /\ connected' = FALSE
  /\ IF charge.on THEN End ELSE UNCHANGED << charge, record >>
  /\ UNCHANGED << memoryVars, counting, primed, signature, log, tracker >>

-----------------------------------------------------------------------------
(* What a good poll does besides reading (_async_on_metrics).              *)

\* Mutant of Credited: the first reading counts as charged.
CreditedFromZero(t, counter) ==
  LET delta == IF t.last = None THEN counter ELSE IF counter < t.last THEN 0 ELSE counter - t.last
  IN  [t EXCEPT !.last = counter,
                !.totals = IF t.active = None THEN @ ELSE [t.totals EXCEPT ![t.active] = @ + delta]]

\* Mutant of Credited: a reset counts as a negative charge.
CreditedNegative(t, counter) ==
  LET delta == IF t.last = None THEN 0 ELSE counter - t.last
  IN  [t EXCEPT !.last = counter,
                !.totals = IF t.active = None THEN @ ELSE [t.totals EXCEPT ![t.active] = @ + delta]]

\* The rise of the counter, nothing for a first or a falling reading.
Credited(t, counter) ==
  LET delta == IF t.last = None \/ counter < t.last THEN 0 ELSE counter - t.last
  IN  [t EXCEPT !.last = counter,
                !.totals = IF t.active = None THEN @ ELSE [t.totals EXCEPT ![t.active] = @ + delta]]

TrackVehicleEnergy ==
  /\ up /\ ~counting
  /\ counting' = TRUE
  /\ tracker' = Credited(tracker, charge.energy)
  /\ UNCHANGED << memoryVars, charge, connected, record, primed, signature, log >>

\* Mutant of IsNewSession: compared with nothing.
AnySession == record.reads # None

\* None also stands for a session without time and energy.
IsNewSession == record.reads # None /\ record.reads # signature

\* What the controller's counters say of the session that has just ended; {} leaves the
\* split to the configured windows.
SessionOffPeakSplit == tally

BuildSessionRecord == [id |-> record.id, split |-> SessionOffPeakSplit]

\* Mutant of Logged: the record that is found after a restart is logged like any other.
LoggedUnprimed ==
  log' = SubSeq(<< BuildSessionRecord >> \o log, 1,
                IF Len(log) < MaxSessions THEN Len(log) + 1 ELSE MaxSessions)

\* The first new record of a run is only noted: it may be weeks old.
Logged ==
  log' = IF ~primed THEN log
         ELSE SubSeq(<< BuildSessionRecord >> \o log, 1,
                     IF Len(log) < MaxSessions THEN Len(log) + 1 ELSE MaxSessions)

LogCompletedSession ==
  /\ up /\ counting
  /\ counting' = FALSE
  /\ IF IsNewSession
     THEN signature' = record.reads /\ Logged /\ primed' = TRUE
     ELSE UNCHANGED << signature, log, primed >>
  /\ UNCHANGED << memoryVars, charge, connected, record, tracker >>

\* The user picks the vehicle, or corrects a total.
SetActiveVehicle ==
  /\ up
  /\ \E v \in Car : tracker' = [tracker EXCEPT !.active = v]
  /\ UNCHANGED << memoryVars, charge, connected, record, counting, primed, signature, log >>

SetTotal ==
  /\ up
  /\ \E v \in Car : tracker' = [tracker EXCEPT !.totals[v] = 0]
  /\ UNCHANGED << memoryVars, charge, connected, record, counting, primed, signature, log >>

-----------------------------------------------------------------------------
(* The controller.  A write that it takes for done may have come to nothing. *)

Evaluate(verdict, obeyed) ==
  /\ up /\ ~counting
  /\ verdict = "start" => ~charge.on
  /\ verdict = "stop" => charge.on
  /\ SessionAfter(charge.on, connected, charge.id, verdict)
  /\ CASE verdict = "start" /\ obeyed -> connected /\ Begin /\ UNCHANGED record
       [] verdict = "stop" /\ obeyed -> End
       [] verdict = "hold" \/ ~obeyed -> UNCHANGED << charge, record >>
  /\ UNCHANGED << up, until, stored, connected, counting, primed, signature, log, tracker >>

-----------------------------------------------------------------------------
(* The entry.                                                              *)

\* async_setup_entry: the first refresh is over before the log and the tracker are there.
Setup ==
  /\ ~up /\ up' = TRUE
  /\ tracker' = [tracker EXCEPT !.active = IF @ \in Car THEN @ ELSE Vehicles[1]]
  /\ Restore
  /\ UNCHANGED << charge, connected, record, counting, primed, signature, log >>

\* A poll under way ends first; only a crash leaves it half done.
Unload ==
  /\ ~counting
  /\ Shutdown
  /\ primed' = FALSE
  /\ UNCHANGED << charge, connected, record, counting, signature, log, tracker >>

HomeAssistantStops ==
  /\ ~counting
  /\ FinalWrite
  /\ primed' = FALSE
  /\ UNCHANGED << charge, connected, record, counting, signature, log, tracker >>

CrashAnywhere ==
  /\ Crash
  /\ counting' = FALSE /\ primed' = FALSE
  /\ UNCHANGED << charge, connected, record, signature, log, tracker >>

-----------------------------------------------------------------------------
NewTracker == [active |-> None, totals |-> [v \in Car |-> 0], last |-> None]

\* Installed on a charger that has a history of its own.
Init ==
  /\ MemoryInit
  /\ charge \in {[id |-> 0, on |-> FALSE, energy |-> e] : e \in 0..MaxEnergy}
  /\ connected = FALSE
  /\ record \in {[id |-> 0, reads |-> reads] : reads \in Signatures \union {None}}
  /\ counting = FALSE /\ primed = FALSE
  /\ signature = None
  /\ log = << >>
  /\ tracker = NewTracker

Outside == AppStarts \/ EndsByItself \/ Delivers \/ Plugged \/ Unplugged

Booked == TrackVehicleEnergy \/ LogCompletedSession \/ SetActiveVehicle \/ SetTotal

Memory ==
  /\ \/ \E d \in Deadlines, duration \in 0..Horizon : Ask(d, duration)
     \/ Save \/ Tick \/ WallClockJumps
  /\ UNCHANGED accountVars

Next ==
  \/ Outside
  \/ Booked
  \/ \E verdict \in {"hold", "start", "stop"}, obeyed \in BOOLEAN : Evaluate(verdict, obeyed)
  \/ Memory
  \/ Setup \/ Unload \/ HomeAssistantStops \/ CrashAnywhere

accountsVars == << memoryVars, accountVars >>

Spec == Init /\ [][Next]_accountsVars
=============================================================================
