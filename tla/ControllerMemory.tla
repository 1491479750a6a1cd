--------------------------- MODULE ControllerMemory ---------------------------
(***************************************************************************)
(* What the surplus controller remembers across restarts: its deadlines    *)
(* (a pause, a force charge), whose charge is running, and over which      *)
(* charges its session counters ran (controller_state.py and the session   *)
(* part of solar_surplus.py).  In memory a deadline is dated by the        *)
(* monotonic clock, on disk by the wall clock; each is modelled by the     *)
(* time left until it by the clock that dates it, 0 once it has passed.    *)
(***************************************************************************)
EXTENDS Naturals, FiniteSets

CONSTANTS
  Deadlines, \* _force_charge_until_ts and _pause_until_ts
  Horizon,   \* the longest duration a service asks for, in ticks
  Charges    \* the identities of charges

ASSUME MemoryAssumption == Horizon \in Nat /\ Charges \subseteq Nat /\ 0 \notin Charges

VARIABLES
  up,         \* the entry is set up
  until,      \* time left by the monotonic clock
  active,     \* _session_active
  tally,      \* the charges that _session_energy_kwh, _session_total_s and
              \* _session_off_peak_s were sampled from
  sampling,   \* _last_energy_sample_ts is not None
  unverified, \* _restored_session_unverified
  saveDue,    \* a delayed save is scheduled
  stored      \* the store's file

memoryVars == << up, until, active, tally, sampling, unverified, saveDue, stored >>

State == [until : [Deadlines -> 0..Horizon], active : BOOLEAN, tally : SUBSET Charges]

MemoryTypeOK ==
  /\ up \in BOOLEAN
  /\ until \in [Deadlines -> 0..Horizon]
  /\ active \in BOOLEAN
  /\ tally \in SUBSET Charges
  /\ sampling \in BOOLEAN
  /\ unverified \in BOOLEAN
  /\ saveDue \in BOOLEAN
  /\ stored \in State

Passed == [d \in Deadlines |-> 0]

\* Absent or malformed data, and a new controller.
Blank == [until |-> Passed, active |-> FALSE, tally |-> {}]

-----------------------------------------------------------------------------
(* The conversions at the two borders: the time left is what they keep.    *)

StoredState == [until |-> until, active |-> active, tally |-> tally]

\* The timers of a controller that is gone mean nothing.
Forget ==
  /\ until' = Passed /\ active' = FALSE /\ tally' = {}
  /\ sampling' = FALSE /\ unverified' = FALSE /\ saveDue' = FALSE

\* async_restore.
Restore ==
  /\ until' = stored.until
  /\ active' = stored.active
  /\ tally' = stored.tally
  /\ sampling' = FALSE
  /\ unverified' = stored.active
  /\ saveDue' = FALSE
  /\ UNCHANGED stored

-----------------------------------------------------------------------------
(* The handlers. *)

\* async_force_charge_for, async_pause_for; a duration of 0 clears.
Ask(d, duration) ==
  /\ up
  /\ until' = [until EXCEPT ![d] = duration]
  /\ saveDue' = TRUE
  /\ UNCHANGED << up, active, tally, sampling, unverified, stored >>

\* The delayed save of Home Assistant's Store.
Save ==
  /\ up /\ saveDue
  /\ stored' = StoredState
  /\ saveDue' = FALSE
  /\ UNCHANGED << up, until, active, tally, sampling, unverified >>

\* Mutant of Shutdown: left to the delayed save, which the new controller forestalls.
ShutdownUnsaved ==
  /\ up /\ up' = FALSE
  /\ UNCHANGED stored
  /\ Forget

\* async_shutdown, at a reload or an unload.
Shutdown ==
  /\ up /\ up' = FALSE
  /\ stored' = StoredState
  /\ Forget

\* Home Assistant stops: it writes the saves that are due, and no entry is unloaded.
FinalWrite ==
  /\ up /\ up' = FALSE
  /\ stored' = IF saveDue THEN StoredState ELSE stored
  /\ Forget

Crash ==
  /\ up /\ up' = FALSE
  /\ UNCHANGED stored
  /\ Forget

\* One evaluation of a snapshot: is the restored session still there, then sample the
\* session, then what the verdict does to it.
SessionAfter(charging, connected, charge, verdict) ==
  LET dropped == unverified /\ ~connected
      still == active /\ ~dropped
      counted == charging /\ still /\ sampling
      sampled == IF dropped THEN {} ELSE IF counted THEN tally \union {charge} ELSE tally
      fresh == verdict = "start" /\ ~still
  IN  /\ unverified' = FALSE
      /\ active' = (verdict = "start" \/ (still /\ verdict # "stop"))
      /\ tally' = IF fresh THEN {} ELSE sampled
      /\ sampling' = (fresh \/ (charging /\ verdict # "stop"))
      /\ saveDue' = (saveDue \/ dropped \/ counted \/ fresh \/ verdict = "stop")

\* Mutant of Later: a deadline that has passed goes on counting.
LaterUnclamped(left) == [d \in Deadlines |-> left[d] - 1]

Later(left) == [d \in Deadlines |-> IF left[d] = 0 THEN 0 ELSE left[d] - 1]

Tick ==
  /\ until' = Later(until)
  /\ stored' = [stored EXCEPT !.until = Later(@)]
  /\ UNCHANGED << up, active, tally, sampling, unverified, saveDue >>

\* The wall clock is set forward: what it dates is nearer.
WallClockJumps ==
  /\ \E d \in Deadlines : stored.until[d] > 0
  /\ stored' = [stored EXCEPT !.until = Later(@)]
  /\ UNCHANGED << up, until, active, tally, sampling, unverified, saveDue >>

MemoryInit ==
  /\ up = FALSE
  /\ until = Passed /\ active = FALSE /\ tally = {}
  /\ sampling = FALSE /\ unverified = FALSE /\ saveDue = FALSE
  /\ stored = Blank
=============================================================================
