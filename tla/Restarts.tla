-------------------------------- MODULE Restarts --------------------------------
(***************************************************************************)
(* What must outlive a restart, and what must not be made up by one.       *)
(*                                                                         *)
(* History: how long each deadline has to run by a clock that nobody       *)
(* moves, whether the file is behind it, the session the charger reported  *)
(* when the coordinator was built, and the energy delivered since the      *)
(* tracker last looked.                                                    *)
(***************************************************************************)
EXTENDS SessionAccounts

VARIABLES due, behind, inherited, uncounted

historyVars == << due, behind, inherited, uncounted >>

HistoryInit ==
  /\ due = Passed /\ behind = FALSE
  /\ inherited = 0 /\ uncounted = 0

\* What a file that is behind says is all that is left.
Settled == due' = (IF behind THEN stored.until ELSE due) /\ behind' = FALSE /\ inherited' = 0

RemembersDeadlines ==
  \/ /\ \E d \in Deadlines, duration \in 0..Horizon :
          Ask(d, duration) /\ due' = [due EXCEPT ![d] = duration]
     /\ behind' = TRUE
  \/ Save /\ behind' = FALSE /\ UNCHANGED due
  \/ Tick /\ due' = Later(due) /\ UNCHANGED behind
  \/ /\ WallClockJumps
     /\ IF up THEN behind' = TRUE /\ UNCHANGED due
        ELSE due' = Later(due) /\ UNCHANGED behind

HistoryNext ==
  \/ RemembersDeadlines /\ UNCHANGED << accountVars, inherited, uncounted >>
  \/ Unload /\ behind' = FALSE /\ inherited' = 0 /\ UNCHANGED << due, uncounted >>
  \/ /\ HomeAssistantStops
     /\ IF saveDue THEN behind' = FALSE /\ inherited' = 0 /\ UNCHANGED due ELSE Settled
     /\ UNCHANGED uncounted
  \/ CrashAnywhere /\ Settled /\ UNCHANGED uncounted
  \/ Setup /\ inherited' = record.id /\ UNCHANGED << due, behind, uncounted >>
  \/ TrackVehicleEnergy /\ uncounted' = 0 /\ UNCHANGED << due, behind, inherited >>
  \/ Delivers /\ uncounted' = uncounted + 1 /\ UNCHANGED << due, behind, inherited >>
  \/ /\ \/ AppStarts \/ EndsByItself \/ Plugged \/ Unplugged
        \/ LogCompletedSession \/ SetActiveVehicle \/ SetTotal
        \/ \E verdict \in {"hold", "start", "stop"}, obeyed \in BOOLEAN : Evaluate(verdict, obeyed)
     /\ UNCHANGED historyVars

restartVars == << accountsVars, historyVars >>

RestartInit == Init /\ HistoryInit

RestartSpec == RestartInit /\ [][HistoryNext]_restartVars

-----------------------------------------------------------------------------
\* A pause or a force charge ends when it was asked to end: reloads, restarts and jumps of
\* the wall clock while running move no deadline, however they are interleaved; only a
\* crash before the next save goes back to what was saved last, and only a jump while down
\* counts as time (controller_state.py, "cannot move a deadline").
DeadlinesStand == up => until = due

\* A session is logged at most once and in the order the charger reported them, across
\* every restart, and only the last MAX_SESSIONS are kept.
LogInOrder ==
  [][log' # log =>
       Len(log') <= MaxSessions /\ (log # << >> => Head(log').id > Head(log).id)]_restartVars

\* A restart invents no session: what is logged ended since the coordinator was built
\* ("logging it would invent a session that just happened").
NoInventedSession == [][log' # log => Head(log').id > inherited]_restartVars

\* However readings, resets of the counter and restarts fall, a reading credits the active
\* vehicle only, and no more than was delivered since the last reading.
CreditIsEarned ==
  [][TrackVehicleEnergy =>
       \A v \in Car :
         LET credit == tracker'.totals[v] - tracker.totals[v]
         IN  credit \in 0..(IF v = tracker.active THEN uncounted ELSE 0)]_restartVars

-----------------------------------------------------------------------------
\* What session_off_peak_split says of itself: a session started outside the controller
\* has no split of its own and falls back to the configured windows, so no session is
\* logged with a split sampled from an earlier one (solar_surplus.py:1001-1010).
SplitIsNotStale == \A i \in DOMAIN log : \A c \in log[i].split : c >= log[i].id
=============================================================================
