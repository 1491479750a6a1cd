-------------------------- MODULE EvaluationPromise --------------------------
(***************************************************************************)
(* What _schedule_evaluation promises to whoever calls it, without the     *)
(* task, its flag and its awaits: whatever an evaluation depends on and    *)
(* may have changed is looked at once more by an evaluation that begins    *)
(* after the change, at most one evaluation is under way, and none is      *)
(* once the controller is shut down.                                       *)
(***************************************************************************)
VARIABLES
  input,  \* what the callers changed before they asked
  owed,   \* an evaluation has to begin before the promise is kept
  busy,   \* one is under way
  closed  \* shut down

vars == << input, owed, busy, closed >>

Init ==
  /\ owed = TRUE
  /\ busy = FALSE
  /\ closed = FALSE

\* The only way the input changes: an evaluation is owed from then on.
Request ==
  /\ ~closed
  /\ owed' = TRUE
  /\ UNCHANGED << busy, closed >>

Begin ==
  /\ owed /\ ~busy /\ ~closed
  /\ busy' \in BOOLEAN
  /\ owed' \in BOOLEAN
  /\ UNCHANGED << input, closed >>

\* An evaluation in its course never takes back what is owed.
End ==
  /\ busy
  /\ busy' = FALSE
  /\ owed' \in BOOLEAN
  /\ owed \/ input' # input => owed'
  /\ UNCHANGED closed

Close ==
  /\ ~closed
  /\ closed' = TRUE
  /\ busy' = FALSE
  /\ owed' = FALSE
  /\ UNCHANGED input

\* Nobody listens any more.
ChangeUnheard ==
  /\ closed
  /\ UNCHANGED << owed, busy, closed >>

Next == Request \/ Begin \/ End \/ Close \/ ChangeUnheard

Spec == Init /\ [][Next]_vars
=============================================================================
