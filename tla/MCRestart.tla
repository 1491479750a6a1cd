------------------------------- MODULE MCRestart -------------------------------
(* A few charges, some of which read alike, across reloads, stops, crashes  *)
(* and jumps of the clock.                                                  *)
EXTENDS Restarts

MCDeadlines == {"pause"}
MCVehicles == << "car" >>
=============================================================================
