----------------------------- MODULE LinkRecovery -----------------------------
(***************************************************************************)
(* What the coordinator promises of the link: the user is asked for a key  *)
(* only when everything else has failed for long enough, a connection that *)
(* is lent is left to whoever borrowed it, and the client talks to the     *)
(* address last learnt.                                                    *)
(*                                                                         *)
(* History, kept from what the charger did and from the diagnoses that     *)
(* were made, not from what the coordinator remembers of them: how long,   *)
(* over how many polls and with what attempt the key has been suspect; and *)
(* what the last loan found under way.                                     *)
(***************************************************************************)
EXTENDS Coordinator

VARIABLES
  suspect,   \* since the first "undecryptable" that no success and no other diagnosis
             \* has followed: its age, or None
  polls,     \* polls begun since the last success, set-ups included
  rebuilt,   \* the client was rebuilt once while the key was suspect
  caught,    \* the tasks that the last loan found under way, and what they led to
  retaken    \* one of them has rebuilt the client during the loan

suspicionVars == << suspect, polls, rebuilt >>
historyVars == << suspicionVars, caught, retaken >>

PollEnds == pc # "idle" /\ pc' = "idle"
Success == PollEnds /\ answered'

HistoryInit ==
  /\ suspect = None /\ polls = 0 /\ rebuilt = FALSE
  /\ caught = {} /\ retaken = FALSE

\* A poll's step: begun, succeeded, or back from the rebuild of the client.
Suspicion ==
  /\ suspect' = IF Success THEN None ELSE suspect
  /\ polls' = IF Success THEN 0
              ELSE IF pc = "idle" /\ pc' # "idle" /\ polls < FailureLimit THEN polls + 1
              ELSE polls
  /\ rebuilt' = (~Success /\ (rebuilt \/ (pc = "rebuild" /\ pc' = "fetchLast")))

\* A diagnosis, which failed if it is None.
SuspicionAfter(f) ==
  /\ suspect' = CASE f = None -> suspect
                  [] f = "undecryptable" -> IF suspect = None THEN 0 ELSE suspect
                  [] OTHER -> None
  /\ rebuilt' = (rebuilt /\ f \in {"undecryptable", None})
  /\ UNCHANGED polls

UnderWay ==
  (IF pc = "idle" THEN {} ELSE {"poll"}) \union
  (IF relocating = "idle" THEN {} ELSE {"relocation"})

\* What was caught ends, or starts a relocation.
Caught ==
  caught' = (IF pc' = "idle" THEN {} ELSE caught \intersect {"poll"}) \union
            (IF relocating' = "idle" THEN {}
             ELSE IF relocating = "idle" /\ "poll" \in caught THEN {"relocation"}
             ELSE caught \intersect {"relocation"})

ConnectionRetaken ==
  Lent /\ Returned("loan") /\ \E t \in caught : ConnectEnds(t)

HistoryNext ==
  \/ /\ Tick
     /\ suspect' = IF suspect = None THEN None ELSE Ripen(suspect, Grace)
     /\ UNCHANGED << polls, rebuilt, caught, retaken >>
  \/ /\ \E duration \in LoanTimes : ReleaseConnection(duration)
     /\ caught' = UnderWay
     /\ retaken' = FALSE
     /\ UNCHANGED suspicionVars
  \/ /\ PollActs
     /\ Suspicion /\ Caught
     /\ UNCHANGED retaken
  \/ /\ \E f \in Faults \union {None} : Classified(f) /\ SuspicionAfter(f)
     /\ Caught
     /\ UNCHANGED retaken
  \/ /\ (\E found \in BOOLEAN : RelocationEnds(found)) \/ Relocated
     /\ Caught
     /\ UNCHANGED << suspicionVars, retaken >>
  \/ /\ ClientActs
     /\ retaken' = (retaken \/ ConnectionRetaken)
     /\ UNCHANGED << suspicionVars, caught >>
  \/ /\ ResumeConnection \/ RealChanges
     /\ UNCHANGED historyVars

linkVars == << allVars, historyVars >>

LinkInit == CoordinatorInit /\ HistoryInit

HistorySpec == LinkInit /\ [][HistoryNext]_linkVars

-----------------------------------------------------------------------------
\* The user is asked for the key as the last resort only: the charger was diagnosed
\* undecryptable, the whole grace period ago or before, no poll has succeeded and no
\* diagnosis found anything else since, enough polls have failed, and the client was
\* rebuilt once to no avail (coordinator.py, "so it is the last resort").
ReauthIsLastResort ==
  [][PollEnds /\ reauth' =>
       /\ suspect # None /\ suspect >= Grace
       /\ polls >= FailureLimit
       /\ rebuilt]_linkVars

\* The charger's slot is being used: for a read, or by a knock or a probe.
Touching == (\E t \in Tasks : thread[t] # None) \/ pc \in {"knock", "classify"}

\* Once the client is closed for a loan, the charger is touched only by a poll that the
\* loan found under way, and the client can be used again only after such a poll, or a
\* relocation it found or led to, has rebuilt it: until then every write is refused
\* (_async_handle_release, "would let any write during the loan retake the slot").
LoanIsQuiet ==
  Lent /\ Returned("loan") =>
    /\ Touching => "poll" \in caught
    /\ Usable \/ (\E t \in Tasks : thread[t] # None) => retaken

\* The background relocation and a poll's fresh key may each change the address while the
\* other waits for the client: what is left in the end is a device with both, or a rebuild
\* that is still to come (async_update_host, async_update_local_key).
BuiltForAddress ==
  device \in {None, address} \/ \E t \in Tasks : call[t] # None /\ call[t].op = "connect"
=============================================================================
