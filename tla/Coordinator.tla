----------------------------- MODULE Coordinator -----------------------------
(***************************************************************************)
(* The coordinator (coordinator.py) over its client: the poll, what it     *)
(* tries when the charger does not answer -- relocation, a fresh local     *)
(* key, a diagnosis, one reconnection, at last the user -- the relocation  *)
(* in the background, and the loan of the charger's only connection.       *)
(* Until a first poll has succeeded every attempt is a set-up of its own   *)
(* (__init__.py): a coordinator that begins anew, from the stored address. *)
(*                                                                         *)
(* pc is what the poll awaits; everything up to the next await is one      *)
(* step.  Ages stand for time stamps and stop growing at the delay they    *)
(* are compared with.  The poll interval, the health figures and the book- *)
(* keeping of a good poll are elsewhere, and so are the commands: they     *)
(* share the client's lock (TuyaClient) and fail when it is closed.        *)
(***************************************************************************)
EXTENDS TuyaClient, Integers

CONSTANTS
  ScanCooldown,  \* REDISCOVERY_COOLDOWN_SECONDS, in ticks
  KeyCooldown,   \* LOCAL_KEY_REFRESH_COOLDOWN_SECONDS
  FaultCooldown, \* FAULT_DIAGNOSIS_COOLDOWN_SECONDS
  Grace,         \* UNDECRYPTABLE_GRACE_SECONDS
  FailureLimit,  \* UNDECRYPTABLE_FAILURES_BEFORE_REAUTH
  LoanTimes,     \* durations of release_connection
  Entries        \* the stored address, and whether cloud credentials are configured

ASSUME CoordinatorAssumption ==
  /\ Tasks = {"poll", "relocation", "loan"}
  /\ Addresses \subseteq [host : STRING, key : STRING]
  /\ \A a, b \in Addresses : [host |-> a.host, key |-> b.key] \in Addresses
  /\ {ScanCooldown, KeyCooldown, FaultCooldown, Grace, FailureLimit} \subseteq Nat
  /\ FailureLimit > 0
  /\ LoanTimes \subseteq Nat
  /\ Entries \subseteq [address : Addresses, cloud : BOOLEAN]

VARIABLES
  pc,         \* what the poll awaits
  seen,       \* coordinator.data is not None
  answered,   \* the last poll to end was a good one
  loan,       \* _release_until: ticks left, 0 when it is over, or None
  relocating, \* the background relocation
  scanAge, keyAge, faultAge, \* since the last scan, key refresh and diagnosis
  fault,      \* _last_fault
  unreadable, \* age of _undecryptable_since, or None
  tried,      \* _reconnect_tried
  failures,   \* _consecutive_failures
  reauth,     \* the last poll raised ConfigEntryAuthFailed: none is scheduled
  entry,      \* the config entry
  uptime,     \* hass.loop.time(), up to the longest of the two cooldowns from zero
  real        \* the address of the charger itself

coordVars == << pc, seen, answered, loan, relocating, scanAge, keyAge, faultAge, fault,
                unreadable, tried, failures, reauth, entry, uptime, real >>

allVars == << clientVars, coordVars >>

Faults == {"ok", "refused", "unreachable", "undecryptable"}

ASSUME NoneAssumption == None \notin Faults \union Nat

Fetches == {"fetch", "fetchMoved", "fetchKeyed", "fetchLast"}
Rebuilds == {"reopen", "moved", "newkey", "rebuild"}

\* A cooldown that never started counts from the loop's zero (_last_rediscovery_at = 0.0).
LongestCooldown == IF ScanCooldown > KeyCooldown THEN ScanCooldown ELSE KeyCooldown
FromZero(limit) == IF uptime < limit THEN uptime ELSE limit

CoordinatorTypeOK ==
  /\ pc \in {"idle", "scan", "knock", "cloud", "classify"} \union Fetches \union Rebuilds
  /\ seen \in BOOLEAN /\ answered \in BOOLEAN
  /\ loan \in Nat \union {None}
  /\ relocating \in {"idle", "scan", "move"}
  /\ scanAge \in 0..ScanCooldown /\ keyAge \in 0..KeyCooldown /\ faultAge \in 0..FaultCooldown
  /\ fault \in Faults \union {None}
  /\ unreadable \in (0..Grace) \union {None}
  /\ tried \in BOOLEAN
  /\ failures \in 0..FailureLimit
  /\ reauth \in BOOLEAN
  /\ entry \in Entries /\ uptime \in 0..LongestCooldown
  /\ real \in Addresses

Lent == loan # None /\ loan # 0

Returned(t) == call[t] = None
Hosted(a, h) == [a EXCEPT !.host = h]
Keyed(a, k) == [a EXCEPT !.key = k]

-----------------------------------------------------------------------------
(* A poll that failed.  Each operator is the rest of _async_update_data    *)
(* from one point on, up to its next await.                                *)

Rest == << seen, answered, loan, relocating, scanAge, keyAge, faultAge, fault,
           unreadable, tried, failures, reauth, entry, uptime, real >>

\* After the diagnosis f of the n-th failure: wait for the next poll, rebuild the client
\* once, or ask the user.
Judge(f, n) ==
  LET since == IF f # "undecryptable" THEN None
               ELSE IF unreadable = None THEN 0 ELSE unreadable
      due == f = "undecryptable" /\ n >= FailureLimit /\ since >= Grace
  IN  /\ unreadable' = since
      /\ tried' = (f = "undecryptable" /\ (tried \/ due))
      /\ reauth' = (due /\ tried)
      /\ answered' = FALSE
      /\ IF due /\ ~tried
         THEN Connect("poll", address) /\ pc' = "rebuild"
         ELSE UNCHANGED clientVars /\ pc' = "idle"

OneMore == IF failures < FailureLimit THEN failures + 1 ELSE failures

\* Count the failure and diagnose it, unless a diagnosis is recent.
GiveUp ==
  /\ failures' = OneMore
  /\ IF fault # None /\ faultAge < FaultCooldown
     THEN Judge(fault, OneMore) /\ UNCHANGED faultAge
     ELSE /\ pc' = "classify"
          /\ faultAge' = 0
          /\ UNCHANGED << clientVars, unreadable, tried, reauth, answered >>

TryRefreshLocalKey ==
  IF entry.cloud /\ keyAge = KeyCooldown
  THEN /\ pc' = "knock"
       /\ UNCHANGED << clientVars, failures, faultAge, unreadable, tried, reauth, answered >>
  ELSE GiveUp

\* Mutant of TryRediscoverHost: once there is data the scan is never scheduled.
TryRediscoverInline ==
  IF scanAge < ScanCooldown \/ seen
  THEN TryRefreshLocalKey /\ UNCHANGED << relocating, scanAge >>
  ELSE /\ scanAge' = 0
       /\ pc' = "scan"
       /\ UNCHANGED << clientVars, relocating, failures, faultAge, unreadable, tried,
                       reauth, answered >>

\* In the background once there is data, inline on the first refresh.
TryRediscoverHost ==
  IF scanAge < ScanCooldown
  THEN TryRefreshLocalKey /\ UNCHANGED << relocating, scanAge >>
  ELSE /\ scanAge' = 0
       /\ IF seen
          THEN /\ relocating' = IF relocating = "idle" THEN "scan" ELSE relocating
               /\ TryRefreshLocalKey
          ELSE /\ pc' = "scan"
               /\ UNCHANGED << clientVars, relocating, failures, faultAge, unreadable, tried,
                               reauth, answered >>

-----------------------------------------------------------------------------
(* The poll. *)

\* The set-up is tried (again): a new client for the stored address and a new coordinator,
\* whatever the last attempt had found out.
SetUpEntry ==
  /\ pc = "idle" /\ ~seen
  /\ Connect("poll", entry.address) /\ pc' = "reopen"
  /\ scanAge' = FromZero(ScanCooldown) /\ keyAge' = FromZero(KeyCooldown) /\ faultAge' = 0
  /\ fault' = None /\ unreadable' = None /\ tried' = FALSE /\ failures' = 0 /\ reauth' = FALSE
  /\ UNCHANGED << seen, answered, loan, relocating, entry, uptime, real >>

\* Scheduled, or asked for by a write or a button.
BeginPoll ==
  /\ pc = "idle" /\ seen /\ ~Lent
  /\ IF loan = None
     THEN Read("poll") /\ pc' = "fetch" /\ UNCHANGED loan
     ELSE Connect("poll", address) /\ pc' = "reopen" /\ loan' = None
  /\ UNCHANGED << seen, answered, relocating, scanAge, keyAge, faultAge, fault, unreadable,
                  tried, failures, reauth, entry, uptime, real >>

\* The client is rebuilt: read.
Rebuilt ==
  /\ pc \in Rebuilds /\ Returned("poll")
  /\ Read("poll")
  /\ pc' = CASE pc = "reopen" -> "fetch" [] pc = "moved" -> "fetchMoved"
             [] pc = "newkey" -> "fetchKeyed" [] pc = "rebuild" -> "fetchLast"
  /\ UNCHANGED Rest

\* Mutant of Answered: the diagnosis of the failures before is kept.
AnsweredKeepsFault ==
  /\ pc \in Fetches /\ Returned("poll") /\ result["poll"] = "yes"
  /\ pc' = "idle"
  /\ seen' = TRUE /\ answered' = TRUE
  /\ failures' = 0 /\ unreadable' = None /\ tried' = FALSE
  /\ reauth' = FALSE
  /\ UNCHANGED << clientVars, loan, relocating, scanAge, keyAge, faultAge, fault, entry,
                  uptime, real >>

Answered ==
  /\ pc \in Fetches /\ Returned("poll") /\ result["poll"] = "yes"
  /\ pc' = "idle"
  /\ seen' = TRUE /\ answered' = TRUE
  /\ failures' = 0 /\ unreadable' = None /\ tried' = FALSE /\ fault' = None
  /\ reauth' = FALSE
  /\ UNCHANGED << clientVars, loan, relocating, scanAge, keyAge, faultAge, entry, uptime,
                  real >>

Unanswered ==
  /\ pc \in Fetches /\ Returned("poll") /\ result["poll"] = "no"
  /\ CASE pc = "fetch" -> TryRediscoverHost
       [] pc = "fetchMoved" -> TryRefreshLocalKey /\ UNCHANGED << relocating, scanAge >>
       [] pc = "fetchKeyed" -> GiveUp /\ UNCHANGED << relocating, scanAge >>
       [] pc = "fetchLast" ->
            /\ reauth' = TRUE /\ answered' = FALSE /\ pc' = "idle"
            /\ UNCHANGED << clientVars, failures, faultAge, unreadable, tried, relocating,
                            scanAge >>
  /\ UNCHANGED << seen, loan, keyAge, fault, entry, uptime, real >>

\* The inline scan hears the charger elsewhere, or does not.
ScanEnds(found) ==
  /\ pc = "scan"
  /\ IF found
     THEN /\ real.host # address.host
          /\ Connect("poll", Hosted(address, real.host))
          /\ pc' = "moved"
          /\ UNCHANGED << failures, faultAge, unreadable, tried, reauth, answered >>
     ELSE TryRefreshLocalKey
  /\ UNCHANGED << seen, loan, relocating, scanAge, keyAge, fault, entry, uptime, real >>

\* async_tcp_reachable: only a port that answers makes the key suspect.
KnockEnds(open) ==
  /\ pc = "knock"
  /\ IF open
     THEN /\ pc' = "cloud" /\ keyAge' = 0
          /\ UNCHANGED << clientVars, failures, faultAge, unreadable, tried, reauth, answered >>
     ELSE GiveUp /\ UNCHANGED keyAge
  /\ UNCHANGED << seen, loan, relocating, scanAge, fault, entry, uptime, real >>

CloudAnswers(renewed) ==
  /\ pc = "cloud"
  /\ IF renewed
     THEN /\ real.key # address.key
          /\ Connect("poll", Keyed(address, real.key))
          /\ pc' = "newkey"
          /\ UNCHANGED << failures, faultAge, unreadable, tried, reauth, answered >>
     ELSE GiveUp
  /\ UNCHANGED << seen, loan, relocating, scanAge, keyAge, fault, entry, uptime, real >>

\* The diagnosis is in; None when it failed and the last one, however old, has to do.
Classified(f) ==
  /\ pc = "classify"
  /\ fault' = IF f = None THEN fault ELSE f
  /\ faultAge' = IF f = None THEN FaultCooldown ELSE faultAge
  /\ Judge(fault', failures)
  /\ UNCHANGED << seen, loan, relocating, scanAge, keyAge, failures, entry, uptime, real >>

-----------------------------------------------------------------------------
(* The relocation in the background, the loan.                             *)

RelocationEnds(found) ==
  /\ relocating = "scan"
  /\ IF found
     THEN /\ real.host # address.host
          /\ Connect("relocation", Hosted(address, real.host))
          /\ relocating' = "move"
     ELSE relocating' = "idle" /\ UNCHANGED clientVars
  /\ UNCHANGED << pc, seen, answered, loan, scanAge, keyAge, faultAge, fault, unreadable,
                  tried, failures, reauth, entry, uptime, real >>

\* Moved; the refresh it asks for is a poll like any other.
Relocated ==
  /\ relocating = "move" /\ Returned("relocation")
  /\ relocating' = "idle"
  /\ UNCHANGED << clientVars, pc, seen, answered, loan, scanAge, keyAge, faultAge, fault,
                  unreadable, tried, failures, reauth, entry, uptime, real >>

ReleaseConnection(duration) ==
  /\ seen
  /\ loan' = duration
  /\ Close("loan")
  /\ UNCHANGED << pc, seen, answered, relocating, scanAge, keyAge, faultAge, fault, unreadable,
                  tried, failures, reauth, entry, uptime, real >>

\* The loan is over; the next poll takes the connection back.
ResumeConnection ==
  /\ seen /\ loan # 0
  /\ loan' = 0
  /\ UNCHANGED << clientVars, pc, seen, answered, relocating, scanAge, keyAge, faultAge, fault,
                  unreadable, tried, failures, reauth, entry, uptime, real >>

-----------------------------------------------------------------------------
(* Time and the charger. *)

Ripen(age, limit) == IF age < limit THEN age + 1 ELSE age

\* Mutant of Tick: the loan is counted down past its end.
TickPastLoan ==
  /\ scanAge' = Ripen(scanAge, ScanCooldown)
  /\ keyAge' = Ripen(keyAge, KeyCooldown)
  /\ faultAge' = Ripen(faultAge, FaultCooldown)
  /\ uptime' = Ripen(uptime, LongestCooldown)
  /\ unreadable' = IF unreadable = None THEN None ELSE Ripen(unreadable, Grace)
  /\ loan' = IF loan # None THEN loan - 1 ELSE loan
  /\ UNCHANGED << clientVars, pc, seen, answered, relocating, fault, tried, failures, reauth,
                  entry, real >>

Tick ==
  /\ scanAge' = Ripen(scanAge, ScanCooldown)
  /\ keyAge' = Ripen(keyAge, KeyCooldown)
  /\ faultAge' = Ripen(faultAge, FaultCooldown)
  /\ uptime' = Ripen(uptime, LongestCooldown)
  /\ unreadable' = IF unreadable = None THEN None ELSE Ripen(unreadable, Grace)
  /\ loan' = IF Lent THEN loan - 1 ELSE loan
  /\ UNCHANGED << clientVars, pc, seen, answered, relocating, fault, tried, failures, reauth,
                  entry, real >>

\* A new lease, a new pairing.
RealChanges ==
  /\ real' \in Addresses \ {real}
  /\ UNCHANGED << clientVars, pc, seen, answered, loan, relocating, scanAge, keyAge, faultAge,
                  fault, unreadable, tried, failures, reauth, entry, uptime >>

\* The client's own steps: only the charger itself answers, and only with its key; it may
\* always fail to.
ClientActs ==
  /\ \E t \in Tasks :
       \/ ConnectEnds(t) \/ CloseEnds(t) \/ Refused(t) \/ StartIO(t)
       \/ TimesOut(t) \/ StuckCloses(t) \/ ThreadReturns(t, "error")
       \/ device = real /\ ThreadReturns(t, "value")
  /\ UNCHANGED coordVars

-----------------------------------------------------------------------------
\* Before the first set-up.
CoordinatorInit ==
  /\ Init
  /\ entry \in Entries /\ address = entry.address /\ device = None
  /\ pc = "idle" /\ seen = FALSE /\ answered = FALSE
  /\ loan = None /\ relocating = "idle"
  /\ uptime \in {0, LongestCooldown}
  /\ scanAge = FromZero(ScanCooldown) /\ keyAge = FromZero(KeyCooldown) /\ faultAge = 0
  /\ fault = None /\ unreadable = None
  /\ tried = FALSE /\ failures = 0 /\ reauth = FALSE
  /\ real \in Addresses

\* A poll, up to its diagnosis.
PollActs ==
  \/ SetUpEntry \/ BeginPoll \/ Rebuilt \/ Answered \/ Unanswered
  \/ \E yes \in BOOLEAN : ScanEnds(yes) \/ KnockEnds(yes) \/ CloudAnswers(yes)

Poll == PollActs \/ \E f \in Faults \union {None} : Classified(f)

CoordinatorNext ==
  \/ Poll
  \/ \E found \in BOOLEAN : RelocationEnds(found)
  \/ Relocated
  \/ \E duration \in LoanTimes : ReleaseConnection(duration)
  \/ ResumeConnection
  \/ Tick
  \/ RealChanges
  \/ ClientActs

CoordinatorSpec == CoordinatorInit /\ [][CoordinatorNext]_allVars

AtItsHost == address.host = real.host

\* Set-ups and polls are scheduled after each other but for a raised ConfigEntryAuthFailed,
\* every call ends, time passes; and a charger that is there answers, broadcasts, opens its
\* port and has its key in the cloud now and then.
LinkSpec ==
  /\ CoordinatorSpec
  /\ WF_allVars(Poll /\ ~reauth)
  /\ WF_allVars(Tick) /\ WF_allVars(Relocated)
  /\ WF_allVars(\E found \in BOOLEAN : RelocationEnds(found))
  /\ \A t \in Tasks : WF_allVars(HolderActs(t) /\ UNCHANGED coordVars)
  /\ SF_allVars(device = real /\ ThreadReturns("poll", "value") /\ UNCHANGED coordVars)
  /\ SF_allVars(RelocationEnds(TRUE)) /\ SF_allVars(ScanEnds(TRUE))
  /\ SF_allVars(AtItsHost /\ KnockEnds(TRUE)) /\ SF_allVars(AtItsHost /\ CloudAnswers(TRUE))

\* A key that was changed is diagnosed as what it is.
Diagnosed ==
  [][(\E f \in Faults \union {None} : Classified(f)) /\ AtItsHost /\ address.key # real.key
       => fault' = "undecryptable"]_allVars

\* Without cloud credentials a set-up cannot get past a key that was changed, and does not
\* last long enough to ask for it.
StuckSetUp == ~seen /\ ~entry.cloud /\ real.key # entry.address.key

\* A charger that has moved or was paired again is found, or its key is asked for: once it
\* stays where it is, the connection is not lent and a wrong key is diagnosed, the link
\* comes back.  Only a set-up may fail for ever, and only for want of the key.
LinkRecovers ==
  /\ <>[][UNCHANGED real]_real
  /\ <>[]~Lent
  /\ <>Diagnosed
  => []<>(answered \/ reauth) \/ <>[]StuckSetUp
=============================================================================
