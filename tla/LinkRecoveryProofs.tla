-------------------------- MODULE LinkRecoveryProofs --------------------------
(***************************************************************************)
(* The coordinator over its client, for any addresses, delays, limits and  *)
(* lengths of a loan.  Three arguments: whatever the coordinator does to   *)
(* the client is a step of the client (so what is proved of the client     *)
(* holds here); a loan closes the client under the lock, when no one else  *)
(* has a thread, and who is under way then is recorded, with what it leads *)
(* to; and the coordinator's account of a run of undecryptable replies is  *)
(* no longer and no fuller than what the diagnoses and the polls were.     *)
(***************************************************************************)
EXTENDS LinkRecovery, TuyaClientProofs

SuspicionTypeOK ==
  /\ suspect \in (0..Grace) \union {None}
  /\ polls \in 0..FailureLimit
  /\ rebuilt \in BOOLEAN

\* What the poll awaits before its failure is counted.
Hopeful == {"reopen", "fetch", "scan", "moved", "fetchMoved", "knock", "cloud", "newkey",
            "fetchKeyed"}

Overdue == suspect # None /\ suspect >= Grace /\ polls >= FailureLimit

LastResort == Overdue /\ rebuilt

\* The coordinator's own account of a run of undecryptable replies is covered by the
\* history of the diagnoses and the polls.
RunIsCounted ==
  /\ fault = "undecryptable" => suspect # None
  /\ unreadable # None => suspect # None /\ unreadable <= suspect
  /\ tried => suspect # None /\ (rebuilt \/ pc = "rebuild")
  /\ failures <= polls
  /\ pc \in Hopeful => OneMore <= polls
  /\ pc \in {"rebuild", "fetchLast"} => Overdue
  /\ pc = "fetchLast" => rebuilt

RunInv == CoordinatorTypeOK /\ SuspicionTypeOK /\ RunIsCounted

\* Whose call it is: the poll reads and rebuilds, the relocation rebuilds, the loan closes.
CallsAreOwn ==
  /\ call["poll"] # None => pc \in Fetches \union Rebuilds
  /\ call["relocation"] # None => relocating = "move" /\ call["relocation"].op = "connect"
  /\ call["loan"] # None => call["loan"].op = "close"

\* Whatever is under way during a loan was caught by it.
LoanHasCaught ==
  /\ loan # None => seen
  /\ Lent => /\ pc # "idle" => "poll" \in caught
             /\ relocating # "idle" => "relocation" \in caught

\* The client stays closed until what was caught rebuilds it.
StaysClosed ==
  Lent /\ Returned("loan") =>
    (Usable \/ (\E t \in Tasks : thread[t] # None) => retaken)

LoanInv == IInv /\ CallsAreOwn /\ LoanHasCaught /\ StaysClosed /\ BuiltForAddress

-----------------------------------------------------------------------------
(* The coordinator's steps as the client's.                                *)

\* A poll that has failed may have the client rebuilt, and touches it in no other way.
Rebuilding == UNCHANGED clientVars \/ (Connect("poll", address) /\ pc' = "rebuild")

LEMMA FailuresRebuild ==
  /\ \A f, n : Judge(f, n) => Rebuilding
  /\ GiveUp => Rebuilding
  /\ TryRefreshLocalKey => Rebuilding
  /\ TryRediscoverHost => Rebuilding
<1>1. ASSUME NEW f, NEW n, Judge(f, n) PROVE Rebuilding
  BY <1>1 DEF Judge, Rebuilding
<1>2. GiveUp => Rebuilding
  BY <1>1 DEF GiveUp, Rebuilding
<1>3. TryRefreshLocalKey => Rebuilding
  BY <1>2 DEF TryRefreshLocalKey, Rebuilding
<1>4. TryRediscoverHost => Rebuilding
  BY <1>3 DEF TryRediscoverHost, Rebuilding
<1>5. QED
  BY <1>1, <1>2, <1>3, <1>4

\* What a poll calls: a read, or a rebuild for the address it has or has learnt.
PollCallsClient ==
  \/ UNCHANGED clientVars
  \/ Read("poll") /\ pc' \in Fetches
  \/ pc' \in Rebuilds /\ \E a \in Addresses : Connect("poll", a)

LEMMA PollCalls ==
  ASSUME Poll, CoordinatorTypeOK, address \in Addresses
  PROVE  PollCallsClient
<1>0. real \in Addresses /\ entry.address \in Addresses
  <2>1. entry \in [address : Addresses, cloud : BOOLEAN] /\ real \in Addresses
    BY CoordinatorAssumption DEF CoordinatorTypeOK
  <2>2. QED
    BY <2>1
<1>1. Rebuilding => PollCallsClient
  BY DEF Rebuilding, PollCallsClient, Rebuilds
<1>2. CASE SetUpEntry
  BY <1>0, <1>2 DEF SetUpEntry, PollCallsClient, Rebuilds
<1>3. CASE BeginPoll
  BY <1>3 DEF BeginPoll, PollCallsClient, Rebuilds, Fetches
<1>4. CASE Rebuilt
  BY <1>4 DEF Rebuilt, PollCallsClient, Rebuilds, Fetches
<1>5. CASE Answered
  BY <1>5 DEF Answered, PollCallsClient
<1>6. CASE Unanswered
  <2>1. \/ TryRediscoverHost \/ TryRefreshLocalKey \/ GiveUp \/ UNCHANGED clientVars
    BY <1>6 DEF Unanswered, Fetches
  <2>2. QED
    BY <1>1, <2>1, FailuresRebuild DEF PollCallsClient
<1>7. CASE \E found \in BOOLEAN : ScanEnds(found)
  <2>1. \/ Connect("poll", Hosted(address, real.host)) /\ pc' = "moved"
        \/ TryRefreshLocalKey
    BY <1>7 DEF ScanEnds
  <2>2. Hosted(address, real.host) \in Addresses
    <3>1. address \in [host : STRING, key : STRING]
      BY CoordinatorAssumption
    <3>2. Hosted(address, real.host) = [host |-> real.host, key |-> address.key]
      BY <3>1 DEF Hosted
    <3>3. QED
      BY <1>0, <3>2, CoordinatorAssumption
  <2>3. QED
    BY <1>1, <2>1, <2>2, FailuresRebuild DEF PollCallsClient, Rebuilds
<1>8. CASE \E open \in BOOLEAN : KnockEnds(open)
  <2>1. UNCHANGED clientVars \/ GiveUp
    BY <1>8 DEF KnockEnds
  <2>2. QED
    BY <1>1, <2>1, FailuresRebuild DEF PollCallsClient
<1>9. CASE \E renewed \in BOOLEAN : CloudAnswers(renewed)
  <2>1. \/ Connect("poll", Keyed(address, real.key)) /\ pc' = "newkey"
        \/ GiveUp
    BY <1>9 DEF CloudAnswers
  <2>2. Keyed(address, real.key) \in Addresses
    <3>1. address \in [host : STRING, key : STRING]
      BY CoordinatorAssumption
    <3>2. Keyed(address, real.key) = [host |-> address.host, key |-> real.key]
      BY <3>1 DEF Keyed
    <3>3. QED
      BY <1>0, <3>2, CoordinatorAssumption
  <2>3. QED
    BY <1>1, <2>1, <2>2, FailuresRebuild DEF PollCallsClient, Rebuilds
<1>10. CASE \E f \in Faults \union {None} : Classified(f)
  <2>1. PICK f \in Faults \union {None} : Classified(f)
    BY <1>10
  <2>2. Rebuilding
    BY <2>1, FailuresRebuild DEF Classified
  <2>3. QED
    BY <1>1, <2>2
<1>11. QED
  BY <1>2, <1>3, <1>4, <1>5, <1>6, <1>7, <1>8, <1>9, <1>10 DEF Poll, PollActs

\* What the relocation calls: a rebuild for the host it has heard of.
LEMMA RelocationCalls ==
  ASSUME NEW found \in BOOLEAN, RelocationEnds(found), CoordinatorTypeOK, address \in Addresses
  PROVE  \/ UNCHANGED clientVars /\ relocating' = "idle"
         \/ relocating' = "move" /\ \E a \in Addresses : Connect("relocation", a)
<1>1. \/ UNCHANGED clientVars /\ relocating' = "idle"
      \/ Connect("relocation", Hosted(address, real.host)) /\ relocating' = "move"
  BY DEF RelocationEnds
<1>2. Hosted(address, real.host) \in Addresses
  <2>1. address \in [host : STRING, key : STRING] /\ real \in Addresses
    BY CoordinatorAssumption DEF CoordinatorTypeOK
  <2>2. Hosted(address, real.host) = [host |-> real.host, key |-> address.key]
    BY <2>1 DEF Hosted
  <2>3. QED
    BY <2>1, <2>2, CoordinatorAssumption
<1>3. QED
  BY <1>1, <1>2

LEMMA ClientSteps ==
  ASSUME [HistoryNext]_linkVars, CoordinatorTypeOK, address \in Addresses
  PROVE  [Next]_clientVars
<1>0. {"poll", "relocation", "loan"} \subseteq Tasks
  BY CoordinatorAssumption
<1>1. CASE Poll
  BY <1>0, <1>1, PollCalls DEF Next, PollCallsClient
<1>2. CASE \E duration \in LoanTimes : ReleaseConnection(duration)
  BY <1>0, <1>2 DEF ReleaseConnection, Next
<1>3. CASE \E found \in BOOLEAN : RelocationEnds(found)
  BY <1>0, <1>3, RelocationCalls DEF Next
<1>4. CASE ClientActs
  <2>1. \E t \in Tasks : HolderActs(t)
    BY <1>4 DEF ClientActs, HolderActs, Replies
  <2>2. QED
    BY <2>1 DEF Next
<1>5. CASE Tick \/ Relocated \/ ResumeConnection \/ RealChanges
  BY <1>5 DEF Tick, Relocated, ResumeConnection, RealChanges
<1>6. CASE UNCHANGED linkVars
  BY <1>6 DEF linkVars, allVars
<1>7. QED
  BY <1>1, <1>2, <1>3, <1>4, <1>5, <1>6 DEF HistoryNext, Poll

-----------------------------------------------------------------------------
(* The run of undecryptable replies.                                       *)

States == {"idle", "scan", "knock", "cloud", "classify"} \union Fetches \union Rebuilds

\* What the rest of a failed poll settles.
Settled ==
  /\ pc' \in States /\ answered' \in BOOLEAN /\ faultAge' \in 0..FaultCooldown
  /\ unreadable' \in (0..Grace) \union {None} /\ tried' \in BOOLEAN
  /\ failures' \in 0..FailureLimit /\ reauth' \in BOOLEAN
  /\ SuspicionTypeOK' /\ RunIsCounted'
  /\ PollEnds /\ reauth' => LastResort

LEMMA LimitsAreNumbers ==
  /\ Grace \in Nat /\ FailureLimit \in Nat /\ FaultCooldown \in Nat /\ FailureLimit > 0
  /\ ScanCooldown \in Nat /\ KeyCooldown \in Nat
BY CoordinatorAssumption

LEMMA ZeroIsAnAge == \A limit \in Nat : 0 \in 0..limit /\ limit \in 0..limit
OBVIOUS

\* The judgement of the n-th failure by the diagnosis f, fresh or remembered: a fresh one
\* has been recorded, and "undecryptable" takes nothing from what was recorded before.
LEMMA JudgeSettles ==
  ASSUME RunInv, pc \notin {"idle", "rebuild", "fetchLast"},
         NEW f \in Faults \union {None}, fault' = f, NEW n \in 0..FailureLimit, n <= polls,
         failures' = n, Judge(f, n), faultAge' \in 0..FaultCooldown,
         suspect' \in (0..Grace) \union {None}, polls' = polls, rebuilt' \in BOOLEAN,
         f = "undecryptable" => /\ suspect' # None /\ rebuilt' = rebuilt
                                /\ suspect # None => suspect' = suspect
  PROVE  Settled
<1> DEFINE since == IF f # "undecryptable" THEN None
                    ELSE IF unreadable = None THEN 0 ELSE unreadable
           due == f = "undecryptable" /\ n >= FailureLimit /\ since >= Grace
<1>1. /\ unreadable' = since /\ tried' = (f = "undecryptable" /\ (tried \/ due))
      /\ reauth' = (due /\ tried) /\ answered' = FALSE
      /\ pc' = IF due /\ ~tried THEN "rebuild" ELSE "idle"
  BY DEF Judge
<1>2. /\ suspect \in (0..Grace) \union {None} /\ polls \in 0..FailureLimit
      /\ tried \in BOOLEAN /\ unreadable \in (0..Grace) \union {None}
      /\ unreadable # None => suspect # None /\ unreadable <= suspect
      /\ tried => suspect # None /\ rebuilt
  BY DEF RunInv, CoordinatorTypeOK, SuspicionTypeOK, RunIsCounted
<1>3. since \in (0..Grace) \union {None}
  BY <1>2, LimitsAreNumbers, ZeroIsAnAge
<1>4. f = "undecryptable" => since \in 0..Grace /\ suspect' # None /\ since <= suspect'
  BY <1>2, LimitsAreNumbers, ZeroIsAnAge
<1>5. due => Overdue'
  <2>1. due => since \in 0..Grace /\ suspect' # None /\ since <= suspect' /\ since >= Grace
    BY <1>4
  <2>2. due => suspect' \in 0..Grace
    BY <2>1
  <2>3. due => polls' >= FailureLimit
    BY <1>2, LimitsAreNumbers
  <2>4. QED
    BY <2>1, <2>2, <2>3, LimitsAreNumbers DEF Overdue
<1>6. due /\ tried => LastResort
  <2>1. due /\ tried => UNCHANGED << suspect, polls >> /\ rebuilt
    BY <1>2
  <2>2. QED
    BY <1>5, <2>1 DEF Overdue, LastResort
<1> HIDE DEF since, due
<1>7. SuspicionTypeOK'
  BY <1>2 DEF SuspicionTypeOK
<1>8. RunIsCounted'
  <2>1. unreadable' # None => suspect' # None /\ unreadable' <= suspect'
    BY <1>1, <1>4 DEF since
  <2>2. tried' => suspect' # None /\ (rebuilt' \/ pc' = "rebuild")
    BY <1>1, <1>2
  <2>3. failures' <= polls' /\ pc' \notin Hopeful /\ pc' # "fetchLast"
    BY <1>1 DEF Hopeful
  <2>4. pc' = "rebuild" => Overdue'
    BY <1>1, <1>5
  <2>5. QED
    BY <2>1, <2>2, <2>3, <2>4 DEF RunIsCounted
<1>9. PollEnds /\ reauth' => LastResort
  BY <1>1, <1>6
<1>10. QED
  BY <1>1, <1>2, <1>3, <1>7, <1>8, <1>9 DEF Settled, States, Rebuilds

\* A poll that goes on, without a rebuild or an end, leaves the run as it is.
LEMMA GoesOn ==
  ASSUME RunInv, Suspicion, pc \in Hopeful,
         UNCHANGED << fault, unreadable, tried >>, failures' \in 0..FailureLimit,
         \/ pc' \in Hopeful /\ UNCHANGED failures
         \/ pc' = "classify" /\ failures' = OneMore,
         answered' = answered, reauth' = reauth, faultAge' \in 0..FaultCooldown
  PROVE  Settled
<1>1. pc \notin {"idle", "rebuild"} /\ pc' \notin {"idle", "rebuild", "fetchLast"}
      /\ pc' \in States
  BY DEF Hopeful, States, Fetches, Rebuilds
<1>2. UNCHANGED << suspect, polls, rebuilt >>
  BY <1>1 DEF Suspicion, Success, PollEnds, RunInv, SuspicionTypeOK
<1>3. SuspicionTypeOK'
  BY <1>2 DEF RunInv, SuspicionTypeOK
<1>4. RunIsCounted'
  <2>1. pc' \in Hopeful => OneMore' <= polls'
    BY <1>2 DEF RunInv, RunIsCounted, OneMore, Hopeful
  <2>2. failures' <= polls'
    BY <1>2 DEF RunInv, RunIsCounted
  <2>3. QED
    BY <1>1, <1>2, <2>1, <2>2 DEF RunInv, RunIsCounted
<1>5. QED
  BY <1>1, <1>3, <1>4 DEF Settled, PollEnds, RunInv, CoordinatorTypeOK

LEMMA GiveUpSettles ==
  ASSUME RunInv, Suspicion, pc \in Hopeful, UNCHANGED fault, GiveUp
  PROVE  Settled
<1>1. /\ fault \in Faults \union {None} /\ faultAge \in 0..FaultCooldown
      /\ pc \notin {"idle", "rebuild", "fetchLast"}
  BY DEF RunInv, CoordinatorTypeOK, Hopeful
<1>2. OneMore \in 0..FailureLimit /\ OneMore <= polls /\ failures' = OneMore
  BY LimitsAreNumbers DEF RunInv, CoordinatorTypeOK, RunIsCounted, OneMore, GiveUp
<1>3. CASE fault # None /\ faultAge < FaultCooldown
  <2>1. Judge(fault, OneMore) /\ UNCHANGED faultAge
    BY <1>3 DEF GiveUp
  <2>2. UNCHANGED << suspect, polls, rebuilt >>
    BY <1>1, <2>1 DEF Judge, Suspicion, Success, PollEnds, RunInv, SuspicionTypeOK
  <2>3. /\ suspect \in (0..Grace) \union {None} /\ rebuilt \in BOOLEAN
        /\ fault = "undecryptable" => suspect # None
    BY DEF RunInv, SuspicionTypeOK, RunIsCounted
  <2>4. QED
    BY <1>1, <1>2, <2>1, <2>2, <2>3, JudgeSettles
<1>4. CASE ~(fault # None /\ faultAge < FaultCooldown)
  <2>1. /\ pc' = "classify" /\ faultAge' = 0
        /\ UNCHANGED << unreadable, tried, reauth, answered >>
    BY <1>4 DEF GiveUp
  <2>2. faultAge' \in 0..FaultCooldown
    BY <2>1, LimitsAreNumbers, ZeroIsAnAge
  <2>3. QED
    BY <1>2, <2>1, <2>2, GoesOn
<1>5. QED
  BY <1>3, <1>4

LEMMA RefreshSettles ==
  ASSUME RunInv, Suspicion, pc \in Hopeful, UNCHANGED fault, TryRefreshLocalKey
  PROVE  Settled
<1>1. CASE entry.cloud /\ keyAge = KeyCooldown
  <2>1. /\ pc' = "knock"
        /\ UNCHANGED << failures, faultAge, unreadable, tried, reauth, answered >>
    BY <1>1 DEF TryRefreshLocalKey
  <2>2. pc' \in Hopeful /\ failures' \in 0..FailureLimit /\ faultAge' \in 0..FaultCooldown
    BY <2>1 DEF Hopeful, RunInv, CoordinatorTypeOK
  <2>3. QED
    BY <2>1, <2>2, GoesOn
<1>2. CASE ~(entry.cloud /\ keyAge = KeyCooldown)
  BY <1>2, GiveUpSettles DEF TryRefreshLocalKey
<1>3. QED
  BY <1>1, <1>2

LEMMA RediscoverySettles ==
  ASSUME RunInv, Suspicion, pc \in Hopeful, UNCHANGED fault, TryRediscoverHost
  PROVE  Settled /\ scanAge' \in 0..ScanCooldown /\ relocating' \in {"idle", "scan", "move"}
<1>1. scanAge' \in 0..ScanCooldown /\ relocating' \in {"idle", "scan", "move"}
  BY LimitsAreNumbers, ZeroIsAnAge DEF TryRediscoverHost, RunInv, CoordinatorTypeOK
<1>2. CASE TryRefreshLocalKey
  BY <1>1, <1>2, RefreshSettles
<1>3. CASE /\ pc' = "scan"
           /\ UNCHANGED << failures, faultAge, unreadable, tried, reauth, answered >>
  <2>1. pc' \in Hopeful /\ failures' \in 0..FailureLimit /\ faultAge' \in 0..FaultCooldown
    BY <1>3 DEF Hopeful, RunInv, CoordinatorTypeOK
  <2>2. QED
    BY <1>1, <1>3, <2>1, GoesOn
<1>4. QED
  BY <1>2, <1>3 DEF TryRediscoverHost

-----------------------------------------------------------------------------
(* A step of the poll, whole.                                              *)

PollKeeps ==
  /\ RunInv'
  /\ PollEnds /\ reauth' => LastResort

\* What Settled leaves open is as it was.
LEMMA SettledKeeps ==
  ASSUME RunInv, Settled, scanAge' \in 0..ScanCooldown, keyAge' \in 0..KeyCooldown,
         relocating' \in {"idle", "scan", "move"}, fault' \in Faults \union {None},
         UNCHANGED << seen, loan, entry, uptime, real >>
  PROVE  PollKeeps
<1>1. CoordinatorTypeOK'
  BY DEF Settled, States, RunInv, CoordinatorTypeOK
<1>2. QED
  BY <1>1 DEF Settled, RunInv, PollKeeps

LEMMA LongestIsANumber ==
  /\ LongestCooldown \in Nat /\ ScanCooldown <= LongestCooldown /\ KeyCooldown <= LongestCooldown
BY LimitsAreNumbers DEF LongestCooldown

LEMMA FromZeroIsAnAge ==
  ASSUME uptime \in 0..LongestCooldown
  PROVE  FromZero(ScanCooldown) \in 0..ScanCooldown /\ FromZero(KeyCooldown) \in 0..KeyCooldown
BY LimitsAreNumbers, LongestIsANumber DEF FromZero

\* A poll that begins: one more, whatever else is forgotten with the last set-up.
LEMMA BegunCounts ==
  ASSUME RunInv, Suspicion, pc = "idle", pc' \in Hopeful, failures' \in {0, failures}
  PROVE  /\ UNCHANGED << suspect, rebuilt >> /\ SuspicionTypeOK'
         /\ failures' <= polls' /\ OneMore' <= polls'
<1>1. pc' # "idle"
  BY DEF Hopeful
<1>2. /\ UNCHANGED << suspect, rebuilt >>
      /\ polls' = IF polls < FailureLimit THEN polls + 1 ELSE polls
  BY <1>1 DEF Suspicion, Success, PollEnds, RunInv, SuspicionTypeOK
<1>3. polls \in 0..FailureLimit /\ failures \in 0..FailureLimit /\ failures <= polls
  BY DEF RunInv, SuspicionTypeOK, CoordinatorTypeOK, RunIsCounted
<1>4. polls' \in 0..FailureLimit /\ polls <= polls' /\ (polls < FailureLimit => polls < polls')
  BY <1>2, <1>3, LimitsAreNumbers
<1>5. failures' \in 0..FailureLimit /\ failures' <= polls
  BY <1>3, LimitsAreNumbers, ZeroIsAnAge
<1>6. OneMore' <= polls'
  <2>1. OneMore' = IF failures' < FailureLimit THEN failures' + 1 ELSE failures'
    BY DEF OneMore
  <2>2. \A m \in 0..FailureLimit : m <= polls =>
          (IF m < FailureLimit THEN m + 1 ELSE m) <= polls'
    BY <1>3, <1>4, LimitsAreNumbers
  <2>3. QED
    BY <1>5, <2>1, <2>2
<1>7. QED
  BY <1>2, <1>3, <1>4, <1>5, <1>6, LimitsAreNumbers DEF RunInv, SuspicionTypeOK

LEMMA SetUpEntryKeeps ==
  ASSUME RunInv, Suspicion, SetUpEntry
  PROVE  PollKeeps
<1>1. /\ pc = "idle" /\ pc' = "reopen" /\ faultAge' = 0
      /\ scanAge' = FromZero(ScanCooldown) /\ keyAge' = FromZero(KeyCooldown)
      /\ fault' = None /\ unreadable' = None /\ tried' = FALSE /\ failures' = 0 /\ reauth' = FALSE
      /\ UNCHANGED << seen, answered, loan, relocating, entry, uptime, real >>
  BY DEF SetUpEntry
<1>2. SuspicionTypeOK' /\ failures' <= polls' /\ OneMore' <= polls'
  BY <1>1, BegunCounts DEF Hopeful
<1>3. CoordinatorTypeOK'
  BY <1>1, FromZeroIsAnAge, LimitsAreNumbers, ZeroIsAnAge DEF RunInv, CoordinatorTypeOK, Rebuilds
<1>4. RunIsCounted'
  <2>1. fault' # "undecryptable" /\ pc' # "rebuild" /\ pc' # "fetchLast"
    BY <1>1, NoneAssumption DEF Faults
  <2>2. QED
    BY <1>1, <1>2, <2>1 DEF RunIsCounted
<1>5. QED
  BY <1>1, <1>2, <1>3, <1>4 DEF RunInv, PollKeeps, PollEnds

LEMMA BeginPollKeeps ==
  ASSUME RunInv, Suspicion, BeginPoll
  PROVE  PollKeeps
<1>1. /\ pc = "idle" /\ pc' \in {"fetch", "reopen"} /\ loan' \in {loan, None}
      /\ UNCHANGED << seen, answered, relocating, scanAge, keyAge, faultAge, fault, unreadable,
                      tried, failures, reauth, entry, uptime, real >>
  BY DEF BeginPoll
<1>2. /\ UNCHANGED << suspect, rebuilt >> /\ SuspicionTypeOK'
      /\ failures' <= polls' /\ OneMore' <= polls'
  BY <1>1, BegunCounts DEF Hopeful
<1>3. CoordinatorTypeOK'
  BY <1>1 DEF RunInv, CoordinatorTypeOK, Fetches, Rebuilds
<1>4. RunIsCounted'
  BY <1>1, <1>2 DEF RunInv, RunIsCounted
<1>5. QED
  BY <1>1, <1>2, <1>3, <1>4 DEF RunInv, PollKeeps, PollEnds

LEMMA RebuiltKeeps ==
  ASSUME RunInv, Suspicion, Rebuilt
  PROVE  PollKeeps
<1>1. /\ pc \in Rebuilds /\ pc' \in Fetches /\ (pc' = "fetchLast" <=> pc = "rebuild")
      /\ UNCHANGED Rest
  BY DEF Rebuilt, Rebuilds, Fetches
<1>2. pc # "idle" /\ pc' \notin {"idle", "rebuild"} /\ (pc' \in Hopeful => pc \in Hopeful)
  BY <1>1 DEF Rebuilds, Fetches, Hopeful
<1>3. UNCHANGED << suspect, polls >> /\ rebuilt' = (rebuilt \/ pc' = "fetchLast")
  BY <1>1, <1>2 DEF Suspicion, Success, PollEnds, RunInv, SuspicionTypeOK
<1>4. CoordinatorTypeOK' /\ SuspicionTypeOK'
  BY <1>1, <1>3 DEF Rest, RunInv, CoordinatorTypeOK, SuspicionTypeOK
<1>5. RunIsCounted'
  BY <1>1, <1>2, <1>3 DEF Rest, RunInv, RunIsCounted, OneMore, Overdue
<1>6. QED
  BY <1>2, <1>4, <1>5 DEF RunInv, PollKeeps, PollEnds

LEMMA AnsweredKeeps ==
  ASSUME RunInv, Suspicion, Answered
  PROVE  PollKeeps
<1>1. /\ pc # "idle" /\ pc' = "idle" /\ seen' = TRUE /\ answered' = TRUE
      /\ failures' = 0 /\ unreadable' = None /\ tried' = FALSE /\ fault' = None /\ reauth' = FALSE
      /\ UNCHANGED << loan, relocating, scanAge, keyAge, faultAge, entry, uptime, real >>
  BY DEF Answered, Fetches
<1>2. polls' = 0 /\ suspect' = None /\ rebuilt' = FALSE
  BY <1>1 DEF Suspicion, Success, PollEnds
<1>3. CoordinatorTypeOK'
  BY <1>1, LimitsAreNumbers, ZeroIsAnAge DEF RunInv, CoordinatorTypeOK
<1>4. SuspicionTypeOK'
  BY <1>2, LimitsAreNumbers, ZeroIsAnAge DEF SuspicionTypeOK
<1>5. RunIsCounted'
  BY <1>1, <1>2, NoneAssumption DEF RunIsCounted, Hopeful, Faults
<1>6. QED
  BY <1>1, <1>3, <1>4, <1>5 DEF RunInv, PollKeeps

LEMMA UnansweredKeeps ==
  ASSUME RunInv, Suspicion, Unanswered
  PROVE  PollKeeps
<1>1. /\ pc \in Fetches /\ UNCHANGED << seen, loan, keyAge, fault, entry, uptime, real >>
      /\ keyAge' \in 0..KeyCooldown /\ fault' \in Faults \union {None}
  BY DEF Unanswered, RunInv, CoordinatorTypeOK
<1>2. scanAge \in 0..ScanCooldown /\ relocating \in {"idle", "scan", "move"}
  BY DEF RunInv, CoordinatorTypeOK
<1>3. CASE pc = "fetchLast"
  <2>1. /\ reauth' = TRUE /\ answered' = FALSE /\ pc' = "idle"
        /\ UNCHANGED << failures, faultAge, unreadable, tried, relocating, scanAge >>
    BY <1>3 DEF Unanswered
  <2>2. LastResort
    BY <1>3 DEF RunInv, RunIsCounted, LastResort
  <2>3. UNCHANGED << suspect, polls, rebuilt >>
    BY <1>3, <2>1 DEF Suspicion, Success, PollEnds, RunInv, SuspicionTypeOK
  <2>4. SuspicionTypeOK' /\ RunIsCounted'
    BY <1>1, <1>3, <2>1, <2>3 DEF RunInv, SuspicionTypeOK, RunIsCounted, Hopeful
  <2>5. CoordinatorTypeOK'
    BY <1>1, <2>1 DEF RunInv, CoordinatorTypeOK
  <2>6. QED
    BY <2>2, <2>4, <2>5 DEF RunInv, PollKeeps
<1>4. CASE pc # "fetchLast"
  <2>1. pc \in Hopeful
    BY <1>1, <1>4 DEF Fetches, Hopeful
  <2>2. \/ TryRediscoverHost
        \/ (TryRefreshLocalKey \/ GiveUp) /\ UNCHANGED << relocating, scanAge >>
    BY <1>1, <1>4 DEF Unanswered, Fetches
  <2>3. /\ Settled /\ scanAge' \in 0..ScanCooldown /\ relocating' \in {"idle", "scan", "move"}
    BY <1>1, <1>2, <2>1, <2>2, RediscoverySettles, RefreshSettles, GiveUpSettles
  <2>4. QED
    BY <1>1, <2>3, SettledKeeps
<1>5. QED
  BY <1>3, <1>4

\* What the scan, the knock and the cloud come to.
LEMMA InquiryKeeps ==
  ASSUME RunInv, Suspicion, NEW yes \in BOOLEAN,
         ScanEnds(yes) \/ KnockEnds(yes) \/ CloudAnswers(yes)
  PROVE  PollKeeps
<1>1. /\ pc \in {"scan", "knock", "cloud"}
      /\ UNCHANGED << seen, loan, relocating, scanAge, fault, entry, uptime, real >>
      /\ keyAge' \in {0, keyAge}
  BY DEF ScanEnds, KnockEnds, CloudAnswers
<1>2. /\ pc \in Hopeful /\ scanAge' \in 0..ScanCooldown /\ keyAge' \in 0..KeyCooldown
      /\ relocating' \in {"idle", "scan", "move"} /\ fault' \in Faults \union {None}
  BY <1>1, LimitsAreNumbers, ZeroIsAnAge DEF Hopeful, RunInv, CoordinatorTypeOK
<1>3. CASE /\ pc' \in {"moved", "cloud", "newkey"}
           /\ UNCHANGED << failures, faultAge, unreadable, tried, reauth, answered >>
  <2>1. pc' \in Hopeful /\ failures' \in 0..FailureLimit /\ faultAge' \in 0..FaultCooldown
    BY <1>3 DEF Hopeful, RunInv, CoordinatorTypeOK
  <2>2. Settled
    BY <1>1, <1>2, <1>3, <2>1, GoesOn
  <2>3. QED
    BY <1>1, <1>2, <2>2, SettledKeeps
<1>4. CASE TryRefreshLocalKey \/ GiveUp
  <2>1. Settled
    BY <1>1, <1>2, <1>4, RefreshSettles, GiveUpSettles
  <2>2. QED
    BY <1>1, <1>2, <2>1, SettledKeeps
<1>5. QED
  BY <1>3, <1>4 DEF ScanEnds, KnockEnds, CloudAnswers

LEMMA ClassifiedKeeps ==
  ASSUME RunInv, NEW f \in Faults \union {None}, Classified(f), SuspicionAfter(f)
  PROVE  PollKeeps
<1>1. /\ pc = "classify" /\ Judge(fault', failures) /\ fault' = (IF f = None THEN fault ELSE f)
      /\ faultAge' \in {faultAge, FaultCooldown}
      /\ UNCHANGED << seen, loan, relocating, scanAge, keyAge, failures, entry, uptime, real >>
  BY DEF Classified
<1>2. /\ fault' \in Faults \union {None} /\ faultAge' \in 0..FaultCooldown
      /\ failures \in 0..FailureLimit /\ failures <= polls
      /\ scanAge' \in 0..ScanCooldown /\ keyAge' \in 0..KeyCooldown
      /\ relocating' \in {"idle", "scan", "move"}
  BY <1>1, LimitsAreNumbers, ZeroIsAnAge DEF RunInv, CoordinatorTypeOK, RunIsCounted
<1>3. /\ suspect' \in (0..Grace) \union {None} /\ polls' = polls /\ rebuilt' \in BOOLEAN
  BY LimitsAreNumbers, ZeroIsAnAge DEF SuspicionAfter, RunInv, SuspicionTypeOK
<1>4. fault' = "undecryptable" => /\ suspect' # None /\ rebuilt' = rebuilt
                                  /\ suspect # None => suspect' = suspect
  <2>1. fault' = "undecryptable" => f \in {None, "undecryptable"}
    BY <1>1
  <2>2. CASE f = None
    <3>1. UNCHANGED suspect /\ UNCHANGED fault /\ rebuilt' = rebuilt
      BY <1>1, <2>2, NoneAssumption DEF SuspicionAfter, RunInv, SuspicionTypeOK, Faults
    <3>2. QED
      BY <3>1 DEF RunInv, RunIsCounted
  <2>3. CASE f = "undecryptable"
    <3>1. f # None /\ 0 # None
      BY <2>3, NoneAssumption DEF Faults
    <3>2. suspect' = (IF suspect = None THEN 0 ELSE suspect) /\ rebuilt' = rebuilt
      BY <2>3, <3>1 DEF SuspicionAfter, RunInv, SuspicionTypeOK
    <3>3. QED
      BY <3>1, <3>2
  <2>4. QED
    BY <2>1, <2>2, <2>3
<1>5. Settled
  BY <1>1, <1>2, <1>3, <1>4, JudgeSettles
<1>6. QED
  BY <1>1, <1>2, <1>5, SettledKeeps

LEMMA PollStep ==
  ASSUME RunInv, \/ PollActs /\ Suspicion
                 \/ \E f \in Faults \union {None} : Classified(f) /\ SuspicionAfter(f)
  PROVE  PollKeeps
BY SetUpEntryKeeps, BeginPollKeeps, RebuiltKeeps, AnsweredKeeps, UnansweredKeeps, InquiryKeeps,
   ClassifiedKeeps DEF PollActs

-----------------------------------------------------------------------------
(* All steps. *)

LEMMA AgesRipen ==
  \A limit \in Nat : \A age \in 0..limit : Ripen(age, limit) \in 0..limit
BY DEF Ripen

LEMMA RunAtFirst == LinkInit => RunInv
<1> SUFFICES ASSUME LinkInit PROVE RunInv
  OBVIOUS
<1>1. uptime \in 0..LongestCooldown
  BY LongestIsANumber, ZeroIsAnAge DEF LinkInit, CoordinatorInit
<1>2. CoordinatorTypeOK
  BY <1>1, FromZeroIsAnAge, LimitsAreNumbers, ZeroIsAnAge
     DEF LinkInit, CoordinatorInit, CoordinatorTypeOK
<1>3. SuspicionTypeOK
  BY LimitsAreNumbers, ZeroIsAnAge DEF LinkInit, HistoryInit, SuspicionTypeOK
<1>4. RunIsCounted
  BY NoneAssumption DEF LinkInit, CoordinatorInit, HistoryInit, RunIsCounted, Hopeful, Faults
<1>5. QED
  BY <1>2, <1>3, <1>4 DEF RunInv

\* Time moves the age of the run and that of the suspicion together.
LEMMA TickKeepsRun ==
  ASSUME RunInv, Tick, suspect' = IF suspect = None THEN None ELSE Ripen(suspect, Grace),
         UNCHANGED << polls, rebuilt >>
  PROVE  RunInv'
<1>1. /\ scanAge' \in 0..ScanCooldown /\ keyAge' \in 0..KeyCooldown
      /\ faultAge' \in 0..FaultCooldown /\ suspect' \in (0..Grace) \union {None}
      /\ unreadable' \in (0..Grace) \union {None} /\ uptime' \in 0..LongestCooldown
  BY LimitsAreNumbers, LongestIsANumber, AgesRipen
     DEF Tick, RunInv, CoordinatorTypeOK, SuspicionTypeOK
<1>2. loan' \in Nat \union {None}
  <2>1. loan \in Nat \union {None} /\ loan' = IF Lent THEN loan - 1 ELSE loan
    BY DEF Tick, RunInv, CoordinatorTypeOK
  <2>2. QED
    BY <2>1 DEF Lent
<1>3. UNCHANGED << pc, seen, answered, relocating, fault, tried, failures, reauth, entry, real >>
  BY DEF Tick
<1>4. CoordinatorTypeOK' /\ SuspicionTypeOK'
  BY <1>1, <1>2, <1>3 DEF RunInv, CoordinatorTypeOK, SuspicionTypeOK
<1>5. suspect # None => suspect \in 0..Grace /\ suspect' \in 0..Grace /\ suspect' >= suspect
                        /\ suspect' = Ripen(suspect, Grace)
  BY LimitsAreNumbers DEF RunInv, SuspicionTypeOK, Ripen
<1>6. suspect # None => suspect' # None
  BY <1>5, NoneAssumption
<1>7. unreadable' # None => suspect' # None /\ unreadable' <= suspect'
  <2>1. CASE unreadable = None
    BY <2>1 DEF Tick
  <2>2. CASE unreadable # None
    <3>1. /\ unreadable \in 0..Grace /\ suspect # None /\ unreadable <= suspect
          /\ unreadable' = Ripen(unreadable, Grace)
      BY <2>2 DEF RunInv, CoordinatorTypeOK, RunIsCounted, Tick
    <3>2. QED
      BY <1>5, <1>6, <3>1, LimitsAreNumbers DEF Ripen
  <2>3. QED
    BY <2>1, <2>2
<1>8. Overdue => Overdue'
  BY <1>5, <1>6, LimitsAreNumbers DEF Overdue
<1>9. RunIsCounted'
  BY <1>3, <1>6, <1>7, <1>8 DEF RunInv, RunIsCounted, OneMore
<1>10. QED
  BY <1>4, <1>9 DEF RunInv

\* The relocation, the loan and the client's own steps leave the run alone.
LEMMA OthersKeepRun ==
  ASSUME RunInv, UNCHANGED suspicionVars,
         \/ \E found \in BOOLEAN : RelocationEnds(found)
         \/ \E duration \in LoanTimes : ReleaseConnection(duration)
         \/ Relocated \/ ResumeConnection \/ RealChanges \/ ClientActs
  PROVE  RunInv' /\ UNCHANGED pc
<1>1. /\ UNCHANGED << pc, seen, answered, scanAge, keyAge, faultAge, fault, unreadable, tried,
                      failures, reauth, entry, uptime >>
      /\ relocating' \in {"idle", "move", relocating}
      /\ loan' \in LoanTimes \union {0, loan} /\ real' \in Addresses \union {real}
  BY DEF RelocationEnds, ReleaseConnection, Relocated, ResumeConnection, RealChanges, ClientActs,
         coordVars
<1>2. CoordinatorTypeOK'
  <2>1. LoanTimes \subseteq Nat
    BY CoordinatorAssumption
  <2>2. /\ relocating' \in {"idle", "scan", "move"} /\ loan' \in Nat \union {None}
        /\ real' \in Addresses
    BY <1>1, <2>1 DEF RunInv, CoordinatorTypeOK
  <2>3. QED
    BY <1>1, <2>2 DEF RunInv, CoordinatorTypeOK
<1>3. SuspicionTypeOK'
  BY DEF RunInv, SuspicionTypeOK, suspicionVars
<1>4. RunIsCounted'
  BY <1>1 DEF RunInv, RunIsCounted, OneMore, Overdue, suspicionVars
<1>5. QED
  BY <1>1, <1>2, <1>3, <1>4 DEF RunInv

LEMMA RunStep ==
  ASSUME RunInv, [HistoryNext]_linkVars
  PROVE  RunInv' /\ (PollEnds /\ reauth' => LastResort)
<1>1. CASE /\ Tick /\ suspect' = IF suspect = None THEN None ELSE Ripen(suspect, Grace)
           /\ UNCHANGED << polls, rebuilt >>
  BY <1>1, TickKeepsRun DEF Tick, PollEnds
<1>2. CASE \/ PollActs /\ Suspicion
           \/ \E f \in Faults \union {None} : Classified(f) /\ SuspicionAfter(f)
  BY <1>2, PollStep DEF PollKeeps
<1>3. CASE /\ \/ \E found \in BOOLEAN : RelocationEnds(found)
              \/ \E duration \in LoanTimes : ReleaseConnection(duration)
              \/ Relocated \/ ResumeConnection \/ RealChanges \/ ClientActs
           /\ UNCHANGED suspicionVars
  BY <1>3, OthersKeepRun DEF PollEnds
<1>4. CASE UNCHANGED linkVars
  BY <1>4 DEF linkVars, allVars, coordVars, historyVars, suspicionVars, RunInv, CoordinatorTypeOK,
              SuspicionTypeOK, RunIsCounted, Overdue, OneMore, PollEnds
<1>5. QED
  BY <1>1, <1>2, <1>3, <1>4 DEF HistoryNext, historyVars

LEMMA RunInvariance == HistorySpec => []RunInv
BY RunAtFirst, RunStep, PTL DEF HistorySpec

-----------------------------------------------------------------------------
\* What the coordinator keeps of its polls, its loan and its relocation has its type
\* however they interleave (coordinator.py).
THEOREM CoordinatorTyped == HistorySpec => []CoordinatorTypeOK
<1>1. RunInv => CoordinatorTypeOK
  BY DEF RunInv
<1>2. QED
  BY <1>1, RunInvariance, PTL

\* The key is asked for only if the charger was diagnosed undecryptable at least the grace
\* period ago, nothing else was diagnosed and no poll succeeded since, enough polls were
\* begun and the client was rebuilt to no avail, for any grace period, limit and cooldown
\* of the diagnosis (ConfigEntryAuthFailed, "so it is the last resort").
THEOREM ReauthIsLast == HistorySpec => ReauthIsLastResort
<1>1. RunInv /\ [HistoryNext]_linkVars =>
        [PollEnds /\ reauth' =>
           /\ suspect # None /\ suspect >= Grace
           /\ polls >= FailureLimit
           /\ rebuilt]_linkVars
  BY RunStep DEF LastResort, Overdue
<1>2. QED
  BY <1>1, RunInvariance, PTL DEF HistorySpec, ReauthIsLastResort

-----------------------------------------------------------------------------
(* The loan, and the address.                                              *)

LEMMA LoanAtFirst == LinkInit => LoanInv
<1> SUFFICES ASSUME LinkInit PROVE LoanInv
  OBVIOUS
<1>1. IInv
  BY InitEstablishes DEF LinkInit, CoordinatorInit
<1>2. CallsAreOwn
  BY CoordinatorAssumption DEF LinkInit, CoordinatorInit, Init, CallsAreOwn
<1>3. LoanHasCaught /\ StaysClosed
  BY DEF LinkInit, CoordinatorInit, LoanHasCaught, StaysClosed, Lent
<1>4. BuiltForAddress
  BY DEF LinkInit, CoordinatorInit, BuiltForAddress
<1>5. QED
  BY <1>1, <1>2, <1>3, <1>4 DEF LoanInv

\* Only the poll ever has a thread.
LEMMA ThreadsAreThePolls ==
  ASSUME LoanInv, NEW t \in Tasks, thread[t] # None
  PROVE  t = "poll" /\ holder = t /\ pc # "idle"
<1>1. holder = t /\ call[t] # None /\ call[t].op \in {"read", "command"}
  BY DEF LoanInv, IInv, Serialised, ThreadsServeCalls
<1>2. t \in {"poll", "relocation", "loan"}
  BY CoordinatorAssumption
<1>3. t = "poll"
  BY <1>1, <1>2 DEF LoanInv, CallsAreOwn
<1>4. QED
  BY <1>1, <1>3 DEF LoanInv, CallsAreOwn, Fetches, Rebuilds

\* A reply concerns the call it answers.
LEMMA ReplyIsOwn ==
  ASSUME TypeOK, NEW t \in Tasks, NEW reply, Replied(t, reply), reply \in Replies,
         call[t] # None, call[t].op \in {"read", "command"}, NEW u \in Tasks \ {t}
  PROVE  call'[u] = call[u]
<1>1. call \in [Tasks -> Calls \union {None}]
  BY DEF TypeOK
<1>2. ASSUME NEW outcome, Finish(t, outcome) PROVE call'[u] = call[u]
  BY <1>1, <1>2 DEF Finish
<1>3. ASSUME NEW c, AfterReadBack(t, c) PROVE call'[u] = call[u]
  BY <1>1, <1>2, <1>3 DEF AfterReadBack
<1>4. call[t].op = "command" => call[t].stage \in {"write", "verify"}
  BY <1>1 DEF Calls, Fetch, Plumbing, Command
<1>5. \/ \E outcome : Finish(t, outcome)
      \/ \E c : AfterReadBack(t, c)
  BY <1>4 DEF Replied, Replies
<1>6. QED
  BY <1>2, <1>3, <1>5

ClientStep(t) ==
  \/ ConnectEnds(t) \/ CloseEnds(t) \/ Refused(t) \/ StartIO(t) \/ TimesOut(t) \/ StuckCloses(t)
  \/ \E reply \in Replies : ThreadReturns(t, reply)

\* The client's own steps end a call or, in a thread, go on with it.
LEMMA StepsAreOwn ==
  ASSUME LoanInv, NEW t \in Tasks, ClientStep(t)
  PROVE  /\ \A u \in Tasks \ {t} : call'[u] = call[u]
         /\ call'[t] # None => call'[t] = call[t] \/ thread[t] # None
         /\ call[t] # None
<1>1. TypeOK /\ call \in [Tasks -> Calls \union {None}]
  BY DEF LoanInv, IInv, TypeOK
<1>2. CASE ConnectEnds(t) \/ CloseEnds(t) \/ Refused(t)
  <2>1. call[t] # None /\ call' = [call EXCEPT ![t] = None]
    BY <1>2 DEF ConnectEnds, CloseEnds, Refused, Holds, Finish
  <2>2. QED
    BY <1>1, <2>1
<1>3. CASE StartIO(t)
  BY <1>3 DEF StartIO, Holds
<1>4. CASE TimesOut(t)
  BY <1>4 DEF TimesOut, LoanInv, IInv, ThreadsServeCalls
<1>5. CASE StuckCloses(t) \/ \E reply \in Replies : ThreadReturns(t, reply)
  <2>1. thread[t] # None /\ call[t] # None /\ call[t].op \in {"read", "command"}
    BY <1>5 DEF StuckCloses, ThreadReturns, LoanInv, IInv, ThreadsServeCalls
  <2>2. PICK reply \in Replies : Replied(t, reply)
    BY <1>5 DEF StuckCloses, ThreadReturns, TimeOutReply, Replies
  <2>3. QED
    BY <1>1, <2>1, <2>2, ReplyIsOwn
<1>6. QED
  BY <1>2, <1>3, <1>4, <1>5 DEF ClientStep

LEMMA CallsStayOwn ==
  ASSUME LoanInv, NEW t \in Tasks, ClientStep(t), UNCHANGED coordVars
  PROVE  CallsAreOwn'
<1>1. /\ \A u \in Tasks : call'[u] # None =>
           call[u] # None /\ (call'[u] = call[u] \/ u = "poll")
  BY StepsAreOwn, ThreadsAreThePolls
<1>2. {"poll", "relocation", "loan"} \subseteq Tasks
  BY CoordinatorAssumption
<1>3. QED
  BY <1>1, <1>2 DEF LoanInv, CallsAreOwn, coordVars

\* Closed, the client is opened again only by what the loan has caught.
LEMMA StepsStayClosed ==
  ASSUME LoanInv, NEW t \in Tasks, ClientStep(t), UNCHANGED coordVars,
         retaken' = (retaken \/ ConnectionRetaken)
  PROVE  StaysClosed'
<1> SUFFICES ASSUME Lent', call'["loan"] = None, Usable' \/ \E u \in Tasks : thread'[u] # None
             PROVE  retaken'
  BY DEF StaysClosed, Returned
<1>0. Lent /\ {"poll", "relocation", "loan"} = Tasks
  BY CoordinatorAssumption DEF coordVars, Lent
<1>1. ASSUME CloseEnds(t) PROVE FALSE
  <2>1. holder = t /\ call[t] # None /\ call[t].op = "close" /\ thread' = thread
        /\ device' = None /\ reconnect' = FALSE
    BY <1>1 DEF CloseEnds, Holds
  <2>2. \A u \in Tasks : thread[u] = None
    BY <2>1, ThreadsAreThePolls DEF LoanInv, IInv, ThreadsServeCalls
  <2>3. QED
    BY <2>1, <2>2 DEF Usable
<1>2. CASE call["loan"] # None
  <2>1. t = "loan"
    BY <1>0, <1>2, StepsAreOwn
  <2>2. call[t].op = "close" /\ thread[t] = None
    BY <1>0, <1>2, <2>1, ThreadsAreThePolls DEF LoanInv, CallsAreOwn
  <2>3. CloseEnds(t)
    BY <1>2, <2>1, <2>2 DEF ClientStep, ConnectEnds, Refused, StartIO, TimesOut, StuckCloses,
                            ThreadReturns, Holds
  <2>4. QED
    BY <1>1, <2>3
<1>3. CASE call["loan"] = None /\ ~retaken
  <2>1. ~Usable /\ \A u \in Tasks : thread[u] = None
    BY <1>0, <1>3 DEF LoanInv, StaysClosed, Returned
  <2>2. ConnectEnds(t) \/ Refused(t)
    BY <1>1, <2>1 DEF ClientStep, StartIO, TimesOut, StuckCloses, ThreadReturns
  <2>3. ConnectEnds(t)
    <3>1. Refused(t) => UNCHANGED << device, reconnect, thread >>
      BY DEF Refused
    <3>2. QED
      BY <2>1, <2>2, <3>1 DEF Usable
  <2>4. t \in caught
    <3>1. call[t] # None /\ call[t].op = "connect"
      BY <2>3 DEF ConnectEnds, Holds
    <3>2. t \in {"poll", "relocation"}
      BY <1>0, <3>1 DEF LoanInv, CallsAreOwn
    <3>3. QED
      BY <1>0, <3>1, <3>2 DEF LoanInv, CallsAreOwn, LoanHasCaught, Fetches, Rebuilds
  <2>5. QED
    BY <1>0, <1>3, <2>3, <2>4 DEF ConnectionRetaken, Returned
<1>4. QED
  BY <1>2, <1>3

\* A rebuild that ends is for the address as it is by then.
LEMMA StepsBuildForAddress ==
  ASSUME LoanInv, NEW t \in Tasks, ClientStep(t)
  PROVE  BuiltForAddress'
<1>1. CASE ConnectEnds(t) \/ CloseEnds(t) \/ TimesOut(t)
  BY <1>1 DEF ConnectEnds, CloseEnds, TimesOut, BuiltForAddress
<1>2. CASE Refused(t) \/ StartIO(t) \/ StuckCloses(t) \/ \E reply \in Replies : ThreadReturns(t, reply)
  <2>1. device' \in {device, address} /\ address' = address
    BY <1>2 DEF Refused, StartIO, StuckCloses, ThreadReturns
  <2>2. call[t].op \in {"read", "command"}
    BY <1>2 DEF Refused, StartIO, StuckCloses, ThreadReturns, Holds, LoanInv, IInv,
                ThreadsServeCalls
  <2>3. \A u \in Tasks : call[u] # None /\ call[u].op = "connect" => call'[u] = call[u]
    BY <2>2, StepsAreOwn
  <2>4. QED
    BY <2>1, <2>3 DEF LoanInv, BuiltForAddress
<1>3. QED
  BY <1>1, <1>2 DEF ClientStep

\* What the coordinator asks of the client: nothing, or one more call, which touches neither
\* the device nor a thread, and brings the address only with a rebuild.
Asks(t) ==
  \/ UNCHANGED clientVars
  \/ \E c : Call(t, c) /\ UNCHANGED address
  \/ \E a : Connect(t, a)

LEMMA AskingKeeps ==
  ASSUME LoanInv, NEW t \in Tasks, Asks(t)
  PROVE  /\ UNCHANGED << device, reconnect, thread >>
         /\ \A u \in Tasks \ {t} : call'[u] = call[u]
         /\ BuiltForAddress'
<1>1. call \in [Tasks -> Calls \union {None}]
  BY DEF LoanInv, IInv, TypeOK
<1>2. CASE UNCHANGED clientVars
  BY <1>2 DEF clientVars, LoanInv, BuiltForAddress
<1>3. ASSUME NEW c, Call(t, c)
      PROVE  /\ UNCHANGED << device, reconnect, thread >>
             /\ \A u \in Tasks \ {t} : call'[u] = call[u]
             /\ call[t] = None /\ call'[t] = c
  BY <1>1, <1>3 DEF Call
<1>4. CASE \E c : Call(t, c) /\ UNCHANGED address
  <2>1. PICK c : Call(t, c) /\ UNCHANGED address
    BY <1>4
  <2>2. \A u \in Tasks : call[u] # None => call'[u] = call[u]
    BY <1>3, <2>1
  <2>3. BuiltForAddress'
    BY <1>3, <2>1, <2>2 DEF LoanInv, BuiltForAddress
  <2>4. QED
    BY <1>3, <2>1, <2>3
<1>5. CASE \E a : Connect(t, a)
  <2>1. Call(t, [op |-> "connect"])
    BY <1>5 DEF Connect
  <2>2. call'[t] = [op |-> "connect"] /\ [op |-> "connect"] # None
    BY <1>3, <2>1, NoCallAssumption DEF Calls, Plumbing
  <2>3. BuiltForAddress'
    BY <2>2 DEF BuiltForAddress
  <2>4. QED
    BY <1>3, <2>1, <2>3
<1>6. QED
  BY <1>2, <1>4, <1>5 DEF Asks

\* Whoever asks, but for the loan, leaves a closed client closed.
LEMMA AskingStaysClosed ==
  ASSUME LoanInv, NEW t \in Tasks, t # "loan" \/ UNCHANGED clientVars, Asks(t),
         Lent' => Lent, UNCHANGED retaken
  PROVE  StaysClosed'
<1>1. UNCHANGED << device, reconnect, thread >> /\ call'["loan"] = call["loan"]
  BY AskingKeeps, CoordinatorAssumption DEF clientVars
<1>2. QED
  BY <1>1 DEF LoanInv, StaysClosed, Usable, Returned

LEMMA PollIsOwn ==
  ASSUME LoanInv, RunInv, Poll
  PROVE  CallsAreOwn' /\ Asks("poll")
<1>1. /\ call["poll"] = None
      /\ UNCHANGED relocating \/ (relocating = "idle" /\ relocating' = "scan")
  <2>1. PollActs => /\ call["poll"] = None
                    /\ UNCHANGED relocating \/ (relocating = "idle" /\ relocating' = "scan")
    BY DEF PollActs, SetUpEntry, BeginPoll, Rebuilt, Rest, Answered, Unanswered, ScanEnds,
           KnockEnds, CloudAnswers, TryRediscoverHost, Returned, LoanInv, CallsAreOwn, Fetches,
           Rebuilds
  <2>2. (\E f \in Faults \union {None} : Classified(f)) =>
          call["poll"] = None /\ UNCHANGED relocating
    BY DEF Classified, LoanInv, CallsAreOwn, Fetches, Rebuilds
  <2>3. QED
    BY <2>1, <2>2 DEF Poll
<1>2. PollCallsClient
  BY PollCalls DEF LoanInv, IInv, TypeOK, RunInv
<1>3. Asks("poll")
  BY <1>2 DEF PollCallsClient, Asks, Read
<1>4. {"poll", "relocation", "loan"} = Tasks
  BY CoordinatorAssumption
<1>5. call'["relocation"] = call["relocation"] /\ call'["loan"] = call["loan"]
  BY <1>3, <1>4, AskingKeeps
<1>6. call'["poll"] # None => pc' \in Fetches \union Rebuilds
  BY <1>1, <1>2 DEF PollCallsClient, clientVars
<1>7. QED
  BY <1>1, <1>3, <1>5, <1>6 DEF LoanInv, CallsAreOwn

\* A poll begins only when the connection is not lent, and what one that was caught starts
\* was caught with it.
LEMMA PollWasCaught ==
  ASSUME LoanInv, Poll, Caught
  PROVE  LoanHasCaught' /\ (Lent' => Lent)
<1>1. /\ loan' \in {loan, None} /\ seen' \in {seen, TRUE}
      /\ UNCHANGED relocating \/ (relocating = "idle" /\ relocating' = "scan")
      /\ pc # "idle" \/ (~Lent /\ loan' = None) \/ (~seen /\ UNCHANGED loan)
  BY DEF Poll, PollActs, SetUpEntry, BeginPoll, Rebuilt, Rest, Answered, Unanswered, ScanEnds,
         KnockEnds, CloudAnswers, TryRediscoverHost, Classified, Fetches, Rebuilds
<1>2. Lent' => Lent /\ UNCHANGED loan
  BY <1>1 DEF Lent
<1>3. Lent' => pc # "idle" /\ "poll" \in caught
  BY <1>1, <1>2 DEF Lent, LoanInv, LoanHasCaught
<1>4. loan' # None => seen'
  <2>1. loan' # None => seen
    BY <1>1 DEF LoanInv, LoanHasCaught
  <2>2. seen' = seen \/ seen' = TRUE
    BY <1>1
  <2>3. seen => seen'
    BY <2>2, Zenon
  <2>4. QED
    BY <2>1, <2>3
<1>5. Lent' => /\ pc' # "idle" => "poll" \in caught'
               /\ relocating' # "idle" => "relocation" \in caught'
  BY <1>1, <1>2, <1>3 DEF Caught, LoanInv, LoanHasCaught
<1>6. QED
  BY <1>2, <1>4, <1>5 DEF LoanHasCaught

LEMMA RelocationIsOwn ==
  ASSUME LoanInv, RunInv, (\E found \in BOOLEAN : RelocationEnds(found)) \/ Relocated, Caught
  PROVE  CallsAreOwn' /\ Asks("relocation") /\ LoanHasCaught' /\ UNCHANGED loan
<1>1. {"poll", "relocation", "loan"} = Tasks /\ call \in [Tasks -> Calls \union {None}]
  BY CoordinatorAssumption DEF LoanInv, IInv, TypeOK
<1>2. /\ UNCHANGED << pc, seen, loan >> /\ relocating # "idle" /\ call["relocation"] = None
  BY DEF RelocationEnds, Relocated, Returned, LoanInv, CallsAreOwn
<1>3. \/ UNCHANGED clientVars /\ relocating' = "idle"
      \/ relocating' = "move" /\ \E a : Connect("relocation", a)
  BY RelocationCalls DEF Relocated, LoanInv, IInv, TypeOK, RunInv
<1>4. Asks("relocation")
  BY <1>3 DEF Asks
<1>5. call'["poll"] = call["poll"] /\ call'["loan"] = call["loan"]
  BY <1>1, <1>4, AskingKeeps
<1>6. call'["relocation"] # None =>
        relocating' = "move" /\ call'["relocation"].op = "connect"
  BY <1>1, <1>2, <1>3 DEF clientVars, Connect, Call
<1>7. CallsAreOwn'
  BY <1>2, <1>5, <1>6 DEF LoanInv, CallsAreOwn
<1>8. LoanHasCaught'
  BY <1>2 DEF Caught, LoanInv, LoanHasCaught, Lent
<1>9. QED
  BY <1>2, <1>4, <1>7, <1>8

\* A loan begins with its close, and with a record of all that is under way.
LEMMA LoanIsOwn ==
  ASSUME LoanInv, NEW duration \in LoanTimes, ReleaseConnection(duration), caught' = UnderWay
  PROVE  CallsAreOwn' /\ Asks("loan") /\ LoanHasCaught' /\ StaysClosed'
<1>1. {"poll", "relocation", "loan"} = Tasks /\ call \in [Tasks -> Calls \union {None}]
  BY CoordinatorAssumption DEF LoanInv, IInv, TypeOK
<1>2. Call("loan", [op |-> "close"]) /\ UNCHANGED << address, pc, relocating, seen >> /\ seen
  BY DEF ReleaseConnection, Close
<1>3. Asks("loan")
  BY <1>2 DEF Asks
<1>4. call'["loan"] = [op |-> "close"] /\ [op |-> "close"] # None
  BY <1>1, <1>2, NoCallAssumption DEF Call, Calls, Plumbing
<1>5. call'["poll"] = call["poll"] /\ call'["relocation"] = call["relocation"]
  BY <1>1, <1>3, AskingKeeps
<1>6. CallsAreOwn'
  BY <1>2, <1>4, <1>5 DEF LoanInv, CallsAreOwn
<1>7. LoanHasCaught'
  BY <1>2 DEF UnderWay, LoanHasCaught
<1>8. StaysClosed'
  BY <1>4 DEF StaysClosed, Returned
<1>9. QED
  BY <1>3, <1>6, <1>7, <1>8

\* Time, the end of a loan and the charger itself.
LEMMA OthersKeepLoan ==
  ASSUME LoanInv, RunInv, UNCHANGED << clientVars, pc, seen, relocating, caught, retaken >>,
         Lent' => Lent, loan' # None => seen'
  PROVE  LoanInv'
<1>1. IInv'
  BY NextKeeps DEF LoanInv
<1>2. CallsAreOwn'
  BY DEF LoanInv, CallsAreOwn, clientVars
<1>3. LoanHasCaught'
  BY DEF LoanInv, LoanHasCaught
<1>4. StaysClosed' /\ BuiltForAddress'
  BY DEF LoanInv, StaysClosed, BuiltForAddress, Usable, Returned, clientVars
<1>5. QED
  BY <1>1, <1>2, <1>3, <1>4 DEF LoanInv

LEMMA LoanStep ==
  ASSUME LoanInv, RunInv, [HistoryNext]_linkVars
  PROVE  LoanInv'
<1>0. IInv' /\ {"poll", "relocation", "loan"} = Tasks
  BY ClientSteps, NextKeeps, CoordinatorAssumption DEF LoanInv, IInv, TypeOK, RunInv
<1>1. CASE Poll /\ Caught /\ UNCHANGED retaken
  <2>1. CallsAreOwn' /\ Asks("poll") /\ LoanHasCaught' /\ (Lent' => Lent)
    BY <1>1, PollIsOwn, PollWasCaught
  <2>2. BuiltForAddress' /\ StaysClosed'
    BY <1>0, <1>1, <2>1, AskingKeeps, AskingStaysClosed
  <2>3. QED
    BY <1>0, <2>1, <2>2 DEF LoanInv
<1>2. CASE /\ (\E found \in BOOLEAN : RelocationEnds(found)) \/ Relocated
           /\ Caught /\ UNCHANGED retaken
  <2>1. CallsAreOwn' /\ Asks("relocation") /\ LoanHasCaught' /\ UNCHANGED loan
    BY <1>2, RelocationIsOwn
  <2>2. Lent' => Lent
    BY <2>1 DEF Lent
  <2>3. BuiltForAddress' /\ StaysClosed'
    BY <1>0, <1>2, <2>1, <2>2, AskingKeeps, AskingStaysClosed
  <2>4. QED
    BY <1>0, <2>1, <2>3 DEF LoanInv
<1>3. CASE (\E duration \in LoanTimes : ReleaseConnection(duration)) /\ caught' = UnderWay
  <2>1. CallsAreOwn' /\ Asks("loan") /\ LoanHasCaught' /\ StaysClosed'
    BY <1>3, LoanIsOwn
  <2>2. BuiltForAddress'
    BY <1>0, <2>1, AskingKeeps
  <2>3. QED
    BY <1>0, <2>1, <2>2 DEF LoanInv
<1>4. CASE ClientActs /\ retaken' = (retaken \/ ConnectionRetaken) /\ UNCHANGED caught
  <2>1. PICK t \in Tasks : ClientStep(t)
    BY <1>4 DEF ClientActs, ClientStep, Replies
  <2>2. UNCHANGED coordVars
    BY <1>4 DEF ClientActs
  <2>3. CallsAreOwn' /\ StaysClosed' /\ BuiltForAddress'
    BY <1>4, <2>1, <2>2, CallsStayOwn, StepsStayClosed, StepsBuildForAddress
  <2>4. LoanHasCaught'
    BY <1>4, <2>2 DEF LoanInv, LoanHasCaught, Lent, coordVars
  <2>5. QED
    BY <1>0, <2>3, <2>4 DEF LoanInv
<1>5. CASE (Tick \/ ResumeConnection \/ RealChanges) /\ UNCHANGED << caught, retaken >>
  <2>1. UNCHANGED << clientVars, pc, seen, relocating >>
    BY <1>5 DEF Tick, ResumeConnection, RealChanges
  <2>2. (Lent' => Lent) /\ (loan' # None => seen')
    BY <1>5 DEF Tick, ResumeConnection, RealChanges, Lent, LoanInv, LoanHasCaught
  <2>3. QED
    BY <1>5, <2>1, <2>2, OthersKeepLoan
<1>6. CASE UNCHANGED linkVars
  <2>1. UNCHANGED << clientVars, pc, seen, relocating, loan, caught, retaken >>
    BY <1>6 DEF linkVars, allVars, coordVars, historyVars
  <2>2. (Lent' => Lent) /\ (loan' # None => seen')
    BY <2>1 DEF Lent, LoanInv, LoanHasCaught
  <2>3. QED
    BY <2>1, <2>2, OthersKeepLoan
<1>7. QED
  BY <1>1, <1>2, <1>3, <1>4, <1>5, <1>6 DEF HistoryNext, historyVars, Poll

LEMMA LoanInvariance == HistorySpec => []LoanInv
BY LoanAtFirst, LoanStep, RunInvariance, PTL DEF HistorySpec

\* While the connection is lent, the charger is touched only by a poll that the loan found
\* under way, and a closed client is usable again only after what the loan found under way
\* has rebuilt it, for any length of the loan (_async_handle_release).
THEOREM LentIsQuiet == HistorySpec => []LoanIsQuiet
<1>1. ASSUME LoanInv PROVE LoanIsQuiet
  <2>1. ASSUME Lent, Touching PROVE "poll" \in caught
    <3>1. pc # "idle"
      BY <1>1, <2>1, ThreadsAreThePolls DEF Touching
    <3>2. QED
      BY <1>1, <2>1, <3>1 DEF LoanInv, LoanHasCaught
  <2>2. QED
    BY <1>1, <2>1 DEF LoanInv, StaysClosed, LoanIsQuiet
<1>2. QED
  BY <1>1, LoanInvariance, PTL

\* Whichever of the poll and the relocation learns a new key or a new host, and in whatever
\* order their rebuilds get the lock, no device of an older address outlasts the last of
\* them (async_update_host, async_update_local_key).
THEOREM DeviceFitsAddress == HistorySpec => []BuiltForAddress
<1>1. LoanInv => BuiltForAddress
  BY DEF LoanInv
<1>2. QED
  BY <1>1, LoanInvariance, PTL

\* The coordinator uses its client as a client may be used: whatever is proved of every
\* client holds of this one, a late write's harmlessness among it.
THEOREM CoordinatorIsAClient == HistorySpec => Spec /\ LateWritesHarmless
<1>1. LinkInit => Init
  BY DEF LinkInit, CoordinatorInit
<1>2. LoanInv /\ RunInv /\ [HistoryNext]_linkVars => [Next]_clientVars
  BY ClientSteps DEF LoanInv, IInv, TypeOK, RunInv
<1>3. HistorySpec => Spec
  BY <1>1, <1>2, LoanInvariance, RunInvariance, PTL DEF HistorySpec, Spec
<1>4. QED
  BY <1>3, StuckWritesAreHarmless

=============================================================================
