---------------------------- MODULE RestartsProofs ----------------------------
(***************************************************************************)
(* Restarts for any deadlines, charges, signatures, vehicles and size of   *)
(* the log.  The argument: while the file is not behind it says what is    *)
(* due, and it is never behind while the entry is down; the record the     *)
(* charger reports only ever moves to a later charge, and a session of the *)
(* log is either older than the record or is the one the signature was     *)
(* taken from.                                                             *)
(***************************************************************************)
EXTENDS Restarts, SequenceTheorems, TLAPS

TrackerType == [active : Car \union {None}, totals : [Car -> Nat],
                last : (0..MaxEnergy) \union {None}]

Types ==
  /\ MemoryTypeOK /\ AccountsTypeOK
  /\ tracker \in TrackerType
  /\ due \in [Deadlines -> 0..Horizon]
  /\ behind \in BOOLEAN
  /\ inherited \in Charges \union {0}

\* The file is as good as the memory, unless it is behind.
FileIsGood ==
  /\ up => until = due
  /\ ~behind => stored.until = due
  /\ ~up => ~behind

\* Where the record and the log stand.
RecordIsAhead ==
  /\ charge.on => record.id < charge.id
  /\ record.id <= charge.id
  /\ inherited <= record.id
  /\ ~up => ~primed
  /\ primed /\ record.reads # signature => record.id > inherited
  /\ log # << >> => \/ Head(log).id < record.id
                    \/ Head(log).id = record.id /\ signature = record.reads

IInv == Types /\ FileIsGood /\ RecordIsAhead

\* The counter is no further ahead of the last reading than what was delivered since.
CounterIsCovered ==
  /\ uncounted \in Nat
  /\ tracker.last # None => charge.energy <= tracker.last + uncounted

Session == [id : Charges, split : SUBSET Charges]

-----------------------------------------------------------------------------
\* The log as a sequence of bounded length (_sessions, cut to MAX_SESSIONS).
LEMMA LogIsShort ==
  ASSUME NEW S, NEW n \in Nat
  PROVE  BoundedSeq(S, n) = {s \in Seq(S) : Len(s) <= n}
<1>1. ASSUME NEW s \in BoundedSeq(S, n)
      PROVE  s \in Seq(S) /\ Len(s) <= n
  <2>1. PICK m \in 0..n : s \in [1..m -> S]
    BY DEF BoundedSeq, SeqOf
  <2>2. QED
    BY <2>1
<1>2. ASSUME NEW s \in Seq(S), Len(s) <= n
      PROVE  s \in BoundedSeq(S, n)
  <2>1. Len(s) \in 0..n /\ s \in [1..Len(s) -> S]
    BY <1>2, LenProperties
  <2>2. QED
    BY <2>1 DEF BoundedSeq, SeqOf
<1>3. QED
  BY <1>1, <1>2

\* Logging puts the new session first and keeps the bound (SessionHistory.async_record).
LEMMA NewestFirst ==
  ASSUME NEW S, NEW x \in S, NEW l \in BoundedSeq(S, MaxSessions),
         NEW n, n = (IF Len(l) < MaxSessions THEN Len(l) + 1 ELSE MaxSessions)
  PROVE  LET r == SubSeq(<< x >> \o l, 1, n)
         IN  r \in BoundedSeq(S, MaxSessions) /\ r # << >> /\ Head(r) = x
<1> DEFINE all == << x >> \o l
           r == SubSeq(all, 1, n)
<1>1. MaxSessions \in Nat \ {0}
  BY AccountsAssumption
<1>2. l \in Seq(S) /\ Len(l) \in Nat /\ Len(l) <= MaxSessions
  BY <1>1, LogIsShort, LenProperties
<1>3. all \in Seq(S) /\ Len(all) = Len(l) + 1 /\ all[1] = x
  BY <1>2, ConcatProperties
<1>4. n \in 1..Len(all) /\ n <= MaxSessions
  BY <1>1, <1>2, <1>3
<1> HIDE DEF all
<1>5. r \in Seq(S) /\ Len(r) = n
  <2>1. \A i \in 1..n : all[i] \in S
    BY <1>3, <1>4, LenProperties
  <2>2. QED
    BY <2>1, <1>4, SubSeqProperties
<1>6. Head(r) = x
  BY <1>3, <1>4, HeadTailOfSubSeq
<1>7. r # << >>
  BY <1>4, <1>5
<1> HIDE DEF r
<1>8. r \in BoundedSeq(S, MaxSessions)
  BY <1>1, <1>4, <1>5, LogIsShort
<1>9. QED
  BY <1>6, <1>7, <1>8 DEF all, r

LEMMA IdsAreNumbers == Charges \union {0} \subseteq Nat
BY MemoryAssumption

\* Time moves a deadline to one that is still a deadline (_is_pause_active).
LEMMA LaterType ==
  ASSUME NEW left \in [Deadlines -> 0..Horizon]
  PROVE  Later(left) \in [Deadlines -> 0..Horizon]
BY MemoryAssumption DEF Later

\* What a reading of the counter credits keeps the tracker's type (async_process_counter).
LEMMA CreditedType ==
  ASSUME NEW t \in TrackerType, NEW counter \in 0..MaxEnergy
  PROVE  Credited(t, counter) \in TrackerType
<1> DEFINE delta == IF t.last = None \/ counter < t.last THEN 0 ELSE counter - t.last
<1>1. delta \in Nat
  BY AccountsAssumption DEF TrackerType
<1>2. CASE t.active = None
  BY <1>2 DEF Credited, TrackerType
<1>3. CASE t.active \in Car /\ t.active # None
  <2> DEFINE totals == [t.totals EXCEPT ![t.active] = t.totals[t.active] + delta]
  <2>1. totals \in [Car -> Nat]
    BY <1>1, <1>3 DEF TrackerType
  <2>2. Credited(t, counter) = [t EXCEPT !.last = counter, !.totals = totals]
    BY <1>3, Zenon DEF Credited
  <2> HIDE DEF totals
  <2>3. QED
    BY <2>1, <2>2 DEF TrackerType
<1>4. QED
  BY <1>2, <1>3 DEF TrackerType

-----------------------------------------------------------------------------
LEMMA InitHolds == Init /\ HistoryInit => IInv
<1>1. ASSUME Init, HistoryInit PROVE Types
  <2>1. Blank \in State /\ Passed \in [Deadlines -> 0..Horizon]
    BY MemoryAssumption DEF Blank, State, Passed
  <2>2. << >> \in BoundedSeq(Session, MaxSessions)
    <3>1. << >> \in Seq(Session) /\ Len(<< >>) = 0
      OBVIOUS
    <3>2. MaxSessions \in Nat /\ 0 <= MaxSessions
      BY AccountsAssumption
    <3>3. BoundedSeq(Session, MaxSessions) = {s \in Seq(Session) : Len(s) <= MaxSessions}
      BY <3>2, LogIsShort
    <3>4. QED
      BY <3>1, <3>2, <3>3
  <2>3. tracker \in TrackerType
    BY <1>1, AccountsAssumption DEF Init, NewTracker, TrackerType
  <2>4. MemoryTypeOK
    BY <1>1, <2>1 DEF Init, MemoryInit, MemoryTypeOK
  <2>5. AccountsTypeOK
    <3>1. charge \in [id : Charges \union {0}, on : BOOLEAN, energy : 0..MaxEnergy]
      <4>1. PICK e \in 0..MaxEnergy : charge = [id |-> 0, on |-> FALSE, energy |-> e]
        BY <1>1, Zenon DEF Init
      <4>2. QED
        BY <4>1
    <3>2. record \in [id : Charges \union {0}, reads : Signatures \union {None}]
      BY <1>1 DEF Init
    <3>3. log \in BoundedSeq([id : Charges, split : SUBSET Charges], MaxSessions)
      BY <1>1, <2>2 DEF Init, Session
    <3>4. QED
      BY <1>1, <2>3, <3>1, <3>2, <3>3 DEF Init, AccountsTypeOK, TrackerType
  <2>6. QED
    BY <1>1, <2>1, <2>3, <2>4, <2>5 DEF Types, HistoryInit
<1>2. ASSUME Init, HistoryInit PROVE FileIsGood
  BY <1>2 DEF FileIsGood, Init, HistoryInit, MemoryInit, Blank, Passed
<1>3. ASSUME Init, HistoryInit PROVE RecordIsAhead
  BY <1>3 DEF RecordIsAhead, Init, HistoryInit, MemoryInit
<1>4. QED
  BY <1>1, <1>2, <1>3 DEF IInv

\* The deadlines, the saves and the clocks leave the accounts alone.
LEMMA MemoryStep ==
  ASSUME IInv, RemembersDeadlines, UNCHANGED << accountVars, inherited, uncounted >>
  PROVE  IInv'
<1> USE DEF IInv, Types, FileIsGood
<1>1. stored \in State /\ StoredState \in State /\ due \in [Deadlines -> 0..Horizon]
  BY DEF MemoryTypeOK, StoredState, State
<1>2. /\ Later(due) \in [Deadlines -> 0..Horizon]
      /\ Later(until) \in [Deadlines -> 0..Horizon]
      /\ Later(stored.until) \in [Deadlines -> 0..Horizon]
  BY <1>1, LaterType DEF MemoryTypeOK, State
<1>3. UNCHANGED up
  BY DEF RemembersDeadlines, Ask, Save, Tick, WallClockJumps
<1>4. AccountsTypeOK' /\ (tracker \in TrackerType)' /\ (inherited \in Charges \union {0})'
  BY DEF AccountsTypeOK, accountVars, TrackerType
<1>5. RecordIsAhead'
  BY <1>3 DEF RecordIsAhead, accountVars
<1>6. /\ MemoryTypeOK' /\ FileIsGood'
      /\ (due \in [Deadlines -> 0..Horizon])' /\ (behind \in BOOLEAN)'
  <2>1. ASSUME NEW d \in Deadlines, NEW duration \in 0..Horizon, Ask(d, duration),
               due' = [due EXCEPT ![d] = duration], behind' = TRUE
        PROVE  /\ MemoryTypeOK' /\ FileIsGood'
               /\ (due \in [Deadlines -> 0..Horizon])' /\ (behind \in BOOLEAN)'
    BY <2>1, <1>1 DEF Ask, MemoryTypeOK
  <2>2. CASE Save /\ behind' = FALSE /\ UNCHANGED due
    BY <2>2, <1>1 DEF Save, MemoryTypeOK, StoredState
  <2>3. CASE Tick /\ due' = Later(due) /\ UNCHANGED behind
    BY <2>3, <1>1, <1>2 DEF Tick, MemoryTypeOK, State
  <2>4. CASE /\ WallClockJumps
             /\ IF up THEN behind' = TRUE /\ UNCHANGED due
                ELSE due' = Later(due) /\ UNCHANGED behind
    BY <2>4, <1>1, <1>2 DEF WallClockJumps, MemoryTypeOK, State
  <2>5. QED
    BY <2>1, <2>2, <2>3, <2>4 DEF RemembersDeadlines
<1>7. QED
  BY <1>4, <1>5, <1>6

\* What brings the entry down or up (async_unload_entry, async_setup_entry, a crash).
LEMMA EntryStep ==
  ASSUME IInv, HistoryNext, Unload \/ HomeAssistantStops \/ CrashAnywhere \/ Setup
  PROVE  IInv'
<1> USE DEF IInv, Types
<1>0. stored \in State /\ StoredState \in State /\ Passed \in [Deadlines -> 0..Horizon]
  BY MemoryAssumption DEF MemoryTypeOK, StoredState, State, Passed
<1>a. record.id \in Nat
  <2>1. record.id \in Charges \union {0}
    BY DEF AccountsTypeOK
  <2>2. QED
    BY <2>1, IdsAreNumbers
<1>b. ASSUME UNCHANGED << charge, record, log, signature >>, primed' = FALSE, inherited' = 0
      PROVE  RecordIsAhead'
  BY <1>a, <1>b DEF RecordIsAhead
<1>1. CASE /\ Unload /\ behind' = FALSE /\ inherited' = 0
           /\ UNCHANGED << due, uncounted >>
  <2>1. MemoryTypeOK' /\ FileIsGood'
    BY <1>0, <1>1 DEF Unload, Shutdown, Forget, StoredState, MemoryTypeOK, FileIsGood
  <2>2. AccountsTypeOK' /\ (tracker \in TrackerType)'
    BY <1>1 DEF Unload, Shutdown, AccountsTypeOK, TrackerType
  <2>3. RecordIsAhead'
    BY <1>1, <1>b DEF Unload, Shutdown
  <2>4. (due \in [Deadlines -> 0..Horizon])' /\ (behind \in BOOLEAN)' /\ (inherited \in Charges \union {0})'
    BY <1>0, <1>1 DEF Unload, Shutdown, State
  <2>5. QED
    BY <2>1, <2>2, <2>3, <2>4
<1>2. CASE /\ HomeAssistantStops
           /\ IF saveDue THEN behind' = FALSE /\ inherited' = 0 /\ UNCHANGED due ELSE Settled
           /\ UNCHANGED uncounted
  <2>1. MemoryTypeOK' /\ FileIsGood'
    BY <1>0, <1>2 DEF HomeAssistantStops, FinalWrite, Forget, Settled, StoredState, MemoryTypeOK, FileIsGood
  <2>2. AccountsTypeOK' /\ (tracker \in TrackerType)'
    BY <1>2 DEF HomeAssistantStops, FinalWrite, Settled, AccountsTypeOK, TrackerType
  <2>3. RecordIsAhead'
    BY <1>2, <1>b DEF HomeAssistantStops, FinalWrite, Settled
  <2>4. (due \in [Deadlines -> 0..Horizon])' /\ (behind \in BOOLEAN)' /\ (inherited \in Charges \union {0})'
    BY <1>0, <1>2 DEF HomeAssistantStops, FinalWrite, Settled, State
  <2>5. QED
    BY <2>1, <2>2, <2>3, <2>4
<1>3. CASE CrashAnywhere /\ Settled /\ UNCHANGED uncounted
  <2>1. MemoryTypeOK' /\ FileIsGood'
    BY <1>0, <1>3 DEF CrashAnywhere, Crash, Forget, Settled, MemoryTypeOK, FileIsGood
  <2>2. AccountsTypeOK' /\ (tracker \in TrackerType)'
    BY <1>3 DEF CrashAnywhere, Crash, Settled, AccountsTypeOK, TrackerType
  <2>3. RecordIsAhead'
    BY <1>3, <1>b DEF CrashAnywhere, Crash, Settled
  <2>4. (due \in [Deadlines -> 0..Horizon])' /\ (behind \in BOOLEAN)' /\ (inherited \in Charges \union {0})'
    BY <1>0, <1>3 DEF CrashAnywhere, Crash, Settled, State
  <2>5. QED
    BY <2>1, <2>2, <2>3, <2>4
<1>4. CASE Setup /\ inherited' = record.id /\ UNCHANGED << due, behind, uncounted >>
  <2>1. MemoryTypeOK' /\ FileIsGood'
    BY <1>0, <1>4 DEF Setup, Restore, State, MemoryTypeOK, FileIsGood
  <2>2. tracker' \in TrackerType
    <3>1. Vehicles[1] \in Car
      BY AccountsAssumption DEF Car
    <3>2. QED
      BY <1>4, <3>1 DEF Setup, TrackerType
  <2>3. AccountsTypeOK'
    BY <1>4, <2>2 DEF Setup, AccountsTypeOK, TrackerType
  <2>4. RecordIsAhead' /\ (inherited \in Charges \union {0})'
    BY <1>4, MemoryAssumption DEF Setup, Restore, RecordIsAhead, AccountsTypeOK
  <2>5. QED
    BY <1>4, <2>1, <2>2, <2>3, <2>4
<1>5. QED
  <2>1. up' # up
    BY DEF Unload, HomeAssistantStops, CrashAnywhere, Setup, Shutdown, FinalWrite, Crash,
           MemoryTypeOK
  <2>2. QED
    BY <1>1, <1>2, <1>3, <1>4, <2>1
    DEF HistoryNext, RemembersDeadlines, Ask, Save, Tick, WallClockJumps, TrackVehicleEnergy,
        Delivers, AppStarts, EndsByItself, Plugged, Unplugged, LogCompletedSession,
        SetActiveVehicle, SetTotal, Evaluate, memoryVars

\* The charges, whoever begins or ends them: the record moves to a later charge.
LEMMA ChargeSteps ==
  ASSUME IInv, UNCHANGED << inherited, primed, signature, log >>,
         \/ Begin /\ ~charge.on /\ UNCHANGED record
         \/ End /\ charge.on
         \/ UNCHANGED record /\ charge'.id = charge.id /\ charge'.on = charge.on
         \/ UNCHANGED << charge, record >>,
         UNCHANGED up
  PROVE  RecordIsAhead'
<1>1. /\ record.id \in Nat /\ charge.id \in Nat /\ inherited \in Nat
      /\ charge = [id |-> charge.id, on |-> charge.on, energy |-> charge.energy]
  <2>1. {record.id, charge.id, inherited} \subseteq Charges \union {0}
    BY DEF IInv, Types, AccountsTypeOK
  <2>2. charge = [id |-> charge.id, on |-> charge.on, energy |-> charge.energy]
    BY DEF IInv, Types, AccountsTypeOK
  <2>3. QED
    BY <2>1, <2>2, IdsAreNumbers
<1>2. RecordIsAhead
  BY DEF IInv
<1>3. log # << >> => Head(log).id \in Nat
  <2>1. log \in Seq(Session)
    BY AccountsAssumption, LogIsShort DEF IInv, Types, AccountsTypeOK, Session
  <2>2. log # << >> => Head(log) \in Session
    BY <2>1, HeadTailProperties
  <2>3. QED
    BY <2>2, MemoryAssumption DEF Session
<1>4. CASE Begin /\ ~charge.on /\ UNCHANGED record
  BY <1>1, <1>2, <1>4 DEF Begin, RecordIsAhead
<1>5. CASE End /\ charge.on
  <2>1. charge'.id = charge.id /\ ~charge'.on /\ record'.id = charge.id
    BY <1>1, <1>5 DEF End
  <2>2. QED
    BY <1>1, <1>2, <1>3, <1>5, <2>1 DEF RecordIsAhead
<1>6. CASE UNCHANGED record /\ charge'.id = charge.id /\ charge'.on = charge.on
  BY <1>2, <1>6 DEF RecordIsAhead
<1>7. QED
  BY <1>2, <1>4, <1>5, <1>6 DEF RecordIsAhead

\* The end of a charge keeps the types of charge and record.
LEMMA ChargeEnds ==
  ASSUME AccountsTypeOK, End
  PROVE  /\ charge' \in [id : Charges \union {0}, on : BOOLEAN, energy : 0..MaxEnergy]
         /\ record' \in [id : Charges \union {0}, reads : Signatures \union {None}]
<1>1. charge \in [id : Charges \union {0}, on : BOOLEAN, energy : 0..MaxEnergy]
  BY DEF AccountsTypeOK
<1>2. charge' = [charge EXCEPT !.on = FALSE]
  BY DEF End
<1>3. PICK reads \in Signatures : record' = [id |-> charge.id, reads |-> reads]
  BY Zenon DEF End
<1>4. charge.id \in Charges \union {0}
  BY <1>1
<1>5. QED
  BY <1>1, <1>2, <1>3, <1>4

\* A session that is logged is the record, put first (_async_log_completed_session).
LEMMA PollLogs ==
  ASSUME IInv, LogCompletedSession, IsNewSession, primed
  PROVE  log' \in BoundedSeq(Session, MaxSessions) /\ Head(log').id = record.id
<1>1. BuildSessionRecord \in Session
  <2>1. record.id \in Charges \union {0} /\ inherited \in Charges \union {0}
    BY DEF IInv, Types, AccountsTypeOK
  <2>2. record.id > inherited
    BY DEF IInv, RecordIsAhead, IsNewSession
  <2>3. record.id \in Charges
    BY <2>1, <2>2, IdsAreNumbers, MemoryAssumption
  <2>4. QED
    BY <2>3 DEF IInv, Types, BuildSessionRecord, SessionOffPeakSplit, Session, MemoryTypeOK
<1> DEFINE n == IF Len(log) < MaxSessions THEN Len(log) + 1 ELSE MaxSessions
<1>2. log' = SubSeq(<< BuildSessionRecord >> \o log, 1, n)
  BY DEF LogCompletedSession, Logged
<1>3. n = IF Len(log) < MaxSessions THEN Len(log) + 1 ELSE MaxSessions
  OBVIOUS
<1> HIDE DEF n
<1>4. log \in BoundedSeq(Session, MaxSessions)
  BY DEF IInv, Types, AccountsTypeOK, Session
<1>5. log' \in BoundedSeq(Session, MaxSessions) /\ Head(log') = BuildSessionRecord
  BY <1>1, <1>2, <1>3, <1>4, NewestFirst
<1>6. QED
  BY <1>5 DEF BuildSessionRecord

\* What happens outside, and the two steps of a poll.
LEMMA AccountsStep ==
  ASSUME IInv,
         \/ /\ TrackVehicleEnergy \/ Delivers
            /\ UNCHANGED << due, behind, inherited >>
         \/ /\ \/ AppStarts \/ EndsByItself \/ Plugged \/ Unplugged
               \/ LogCompletedSession \/ SetActiveVehicle \/ SetTotal
            /\ UNCHANGED historyVars
  PROVE  IInv'
<1> USE DEF IInv, Types
<1>1. UNCHANGED << memoryVars, due, behind, inherited >>
  BY DEF TrackVehicleEnergy, Delivers, AppStarts, EndsByItself, Plugged, Unplugged,
         LogCompletedSession, SetActiveVehicle, SetTotal, historyVars
<1>2. /\ MemoryTypeOK' /\ FileIsGood' /\ UNCHANGED up
      /\ (due \in [Deadlines -> 0..Horizon])' /\ (behind \in BOOLEAN)'
      /\ (inherited \in Charges \union {0})'
  BY <1>1 DEF memoryVars, MemoryTypeOK, FileIsGood
<1>3. SUFFICES AccountsTypeOK' /\ (tracker \in TrackerType)' /\ RecordIsAhead'
  BY <1>2
<1>4. CASE TrackVehicleEnergy
  <2>1. tracker' \in TrackerType
    <3>1. charge.energy \in 0..MaxEnergy
      BY DEF AccountsTypeOK
    <3>2. QED
      BY <1>4, <3>1, CreditedType DEF TrackVehicleEnergy
  <2>2. AccountsTypeOK'
    BY <1>4, <2>1 DEF TrackVehicleEnergy, AccountsTypeOK, TrackerType
  <2>3. RecordIsAhead'
    BY <1>1, <1>2, <1>4, ChargeSteps DEF TrackVehicleEnergy
  <2>4. QED
    BY <2>1, <2>2, <2>3
<1>5. CASE Delivers
  <2>1. charge' \in [id : Charges \union {0}, on : BOOLEAN, energy : 0..MaxEnergy]
    <3>1. charge.energy \in 0..MaxEnergy /\ charge.energy < MaxEnergy
      BY <1>5 DEF Delivers, AccountsTypeOK
    <3>2. charge.energy + 1 \in 0..MaxEnergy
      BY <3>1, AccountsAssumption
    <3>3. QED
      BY <1>5, <3>2 DEF Delivers, AccountsTypeOK
  <2>2. charge'.id = charge.id /\ charge'.on = charge.on
    BY <1>5 DEF Delivers, AccountsTypeOK
  <2>3. RecordIsAhead'
    BY <1>1, <1>2, <1>5, <2>2, ChargeSteps DEF Delivers
  <2>4. QED
    BY <1>5, <2>1, <2>3 DEF Delivers, AccountsTypeOK
<1>6. CASE AppStarts
  <2>1. charge' \in [id : Charges \union {0}, on : BOOLEAN, energy : 0..MaxEnergy]
    BY <1>6, AccountsAssumption DEF AppStarts, Begin
  <2>2. RecordIsAhead'
    BY <1>1, <1>2, <1>6, ChargeSteps DEF AppStarts
  <2>3. QED
    BY <1>6, <2>1, <2>2 DEF AppStarts, AccountsTypeOK
<1>7. CASE EndsByItself \/ Unplugged
  <2>1. \/ End /\ charge.on
        \/ UNCHANGED << charge, record >>
    BY <1>7 DEF EndsByItself, Unplugged
  <2>2. /\ charge' \in [id : Charges \union {0}, on : BOOLEAN, energy : 0..MaxEnergy]
        /\ record' \in [id : Charges \union {0}, reads : Signatures \union {None}]
    BY <2>1, ChargeEnds DEF AccountsTypeOK
  <2>3. RecordIsAhead'
    BY <1>1, <1>2, <1>7, <2>1, ChargeSteps DEF EndsByItself, Unplugged
  <2>4. QED
    BY <1>7, <2>2, <2>3 DEF EndsByItself, Unplugged, AccountsTypeOK
<1>8. CASE Plugged \/ SetActiveVehicle \/ SetTotal
  <2>1. tracker' \in TrackerType
    BY <1>8 DEF Plugged, SetActiveVehicle, SetTotal, TrackerType
  <2>2. AccountsTypeOK'
    BY <1>8, <2>1 DEF Plugged, SetActiveVehicle, SetTotal, AccountsTypeOK, TrackerType
  <2>3. RecordIsAhead'
    BY <1>1, <1>2, <1>8, ChargeSteps DEF Plugged, SetActiveVehicle, SetTotal
  <2>4. QED
    BY <2>1, <2>2, <2>3
<1>9. CASE LogCompletedSession
  <2>1. CASE ~IsNewSession
    <3>1. RecordIsAhead'
      BY <1>1, <1>2, <1>9, <2>1, ChargeSteps DEF LogCompletedSession
    <3>2. QED
      BY <1>9, <2>1, <3>1 DEF LogCompletedSession, AccountsTypeOK
  <2>2. CASE IsNewSession /\ ~primed
    <3>1. UNCHANGED << charge, record, log >> /\ signature' = record.reads
      BY <1>9, <2>2 DEF LogCompletedSession, Logged
    <3>2. RecordIsAhead'
      BY <1>1, <1>2, <1>9, <3>1 DEF RecordIsAhead, LogCompletedSession
    <3>3. QED
      BY <1>9, <2>2, <3>1, <3>2 DEF LogCompletedSession, AccountsTypeOK, IsNewSession
  <2>3. CASE IsNewSession /\ primed
    <3>1. /\ log' \in BoundedSeq(Session, MaxSessions)
          /\ Head(log').id = record.id
      BY <1>9, <2>3, PollLogs
    <3>2. RecordIsAhead'
      <4>1. /\ UNCHANGED << charge, record, inherited, up >> /\ up
            /\ signature' = record.reads
        BY <1>1, <1>2, <1>9, <2>3 DEF LogCompletedSession
      <4>2. QED
        BY <3>1, <4>1 DEF RecordIsAhead
    <3>3. AccountsTypeOK'
      BY <1>9, <2>3, <3>1 DEF LogCompletedSession, AccountsTypeOK, IsNewSession, Session
    <3>4. QED
      BY <1>9, <3>2, <3>3 DEF LogCompletedSession
  <2>4. QED
    BY <2>1, <2>2, <2>3
<1>10. QED
  BY <1>4, <1>5, <1>6, <1>7, <1>8, <1>9

\* An evaluation and what it writes (_async_evaluate_once): it samples the charge that
\* runs, which has a number.
LEMMA EvaluationStep ==
  ASSUME IInv, NEW verdict \in {"hold", "start", "stop"}, NEW obeyed \in BOOLEAN,
         Evaluate(verdict, obeyed), UNCHANGED historyVars
  PROVE  IInv'
<1> USE DEF IInv, Types
<1>1. charge.on => charge.id \in Charges
  <2>1. charge.id \in Charges \union {0} /\ record.id \in Charges \union {0}
    BY DEF AccountsTypeOK
  <2>2. charge.on => record.id < charge.id
    BY DEF RecordIsAhead
  <2>3. QED
    BY <2>1, <2>2, IdsAreNumbers
<1>2. MemoryTypeOK'
  <2>1. tally' \in SUBSET Charges
    <3> HIDE DEF IInv, Types
    <3>1. tally \in SUBSET Charges
      BY DEF IInv, Types, MemoryTypeOK
    <3>2. tally' \in {{}, tally} \/ (charge.on /\ tally' = tally \union {charge.id})
      BY DEF Evaluate, SessionAfter
    <3>3. QED
      BY <1>1, <3>1, <3>2
  <2>2. {active', sampling', unverified', saveDue'} \subseteq BOOLEAN
    BY DEF Evaluate, SessionAfter, MemoryTypeOK, AccountsTypeOK
  <2>3. QED
    BY <2>1, <2>2 DEF Evaluate, MemoryTypeOK
<1>3. FileIsGood' /\ (due \in [Deadlines -> 0..Horizon])' /\ (behind \in BOOLEAN)'
        /\ (inherited \in Charges \union {0})' /\ (tracker \in TrackerType)'
  BY DEF Evaluate, historyVars, FileIsGood
<1>4. \/ Begin /\ ~charge.on /\ UNCHANGED record
      \/ End /\ charge.on
      \/ UNCHANGED << charge, record >>
  BY DEF Evaluate
<1>5. /\ charge' \in [id : Charges \union {0}, on : BOOLEAN, energy : 0..MaxEnergy]
      /\ record' \in [id : Charges \union {0}, reads : Signatures \union {None}]
  <2>1. CASE Begin /\ UNCHANGED record
    BY <2>1, AccountsAssumption DEF Begin, AccountsTypeOK
  <2>2. CASE End
    BY <2>2, ChargeEnds
  <2>3. CASE UNCHANGED << charge, record >>
    BY <2>3 DEF AccountsTypeOK
  <2>4. QED
    BY <1>4, <2>1, <2>2, <2>3
<1>6. RecordIsAhead'
  BY <1>4, ChargeSteps DEF Evaluate, historyVars
<1>7. AccountsTypeOK'
  BY <1>5 DEF Evaluate, AccountsTypeOK
<1>8. QED
  BY <1>2, <1>3, <1>6, <1>7

LEMMA Unchanged == IInv /\ UNCHANGED restartVars => IInv'
<1> SUFFICES ASSUME IInv, UNCHANGED restartVars PROVE IInv'
  OBVIOUS
<1>1. Types'
  BY DEF IInv, Types, MemoryTypeOK, AccountsTypeOK, restartVars, accountsVars, memoryVars,
         accountVars, historyVars
<1>2. FileIsGood' /\ RecordIsAhead'
  BY DEF IInv, FileIsGood, RecordIsAhead, restartVars, accountsVars, memoryVars, accountVars,
         historyVars
<1>3. QED
  BY <1>1, <1>2 DEF IInv

LEMMA InductiveStep == IInv /\ [HistoryNext]_restartVars => IInv'
<1> SUFFICES ASSUME IInv, HistoryNext PROVE IInv'
  BY Unchanged
<1>1. CASE RemembersDeadlines /\ UNCHANGED << accountVars, inherited, uncounted >>
  BY <1>1, MemoryStep
<1>2. CASE Unload \/ HomeAssistantStops \/ CrashAnywhere \/ Setup
  BY <1>2, EntryStep
<1>3. CASE /\ TrackVehicleEnergy \/ Delivers
           /\ UNCHANGED << due, behind, inherited >>
  BY <1>3, AccountsStep
<1>4. CASE /\ \/ AppStarts \/ EndsByItself \/ Plugged \/ Unplugged
              \/ LogCompletedSession \/ SetActiveVehicle \/ SetTotal
           /\ UNCHANGED historyVars
  BY <1>4, AccountsStep
<1>5. CASE /\ \E verdict \in {"hold", "start", "stop"}, obeyed \in BOOLEAN :
                Evaluate(verdict, obeyed)
           /\ UNCHANGED historyVars
  BY <1>5, EvaluationStep
<1>6. QED
  BY <1>1, <1>2, <1>3, <1>4, <1>5 DEF HistoryNext

THEOREM Invariance == RestartSpec => []IInv
BY InitHolds, InductiveStep, PTL DEF RestartSpec, RestartInit

-----------------------------------------------------------------------------
\* What is remembered, on disk and in memory, keeps its type through every restart
\* (ControllerState.from_stored).
THEOREM MemoryTyped == RestartSpec => []MemoryTypeOK
<1>1. IInv => MemoryTypeOK
  BY DEF IInv, Types
<1>2. QED
  BY <1>1, Invariance, PTL

\* So do the log and the tracker (SessionHistory, VehicleEnergyTracker).
THEOREM AccountsTyped == RestartSpec => []AccountsTypeOK
<1>1. IInv => AccountsTypeOK
  BY DEF IInv, Types
<1>2. QED
  BY <1>1, Invariance, PTL

\* A pause and a force charge end when they were asked to, whatever reloads, restarts and
\* jumps of the wall clock come between; due has what a crash loses and what passes while
\* down (controller_state.py).
THEOREM DeadlinesKept == RestartSpec => []DeadlinesStand
<1>1. IInv => DeadlinesStand
  BY DEF IInv, FileIsGood, DeadlinesStand
<1>2. QED
  BY <1>1, Invariance, PTL

\* Only the second step of a poll logs, and it logs the record it finds.
LEMMA OnlyPollsLog ==
  ASSUME IInv, [HistoryNext]_restartVars, log' # log
  PROVE  /\ primed /\ IsNewSession
         /\ log' \in BoundedSeq(Session, MaxSessions) /\ Head(log').id = record.id
<1>1. LogCompletedSession
  BY DEF HistoryNext, RemembersDeadlines, accountVars, Unload, HomeAssistantStops, CrashAnywhere,
         Setup, TrackVehicleEnergy, Delivers, AppStarts, EndsByItself, Plugged, Unplugged,
         SetActiveVehicle, SetTotal, Evaluate, restartVars, accountsVars
<1>2. primed /\ IsNewSession
  BY <1>1 DEF LogCompletedSession, Logged
<1>3. QED
  BY <1>1, <1>2, PollLogs

\* Each session is logged at most once and in the order of the charges, and the log keeps
\* its bound (is_new_session, async_record).
THEOREM LogOrdered == RestartSpec => LogInOrder
<1>1. ASSUME IInv, [HistoryNext]_restartVars, log' # log
      PROVE  Len(log') <= MaxSessions /\ (log # << >> => Head(log').id > Head(log).id)
  <2>1. /\ primed /\ IsNewSession
        /\ log' \in BoundedSeq(Session, MaxSessions) /\ Head(log').id = record.id
    BY <1>1, OnlyPollsLog
  <2>2. Len(log') <= MaxSessions
    BY <2>1, AccountsAssumption, LogIsShort
  <2>3. log # << >> => Head(log).id < record.id
    BY <1>1, <2>1 DEF IInv, RecordIsAhead, IsNewSession
  <2>4. log # << >> => Head(log).id \in Nat
    <3>1. log \in Seq(Session)
      BY <1>1, AccountsAssumption, LogIsShort DEF IInv, Types, AccountsTypeOK, Session
    <3>2. log # << >> => Head(log) \in Session
      BY <3>1, HeadTailProperties
    <3>3. QED
      BY <3>2, MemoryAssumption DEF Session
  <2>5. record.id \in Nat
    BY <1>1, IdsAreNumbers DEF IInv, Types, AccountsTypeOK
  <2>6. QED
    BY <2>1, <2>2, <2>3, <2>4, <2>5
<1>2. QED
  BY <1>1, Invariance, PTL DEF RestartSpec, LogInOrder

\* What is logged ended in this run: no restart makes a session up ("logging it would
\* invent a session that just happened").
THEOREM NoneInvented == RestartSpec => NoInventedSession
<1>1. ASSUME IInv, [HistoryNext]_restartVars, log' # log
      PROVE  Head(log').id > inherited
  <2>1. primed /\ IsNewSession /\ Head(log').id = record.id
    BY <1>1, OnlyPollsLog
  <2>2. QED
    BY <1>1, <2>1 DEF IInv, RecordIsAhead, IsNewSession
<1>2. QED
  BY <1>1, Invariance, PTL DEF RestartSpec, NoInventedSession

-----------------------------------------------------------------------------
\* What a reading credits, in numbers.
LEMMA CreditedBy ==
  ASSUME NEW t \in TrackerType, NEW counter \in 0..MaxEnergy, NEW v \in Car
  PROVE  Credited(t, counter).totals[v] =
           t.totals[v] + (IF t.active = None \/ v # t.active \/ t.last = None \/ counter < t.last
                          THEN 0 ELSE counter - t.last)
<1> DEFINE delta == IF t.last = None \/ counter < t.last THEN 0 ELSE counter - t.last
<1>1. t.totals \in [Car -> Nat] /\ t.totals[v] \in Nat /\ t.active \in Car \union {None}
  BY DEF TrackerType
<1>2. CASE t.active = None
  <2>1. Credited(t, counter).totals = t.totals
    BY <1>2 DEF Credited, TrackerType
  <2>2. QED
    BY <1>1, <1>2, <2>1
<1>3. CASE t.active # None
  <2> DEFINE totals == [t.totals EXCEPT ![t.active] = t.totals[t.active] + delta]
  <2>1. Credited(t, counter) = [t EXCEPT !.last = counter, !.totals = totals]
    BY <1>3, Zenon DEF Credited
  <2>2. totals[v] = IF v = t.active THEN t.totals[v] + delta ELSE t.totals[v]
    BY <1>1, <1>3
  <2> HIDE DEF totals
  <2>3. Credited(t, counter).totals = totals
    BY <2>1 DEF TrackerType
  <2>4. QED
    BY <1>1, <1>3, <2>2, <2>3
<1>4. QED
  BY <1>2, <1>3

LEMMA CoveredAtFirst == Init /\ HistoryInit => CounterIsCovered
BY DEF Init, NewTracker, HistoryInit, CounterIsCovered

\* Only a delivery raises the counter, and only a reading forgets one.
LEMMA CoverageKept == IInv /\ CounterIsCovered /\ [HistoryNext]_restartVars => CounterIsCovered'
<1> SUFFICES ASSUME IInv, CounterIsCovered, [HistoryNext]_restartVars PROVE CounterIsCovered'
  OBVIOUS
<1>1. /\ charge \in [id : Charges \union {0}, on : BOOLEAN, energy : 0..MaxEnergy]
      /\ tracker \in TrackerType /\ uncounted \in Nat
      /\ tracker.last # None => tracker.last \in 0..MaxEnergy
  BY DEF IInv, Types, AccountsTypeOK, TrackerType, CounterIsCovered
<1>2. charge.energy \in 0..MaxEnergy /\ MaxEnergy \in Nat
  BY <1>1, AccountsAssumption
<1>3. CASE TrackVehicleEnergy /\ uncounted' = 0
  <2>1. tracker'.last = charge.energy /\ UNCHANGED charge
    BY <1>1, <1>3 DEF TrackVehicleEnergy, Credited, TrackerType
  <2>2. QED
    BY <1>2, <1>3, <2>1 DEF CounterIsCovered
<1>4. CASE Delivers /\ uncounted' = uncounted + 1
  <2>1. charge'.energy = charge.energy + 1 /\ UNCHANGED tracker
    BY <1>1, <1>4 DEF Delivers
  <2>2. QED
    BY <1>1, <1>2, <1>4, <2>1 DEF CounterIsCovered
<1>5. CASE /\ UNCHANGED uncounted /\ tracker'.last = tracker.last
           /\ Begin \/ charge'.energy = charge.energy
  <2>1. Begin => charge'.energy = 0
    BY DEF Begin
  <2>2. QED
    BY <1>1, <1>2, <1>5, <2>1 DEF CounterIsCovered
<1>6. \/ TrackVehicleEnergy /\ uncounted' = 0
      \/ Delivers /\ uncounted' = uncounted + 1
      \/ /\ UNCHANGED uncounted
         /\ \/ Begin \/ End \/ UNCHANGED charge
         /\ \/ SetActiveVehicle \/ SetTotal \/ Setup \/ UNCHANGED tracker
  BY DEF HistoryNext, RemembersDeadlines, accountVars, historyVars, Unload, HomeAssistantStops,
         CrashAnywhere, Setup, AppStarts, EndsByItself, Plugged, Unplugged, LogCompletedSession,
         SetActiveVehicle, SetTotal, Evaluate, restartVars, accountsVars
<1>7. End => charge'.energy = charge.energy
  BY <1>1 DEF End
<1>8. SetActiveVehicle \/ SetTotal \/ Setup => tracker'.last = tracker.last
  BY <1>1 DEF SetActiveVehicle, SetTotal, Setup, TrackerType
<1>9. QED
  BY <1>3, <1>4, <1>5, <1>6, <1>7, <1>8

LEMMA AlwaysCovered == RestartSpec => []CounterIsCovered
BY CoveredAtFirst, CoverageKept, Invariance, PTL DEF RestartSpec, RestartInit

\* A reading credits the active vehicle alone, and never more than the charger delivered
\* since the last one, however resets of the counter, changes of vehicle, reloads and
\* crashes fall in between (VehicleEnergyTracker.async_process_counter).
THEOREM CreditEarned == RestartSpec => CreditIsEarned
<1>1. ASSUME IInv, CounterIsCovered, TrackVehicleEnergy, NEW v \in Car
      PROVE  tracker'.totals[v] - tracker.totals[v]
               \in 0..(IF v = tracker.active THEN uncounted ELSE 0)
  <2>1. /\ tracker \in TrackerType /\ charge.energy \in 0..MaxEnergy
        /\ tracker.totals[v] \in Nat
        /\ tracker.last # None => tracker.last \in 0..MaxEnergy
    BY <1>1 DEF IInv, Types, AccountsTypeOK, TrackerType
  <2>2. tracker'.totals[v] = tracker.totals[v] +
          (IF tracker.active = None \/ v # tracker.active \/ tracker.last = None
              \/ charge.energy < tracker.last
           THEN 0 ELSE charge.energy - tracker.last)
    BY <1>1, <2>1, CreditedBy DEF TrackVehicleEnergy
  <2>3. uncounted \in Nat /\ (tracker.last # None => charge.energy <= tracker.last + uncounted)
    BY <1>1 DEF CounterIsCovered
  <2>4. QED
    BY <2>1, <2>2, <2>3, AccountsAssumption
<1>2. IInv /\ CounterIsCovered /\ [HistoryNext]_restartVars =>
        [TrackVehicleEnergy =>
           \A v \in Car :
             LET credit == tracker'.totals[v] - tracker.totals[v]
             IN  credit \in 0..(IF v = tracker.active THEN uncounted ELSE 0)]_restartVars
  BY <1>1
<1>3. QED
  BY <1>2, Invariance, AlwaysCovered, PTL DEF RestartSpec, CreditIsEarned
=============================================================================
