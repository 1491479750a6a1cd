--------------------------- MODULE TuyaClientProofs ---------------------------
(***************************************************************************)
(* The client's lock for any tasks, addresses, values and retries.  Mutual *)
(* exclusion is not inductive by itself: a thread runs for a call, so that *)
(* a task that calls nothing has none, and a write is that of the command  *)
(* in progress, which is what makes a late one harmless.  That commands    *)
(* reach the charger in the order of their calls needs the lock's line:    *)
(* whoever stands in it has a call, and stands there once.                 *)
(***************************************************************************)
EXTENDS ClientRefinement, SequenceTheorems, TLAPS

\* What a thread does is what its task has called for, and a command that is read back
\* has read-backs left.
ThreadsServeCalls ==
  /\ \A t \in Tasks : thread[t] # None =>
       /\ call[t] # None /\ call[t].op \in {"read", "command"}
       /\ thread[t].write # None => call[t].op = "command" /\ call[t].value = thread[t].write
  /\ \A t \in Tasks : call[t] # None /\ call[t] \in Command /\ call[t].stage = "verify" =>
       call[t].left > 0

IInv == TypeOK /\ Serialised /\ ThreadsServeCalls

-----------------------------------------------------------------------------
(* The queue of the lock. *)

LEMMA AcquireType ==
  ASSUME TypeOK, NEW t \in Tasks, Acquire(t)
  PROVE  /\ holder' \in Tasks \union {None} /\ waiting' \in Seq(Tasks)
         /\ holder \in Tasks => holder' = holder
<1>1. waiting \in Seq(Tasks) /\ holder \in Tasks \union {None} /\ None \notin Tasks
  BY ClientAssumption DEF TypeOK
<1>2. Append(waiting, t) \in Seq(Tasks)
  BY <1>1, AppendProperties
<1>3. QED
  BY <1>1, <1>2 DEF Acquire

LEMMA ReleaseType ==
  ASSUME TypeOK, Release
  PROVE  holder' \in Tasks \union {None} /\ waiting' \in Seq(Tasks)
<1>1. waiting \in Seq(Tasks)
  BY DEF TypeOK
<1>2. waiting # << >> => Head(waiting) \in Tasks /\ Tail(waiting) \in Seq(Tasks)
  BY <1>1, HeadTailProperties
<1>3. QED
  BY <1>1, <1>2 DEF Release

LEMMA LeaveType ==
  ASSUME TypeOK, NEW t \in Tasks, Leave(t)
  PROVE  UNCHANGED holder /\ waiting' \in Seq(Tasks)
<1>1. waiting \in Seq(Tasks) /\ Len(waiting) \in Nat /\ DOMAIN waiting = 1..Len(waiting)
  BY LenProperties DEF TypeOK
<1>2. PICK i \in DOMAIN waiting :
        waiting' = SubSeq(waiting, 1, i - 1) \o SubSeq(waiting, i + 1, Len(waiting))
  BY DEF Leave, RemoveAt
<1>3. i \in 1..Len(waiting)
  BY <1>1
<1>4. SubSeq(waiting, 1, i - 1) \in Seq(Tasks)
  <2>1. 1 \in Int /\ i - 1 \in Int /\ \A j \in 1..(i - 1) : waiting[j] \in Tasks
    BY <1>1, <1>3, ElementOfSeq
  <2>2. QED
    BY <2>1, SubSeqProperties
<1>5. SubSeq(waiting, i + 1, Len(waiting)) \in Seq(Tasks)
  <2>1. i + 1 \in Int /\ Len(waiting) \in Int
        /\ \A j \in (i + 1)..Len(waiting) : waiting[j] \in Tasks
    BY <1>1, <1>3, ElementOfSeq
  <2>2. QED
    BY <2>1, SubSeqProperties
<1>6. waiting' \in Seq(Tasks)
  BY <1>2, <1>4, <1>5, ConcatProperties
<1>7. QED
  BY <1>6 DEF Leave

-----------------------------------------------------------------------------
\* While a task holds the lock no other has a thread (every use of self._io_lock).
LEMMA OthersIdle ==
  ASSUME IInv, NEW t \in Tasks, holder = t
  PROVE  \A u \in Tasks \ {t} : thread[u] = None
BY DEF IInv, Serialised

\* After a step of the holder that leaves it without a thread, nobody has one.
HolderDone ==
  /\ holder' \in Tasks \union {None} /\ waiting' \in Seq(Tasks)
  /\ call' \in [Tasks -> Calls \union {None}]
  /\ result' \in [Tasks -> {"none", "yes", "no"}]
  /\ \A u \in Tasks : thread'[u] = None
  /\ ThreadsServeCalls'

\* The end of the holder's call, with no thread left of it.
LEMMA FinishKeeps ==
  ASSUME IInv, NEW t \in Tasks, holder = t,
         NEW outcome \in {"none", "yes", "no"}, Finish(t, outcome),
         thread' \in [Tasks -> IO \union {None}], thread'[t] = None,
         \A u \in Tasks \ {t} : thread'[u] = thread[u]
  PROVE  HolderDone
<1>1. holder' \in Tasks \union {None} /\ waiting' \in Seq(Tasks)
  BY ReleaseType DEF Finish, IInv
<1>2. /\ call' \in [Tasks -> Calls \union {None}]
      /\ result' \in [Tasks -> {"none", "yes", "no"}]
  BY DEF Finish, IInv, TypeOK
<1>3. \A u \in Tasks : thread'[u] = None
  BY OthersIdle
<1>4. ASSUME NEW u \in Tasks, call'[u] # None, call'[u] \in Command, call'[u].stage = "verify"
      PROVE  call'[u].left > 0
  <2>1. CASE u = t
    <3>1. call'[u] = None
      BY <2>1 DEF Finish, IInv, TypeOK
    <3>2. QED
      BY <1>4, <3>1
  <2>2. CASE u # t
    BY <1>4, <2>2 DEF Finish, IInv, TypeOK, ThreadsServeCalls
  <2>3. QED
    BY <2>1, <2>2
<1>5. QED
  BY <1>1, <1>2, <1>3, <1>4 DEF HolderDone, ThreadsServeCalls

\* One more read-back of the holder's command (_async_verify_command).
LEMMA ReadBackKeeps ==
  ASSUME IInv, NEW t \in Tasks, holder = t,
         NEW c \in Command, c.stage = "verify", AfterReadBack(t, c),
         thread' \in [Tasks -> IO \union {None}], thread'[t] = None,
         \A u \in Tasks \ {t} : thread'[u] = thread[u]
  PROVE  HolderDone
<1>1. CASE c.left = 0
  <2>1. (IF c.saw THEN "no" ELSE "yes") \in {"none", "yes", "no"}
    OBVIOUS
  <2>2. Finish(t, IF c.saw THEN "no" ELSE "yes")
    BY <1>1 DEF AfterReadBack
  <2>3. QED
    BY <2>1, <2>2, FinishKeeps
<1>2. CASE c.left # 0
  <2>1. call' = [call EXCEPT ![t] = c] /\ UNCHANGED << result, holder, waiting >>
    BY <1>2 DEF AfterReadBack
  <2>2. c.left > 0
    BY <1>2, ClientAssumption DEF Command
  <2>3. \A u \in Tasks : thread'[u] = None
    BY OthersIdle
  <2>4. call' \in [Tasks -> Calls \union {None}]
    BY <2>1 DEF IInv, TypeOK, Calls
  <2>5. ASSUME NEW u \in Tasks, call'[u] # None, call'[u] \in Command, call'[u].stage = "verify"
        PROVE  call'[u].left > 0
    <3>1. CASE u = t
      BY <2>1, <2>2, <3>1 DEF IInv, TypeOK
    <3>2. CASE u # t
      BY <2>1, <2>5, <3>2 DEF IInv, TypeOK, ThreadsServeCalls
    <3>3. QED
      BY <3>1, <3>2
  <2>6. QED
    BY <2>1, <2>3, <2>4, <2>5 DEF IInv, TypeOK, HolderDone, ThreadsServeCalls
<1>3. QED
  BY <1>1, <1>2

\* A reply, of whatever kind, to whatever was called (_async_send_command,
\* _async_get_dps_payload).
LEMMA ReplyKeeps ==
  ASSUME IInv, NEW t \in Tasks, holder = t, thread[t] # None,
         NEW reply \in Replies, Replied(t, reply), thread' = [thread EXCEPT ![t] = None]
  PROVE  HolderDone
<1> DEFINE c == call[t]
<1>1. /\ thread' \in [Tasks -> IO \union {None}] /\ thread'[t] = None
      /\ \A u \in Tasks \ {t} : thread'[u] = thread[u]
  BY DEF IInv, TypeOK
<1>2. c # None /\ c \in Calls /\ c.op \in {"read", "command"}
  BY DEF IInv, TypeOK, ThreadsServeCalls
<1>3. ASSUME NEW outcome \in {"none", "yes", "no"}, Finish(t, outcome) PROVE HolderDone
  BY <1>1, <1>3, FinishKeeps
<1>4. ASSUME NEW d \in Command, d.stage = "verify", AfterReadBack(t, d) PROVE HolderDone
  BY <1>1, <1>4, ReadBackKeeps
<1>5. CASE c.op = "read"
  <2>1. (IF reply = "error" THEN "no" ELSE "yes") \in {"none", "yes", "no"}
    OBVIOUS
  <2>2. Finish(t, IF reply = "error" THEN "no" ELSE "yes")
    BY <1>5 DEF Replied
  <2>3. QED
    BY <1>3, <2>1, <2>2
<1>6. CASE c.op = "command" /\ c.stage = "write"
  <2>1. c \in Command
    BY <1>2, <1>6 DEF Calls, Fetch, Plumbing, Command
  <2>2. Verifying(c) \in Command /\ Verifying(c).stage = "verify"
    BY <2>1 DEF Verifying, Command
  <2>3. \/ Finish(t, "no") \/ Finish(t, "yes") \/ AfterReadBack(t, Verifying(c))
    BY <1>6 DEF Replied
  <2>4. QED
    BY <1>3, <1>4, <2>2, <2>3
<1>7. CASE c.op = "command" /\ c.stage = "verify"
  <2>1. c \in Command /\ c.left > 0
    BY <1>2, <1>7 DEF Calls, Fetch, Plumbing, Command, IInv, ThreadsServeCalls
  <2>2. c.left - 1 \in 0..Retries
    BY <2>1, ClientAssumption DEF Command
  <2> DEFINE fewer == OneLess(c)
             lacking == [fewer EXCEPT !.absent = 1]
             differing == [fewer EXCEPT !.saw = TRUE]
  <2>3. fewer \in Command /\ fewer.stage = "verify"
    BY <1>7, <2>1, <2>2 DEF OneLess, Command
  <2>4. \/ Finish(t, "no") \/ Finish(t, "yes")
        \/ AfterReadBack(t, fewer) \/ AfterReadBack(t, lacking) \/ AfterReadBack(t, differing)
    BY <1>7 DEF Replied, Replies
  <2> HIDE DEF fewer
  <2>5. lacking \in Command /\ lacking.stage = "verify"
    BY <2>3 DEF Command
  <2>6. differing \in Command /\ differing.stage = "verify"
    BY <2>3 DEF Command
  <2> HIDE DEF lacking, differing
  <2>7. QED
    BY <1>3, <1>4, <2>3, <2>4, <2>5, <2>6
<1>8. QED
  <2>1. c.op = "command" => c.stage \in {"write", "verify"}
    BY <1>2 DEF Calls, Fetch, Plumbing, Command
  <2>2. QED
    BY <1>2, <1>5, <1>6, <1>7, <2>1

-----------------------------------------------------------------------------
(* The steps. *)

\* A step of the holder that leaves it without a thread, whatever it makes of the device.
LEMMA HolderDoneKeeps ==
  ASSUME IInv, HolderDone, thread' \in [Tasks -> IO \union {None}],
         address' \in Addresses, device' \in Addresses \union {None}, reconnect' \in BOOLEAN,
         orphans' \subseteq orphans, UNCHANGED << cancelled, charger >>
  PROVE  IInv'
<1>1. TypeOK'
  BY DEF HolderDone, IInv, TypeOK
<1>2. Serialised'
  BY DEF HolderDone, IInv, Serialised
<1>3. QED
  BY <1>1, <1>2 DEF HolderDone, IInv

\* A call waits for the lock before it uses the device (async with self._io_lock).
LEMMA CallKeeps ==
  ASSUME IInv, NEW t \in Tasks, NEW c \in Calls, c \in Command => c.stage = "write",
         Call(t, c), address' \in Addresses
  PROVE  IInv'
<1>1. /\ call[t] = None /\ call' = [call EXCEPT ![t] = c]
      /\ result' = [result EXCEPT ![t] = "none"]
      /\ UNCHANGED << device, reconnect, thread, cancelled, orphans, charger >>
  BY DEF Call
<1>2. /\ holder' \in Tasks \union {None} /\ waiting' \in Seq(Tasks)
      /\ holder \in Tasks => holder' = holder
  BY AcquireType DEF Call, IInv
<1>3. TypeOK'
  BY <1>1, <1>2 DEF IInv, TypeOK
<1>4. Serialised'
  BY <1>1, <1>2 DEF IInv, Serialised
<1>5. ThreadsServeCalls'
  <2>1. ASSUME NEW u \in Tasks, thread'[u] # None
        PROVE  /\ call'[u] # None /\ call'[u].op \in {"read", "command"}
               /\ thread'[u].write # None =>
                    call'[u].op = "command" /\ call'[u].value = thread'[u].write
    <3>1. thread[u] # None /\ call[u] # None
      BY <1>1, <2>1 DEF IInv, ThreadsServeCalls
    <3>2. u # t /\ call'[u] = call[u]
      BY <1>1, <3>1 DEF IInv, TypeOK
    <3>3. QED
      BY <1>1, <3>1, <3>2 DEF IInv, ThreadsServeCalls
  <2>2. ASSUME NEW u \in Tasks, call'[u] # None, call'[u] \in Command, call'[u].stage = "verify"
        PROVE  call'[u].left > 0
    <3>1. CASE u = t
      BY <1>1, <2>2, <3>1 DEF IInv, TypeOK
    <3>2. CASE u # t
      BY <1>1, <2>2, <3>2 DEF IInv, TypeOK, ThreadsServeCalls
    <3>3. QED
      BY <3>1, <3>2
  <2>3. QED
    BY <2>1, <2>2 DEF ThreadsServeCalls
<1>6. QED
  BY <1>3, <1>4, <1>5 DEF IInv

\* The three kinds of call (async_get_status, async_close and the commands).
LEMMA CallsKeep ==
  ASSUME IInv, NEW t \in Tasks,
         \/ Read(t) \/ Close(t)
         \/ \E v \in Values, verify \in BOOLEAN : Send(t, v, verify)
         \/ \E a \in Addresses : Connect(t, a)
  PROVE  IInv'
<1>0. address \in Addresses
  BY DEF IInv, TypeOK
<1>1. CASE Read(t)
  <2>1. [op |-> "read"] \in Calls /\ [op |-> "read"] \notin Command
    BY DEF Calls, Fetch, Command
  <2>2. QED
    BY <1>0, <1>1, <2>1, CallKeeps DEF Read
<1>2. CASE Close(t)
  <2>1. [op |-> "close"] \in Calls /\ [op |-> "close"] \notin Command
    BY DEF Calls, Plumbing, Command
  <2>2. QED
    BY <1>0, <1>2, <2>1, CallKeeps DEF Close
<1>3. CASE \E v \in Values, verify \in BOOLEAN : Send(t, v, verify)
  <2>1. PICK v \in Values, verify \in BOOLEAN : Send(t, v, verify)
    BY <1>3
  <2> DEFINE c == [op |-> "command", value |-> v, stage |-> "write", verify |-> verify,
                   left |-> Retries, absent |-> 0, saw |-> FALSE]
  <2>2. c \in Calls /\ c.stage = "write"
    BY ClientAssumption DEF Calls, Command
  <2>3. Call(t, c) /\ address' = address
    BY <2>1 DEF Send
  <2> HIDE DEF c
  <2>4. QED
    BY <1>0, <2>2, <2>3, CallKeeps
<1>4. CASE \E a \in Addresses : Connect(t, a)
  <2>1. [op |-> "connect"] \in Calls /\ [op |-> "connect"] \notin Command
    BY DEF Calls, Plumbing, Command
  <2>2. QED
    BY <1>4, <2>1, CallKeeps DEF Connect
<1>5. QED
  BY <1>1, <1>2, <1>3, <1>4

\* The holder opens or closes the device, or is told that the client is closed.
LEMMA PlumbingKeeps ==
  ASSUME IInv, NEW t \in Tasks, ConnectEnds(t) \/ CloseEnds(t) \/ Refused(t)
  PROVE  IInv'
<1>1. thread \in [Tasks -> IO \union {None}] /\ UNCHANGED << thread, address, cancelled, charger >>
  BY DEF IInv, TypeOK, ConnectEnds, CloseEnds, Refused
<1>2. holder = t /\ call[t] # None
  BY DEF ConnectEnds, CloseEnds, Refused, Holds
<1>3. thread[t] = None
  BY DEF ConnectEnds, CloseEnds, Refused, Holds, IInv, ThreadsServeCalls
<1>4. \E outcome \in {"none", "yes", "no"} : Finish(t, outcome)
  BY DEF ConnectEnds, CloseEnds, Refused
<1>5. HolderDone
  BY <1>1, <1>2, <1>3, <1>4, FinishKeeps
<1>6. /\ address' \in Addresses /\ device' \in Addresses \union {None} /\ reconnect' \in BOOLEAN
      /\ orphans' \subseteq orphans
  BY <1>1 DEF ConnectEnds, CloseEnds, Refused, OrphansEnd, IInv, TypeOK
<1>7. QED
  BY <1>1, <1>5, <1>6, HolderDoneKeeps

\* The holder hands its I/O to a thread (_async_run_blocking).
LEMMA StartIOKeeps ==
  ASSUME IInv, NEW t \in Tasks, StartIO(t)
  PROVE  IInv'
<1> DEFINE io == [write |-> IF call[t].op = "command" /\ call[t].stage = "write"
                            THEN call[t].value ELSE None,
                   obeyed |-> FALSE, overdue |-> FALSE]
<1>1. /\ holder = t /\ call[t] # None /\ call[t].op \in {"read", "command"}
      /\ thread' = [thread EXCEPT ![t] = io]
      /\ UNCHANGED << address, holder, waiting, call, cancelled, orphans, result, charger >>
  BY DEF StartIO, Holds
<1>2. call[t].op = "command" => call[t] \in Command
  BY <1>1 DEF IInv, TypeOK, Calls, Fetch, Plumbing
<1>3. io \in IO
  BY <1>2 DEF IO, Command
<1>4. device' \in Addresses \union {None} /\ reconnect' \in BOOLEAN
  <2>1. device' \in Addresses \union {None}
    BY DEF StartIO, IInv, TypeOK
  <2>2. reconnect' = (reconnect /\ device # None)
    BY DEF StartIO
  <2>3. QED
    BY <2>1, <2>2
<1>5. io.write # None => call[t].op = "command" /\ call[t].value = io.write
  OBVIOUS
<1> HIDE DEF io
<1>6. TypeOK'
  BY <1>1, <1>3, <1>4 DEF IInv, TypeOK
<1>7. Serialised'
  BY <1>1 DEF IInv, Serialised, TypeOK
<1>8. ThreadsServeCalls'
  BY <1>1, <1>5 DEF IInv, ThreadsServeCalls, TypeOK
<1>9. QED
  BY <1>6, <1>7, <1>8 DEF IInv

\* An overdue thread is still its task's (_async_in_thread, up to the close).
LEMMA TimesOutKeeps ==
  ASSUME IInv, NEW t \in Tasks, TimesOut(t)
  PROVE  IInv'
<1> DEFINE io == [thread[t] EXCEPT !.overdue = TRUE]
<1>1. /\ thread[t] # None /\ thread' = [thread EXCEPT ![t] = io]
      /\ device' = None /\ reconnect' = TRUE
      /\ UNCHANGED << address, holder, waiting, call, cancelled, orphans, result, charger >>
  BY DEF TimesOut
<1>2. thread[t] \in IO
  BY <1>1 DEF IInv, TypeOK
<1>3. io \in IO /\ io.write = thread[t].write
  BY <1>2 DEF IO
<1> HIDE DEF io
<1>4. TypeOK'
  BY <1>1, <1>3 DEF IInv, TypeOK
<1>5. Serialised' /\ ThreadsServeCalls'
  BY <1>1, <1>3 DEF IInv, Serialised, ThreadsServeCalls, TypeOK
<1>6. QED
  BY <1>4, <1>5 DEF IInv

\* The I/O returns, or its device is closed and it fails.
LEMMA ThreadEndsKeeps ==
  ASSUME IInv, NEW t \in Tasks,
         (\E reply \in Replies : ThreadReturns(t, reply)) \/ StuckCloses(t)
  PROVE  IInv'
<1>1. /\ holder = t /\ thread[t] # None /\ thread' = [thread EXCEPT ![t] = None]
      /\ UNCHANGED << address, cancelled, charger >>
  BY DEF ThreadReturns, StuckCloses, OrphansEnd
<1>2. \E reply \in Replies : Replied(t, reply)
  <2>1. TimeOutReply(t) \in Replies
    BY DEF TimeOutReply, Replies
  <2>2. QED
    BY <2>1 DEF ThreadReturns, StuckCloses
<1>3. HolderDone
  BY <1>1, <1>2, ReplyKeeps
<1>4. /\ address' \in Addresses /\ device' \in Addresses \union {None} /\ reconnect' \in BOOLEAN
      /\ orphans' \subseteq orphans /\ thread' \in [Tasks -> IO \union {None}]
  BY <1>1 DEF ThreadReturns, StuckCloses, OrphansEnd, IInv, TypeOK
<1>5. QED
  BY <1>1, <1>3, <1>4, HolderDoneKeeps

\* A task is cancelled in the queue, or off its thread, which becomes an orphan.
LEMMA CancelKeeps ==
  ASSUME IInv, NEW t \in Tasks, Cancel(t)
  PROVE  IInv'
<1>1. /\ t \in Cancellable /\ call[t] # None
      /\ call' = [call EXCEPT ![t] = None] /\ result' = [result EXCEPT ![t] = "no"]
      /\ cancelled' = cancelled \union {t} /\ thread' = [thread EXCEPT ![t] = None]
      /\ orphans' = IF thread[t] = None THEN orphans ELSE orphans \union {Alone(thread[t])}
      /\ device' \in {device, None} /\ UNCHANGED << address, reconnect, charger >>
  BY DEF Cancel
<1>2. /\ holder' \in Tasks \union {None} /\ waiting' \in Seq(Tasks)
      /\ holder # t => holder' = holder
  <2>1. CASE holder = t
    BY <2>1, ReleaseType DEF Cancel, IInv
  <2>2. CASE holder # t
    BY <2>2, LeaveType DEF Cancel, IInv, TypeOK
  <2>3. QED
    BY <2>1, <2>2
<1>3. TypeOK'
  <2>1. thread[t] # None => Alone(thread[t]) \in Orphan
    <3>1. thread[t] # None => thread[t] \in IO
      BY DEF IInv, TypeOK
    <3>2. QED
      BY <3>1 DEF Alone, IO, Orphan
  <2>2. QED
    BY <1>1, <1>2, <2>1 DEF IInv, TypeOK
<1>4. Serialised'
  <2>1. ASSUME NEW u \in Tasks, thread'[u] # None PROVE holder' = u
    <3>1. u # t /\ thread[u] # None
      BY <1>1, <2>1 DEF IInv, TypeOK
    <3>2. QED
      BY <1>2, <3>1 DEF IInv, Serialised
  <2>2. cancelled' # {}
    BY <1>1
  <2>3. QED
    BY <2>1, <2>2 DEF Serialised
<1>5. ThreadsServeCalls'
  <2>1. \A u \in Tasks \ {t} : call'[u] = call[u] /\ thread'[u] = thread[u]
    BY <1>1 DEF IInv, TypeOK
  <2>2. call'[t] = None /\ thread'[t] = None
    BY <1>1 DEF IInv, TypeOK
  <2>3. QED
    BY <2>1, <2>2 DEF IInv, ThreadsServeCalls
<1>6. QED
  BY <1>3, <1>4, <1>5 DEF IInv

\* The charger obeys and reports, and orphans end.
LEMMA ChargerKeeps ==
  ASSUME IInv, ChargerActs
  PROVE  IInv'
<1>1. CASE \E t \in Tasks : Obeys(t)
  <2>1. PICK t \in Tasks : Obeys(t)
    BY <1>1
  <2> DEFINE io == [thread[t] EXCEPT !.obeyed = TRUE]
  <2>2. /\ thread[t] # None /\ thread[t].write # None
        /\ thread' = [thread EXCEPT ![t] = io]
        /\ charger' = [charger EXCEPT !.value = thread[t].write]
        /\ UNCHANGED << address, device, reconnect, holder, waiting, call, cancelled, orphans,
                        result >>
    BY <2>1 DEF Obeys
  <2>3. thread[t] \in IO /\ thread[t].write \in Values
    BY <2>2 DEF IInv, TypeOK, IO
  <2>4. io \in IO /\ io.write = thread[t].write
    BY <2>3 DEF IO
  <2> HIDE DEF io
  <2>5. TypeOK'
    BY <2>2, <2>3, <2>4 DEF IInv, TypeOK
  <2>6. Serialised'
    BY <2>2 DEF IInv, Serialised, TypeOK
  <2>7. ThreadsServeCalls'
    BY <2>2, <2>4 DEF IInv, ThreadsServeCalls, TypeOK
  <2>8. QED
    BY <2>5, <2>6, <2>7 DEF IInv
<1>2. CASE ObeysOrphan
  <2>1. PICK o \in orphans :
          /\ o.write # None
          /\ orphans' = (orphans \ {o}) \union {[o EXCEPT !.obeyed = TRUE]}
          /\ charger' = [charger EXCEPT !.value = o.write]
    BY <1>2 DEF ObeysOrphan
  <2>2. UNCHANGED << address, device, reconnect, holder, waiting, call, thread, cancelled, result >>
    BY <1>2 DEF ObeysOrphan
  <2>3. o \in Orphan /\ o.write \in Values
    BY <2>1 DEF IInv, TypeOK, Orphan
  <2>4. [o EXCEPT !.obeyed = TRUE] \in Orphan
    BY <2>3 DEF Orphan
  <2>5. TypeOK'
    BY <2>1, <2>2, <2>3, <2>4 DEF IInv, TypeOK
  <2>6. Serialised' /\ ThreadsServeCalls'
    BY <2>1, <2>2 DEF IInv, Serialised, ThreadsServeCalls
  <2>7. QED
    BY <2>5, <2>6 DEF IInv
<1>3. CASE OrphanReturns
  BY <1>3 DEF OrphanReturns, IInv, TypeOK, Serialised, ThreadsServeCalls
<1>4. CASE Shows
  BY <1>4 DEF Shows, IInv, TypeOK, Serialised, ThreadsServeCalls
<1>5. QED
  BY <1>1, <1>2, <1>3, <1>4 DEF ChargerActs

LEMMA InitEstablishes == Init => IInv
<1> SUFFICES ASSUME Init PROVE IInv
  OBVIOUS
<1>1. waiting \in Seq(Tasks)
  BY EmptySeq DEF Init
<1>2. charger \in [value : Values, shown : Values] /\ device \in Addresses \union {None}
  BY DEF Init
<1>3. call \in [Tasks -> Calls \union {None}] /\ thread \in [Tasks -> IO \union {None}]
  BY DEF Init
<1>4. TypeOK
  BY <1>1, <1>2, <1>3 DEF Init, TypeOK
<1>5. Serialised /\ ThreadsServeCalls
  BY DEF Init, Serialised, ThreadsServeCalls
<1>6. QED
  BY <1>4, <1>5 DEF IInv

LEMMA NextKeeps == IInv /\ [Next]_clientVars => IInv'
<1> SUFFICES ASSUME IInv, [Next]_clientVars PROVE IInv'
  OBVIOUS
<1>1. ASSUME NEW t \in Tasks,
             \/ Read(t) \/ Close(t)
             \/ \E v \in Values, verify \in BOOLEAN : Send(t, v, verify)
             \/ \E a \in Addresses : Connect(t, a)
      PROVE  IInv'
  BY <1>1, CallsKeep
<1>2. ASSUME NEW t \in Tasks, HolderActs(t) PROVE IInv'
  BY <1>2, PlumbingKeeps, StartIOKeeps, TimesOutKeeps, ThreadEndsKeeps DEF HolderActs
<1>3. ASSUME NEW t \in Tasks, Cancel(t) PROVE IInv'
  BY <1>3, CancelKeeps
<1>4. CASE UNCHANGED clientVars
  BY <1>4 DEF clientVars, IInv, TypeOK, Serialised, ThreadsServeCalls
<1>5. QED
  BY <1>1, <1>2, <1>3, <1>4, ChargerKeeps DEF Next

\* The client's state is well formed, and its lock serialises the device.
LEMMA InductiveInvariant == Spec => []IInv
BY InitEstablishes, NextKeeps, PTL DEF Spec

-----------------------------------------------------------------------------
\* The state of the client, its lock's queue and the commands it verifies keep their types
\* through every call, time-out and cancellation (tuya_ev_charger.py, _io_lock).
THEOREM ClientTyped == Spec => []TypeOK
BY InductiveInvariant, PTL DEF IInv

\* No I/O runs but the lock holder's, unless its task was cancelled ("every access to
\* self._device is serialised here").
THEOREM DeviceIsSerialised == Spec => []Serialised
BY InductiveInvariant, PTL DEF IInv

\* A value that reaches the charger is that of the command in progress, as long as no task
\* was cancelled, whatever got stuck before (_async_run_blocking on a time-out).
THEOREM StuckWritesAreHarmless == Spec => LateWritesHarmless
<1>1. IInv /\ [Next]_clientVars =>
        [charger'.value # charger.value /\ cancelled = {} =>
           /\ holder # None /\ call[holder] # None
           /\ call[holder].op = "command" /\ call[holder].value = charger'.value]_clientVars
  <2> SUFFICES ASSUME IInv, [Next]_clientVars, charger'.value # charger.value, cancelled = {}
               PROVE  /\ holder # None /\ call[holder] # None
                      /\ call[holder].op = "command" /\ call[holder].value = charger'.value
    OBVIOUS
  <2>1. charger' # charger
    OBVIOUS
  <2>2. ~ Shows
    <3>1. Shows => charger'.value = charger.value
      BY DEF Shows, IInv, TypeOK
    <3>2. QED
      BY <3>1
  <2>3. ~ ObeysOrphan
    BY DEF ObeysOrphan, IInv, Serialised
  <2>4. (\E t \in Tasks : Obeys(t))
    BY <2>1, <2>2, <2>3
       DEF Next, ChargerActs, OrphanReturns, HolderActs, ConnectEnds, CloseEnds, Refused, StartIO,
           ThreadReturns, TimesOut, StuckCloses, Cancel, Read, Close, Send, Connect, Call, clientVars
  <2>5. PICK t \in Tasks : Obeys(t)
    BY <2>4
  <2>6. charger'.value = thread[t].write
    BY <2>5 DEF Obeys, IInv, TypeOK
  <2>7. thread[t] # None /\ thread[t].write # None
    BY <2>5 DEF Obeys
  <2>8. holder = t /\ t # None
    BY <2>7, ClientAssumption DEF IInv, Serialised
  <2>9. QED
    BY <2>6, <2>7, <2>8 DEF IInv, ThreadsServeCalls
<1>2. QED
  BY <1>1, InductiveInvariant, PTL DEF Spec, LateWritesHarmless

-----------------------------------------------------------------------------
(* The client keeps WritePromise.                                          *)

\* Who holds the lock or waits for it has a call, and stands in line once.
InLine ==
  /\ holder = None => waiting = << >>
  /\ holder # None => call[holder] # None
  /\ \A i \in DOMAIN waiting : waiting[i] # holder /\ call[waiting[i]] # None
  /\ \A i, j \in DOMAIN waiting : waiting[i] = waiting[j] => i = j

\* A thread that writes does so before the read-backs.
WritesFirst == \A t \in Tasks : thread[t] # None /\ thread[t].write # None => Writing(t)

PInv == IInv /\ InLine /\ WritesFirst

\* The line, from its head: the holder and those behind it.
LEMMA LineIs ==
  ASSUME TypeOK, holder # None
  PROVE  /\ Line \in Seq(Tasks) /\ Line # << >> /\ Head(Line) = holder /\ Tail(Line) = waiting
         /\ Len(Line) = Len(waiting) + 1 /\ Line[1] = holder
         /\ \A i \in 1..Len(waiting) : Line[i + 1] = waiting[i]
         /\ DOMAIN Line = 1..(Len(waiting) + 1) /\ Len(waiting) \in Nat
<1> DEFINE one == << holder >>
<1>1. holder \in Tasks /\ waiting \in Seq(Tasks)
  BY DEF TypeOK
<1>2. one \in Seq(Tasks) /\ Len(one) = 1 /\ one[1] = holder
  BY <1>1
<1>3. Line = one \o waiting
  BY DEF Line
<1> HIDE DEF one
<1>4. /\ Line \in Seq(Tasks) /\ Len(Line) = 1 + Len(waiting)
      /\ \A i \in 1..(1 + Len(waiting)) : Line[i] = IF i <= 1 THEN one[i] ELSE waiting[i - 1]
  BY <1>1, <1>2, <1>3, ConcatProperties
<1>5. Len(waiting) \in Nat /\ DOMAIN Line = 1..(Len(waiting) + 1)
  BY <1>1, <1>4, LenProperties
<1>6. Line[1] = holder /\ \A i \in 1..Len(waiting) : Line[i + 1] = waiting[i]
  BY <1>2, <1>4, <1>5
<1>7. Line # << >>
  BY <1>4, <1>5, EmptySeq
<1>8. Head(Line) = Line[1]
  OBVIOUS
<1>9. Tail(Line) = waiting
  <2>1. /\ Tail(Line) \in Seq(Tasks) /\ Len(Tail(Line)) = Len(Line) - 1
        /\ \A i \in 1..Len(Tail(Line)) : Tail(Line)[i] = Line[i + 1]
    BY <1>4, <1>7, HeadTailProperties
  <2>2. Len(Tail(Line)) = Len(waiting) /\ \A i \in 1..Len(Tail(Line)) : Tail(Line)[i] = waiting[i]
    BY <1>4, <1>5, <1>6, <2>1
  <2>3. QED
    BY <1>1, <2>1, <2>2, SeqEqual
<1>10. QED
  BY <1>4, <1>5, <1>6, <1>7, <1>8, <1>9

\* A new call stands last.
LEMMA AcquireStandsLast ==
  ASSUME TypeOK, InLine, NEW t \in Tasks, NEW c, c # None, call[t] = None,
         call' = [call EXCEPT ![t] = c], Acquire(t)
  PROVE  InLine' /\ Line' = Append(Line, t) /\ \A i \in DOMAIN Line : Line[i] # t
<1>1. /\ waiting \in Seq(Tasks) /\ Len(waiting) \in Nat /\ DOMAIN waiting = 1..Len(waiting)
      /\ t # None /\ call'[t] # None /\ \A u \in Tasks \ {t} : call'[u] = call[u]
      /\ holder \in Tasks \union {None} /\ \A i \in 1..Len(waiting) : waiting[i] \in Tasks
  BY LenProperties, ElementOfSeq, ClientAssumption DEF TypeOK
<1>2. CASE holder = None
  <2>1. Line = << >> /\ waiting = << >> /\ holder' = t /\ waiting' = << >>
    BY <1>2 DEF Line, Acquire, InLine
  <2>2. Line' = << t >> \o << >>
    BY <1>1, <2>1 DEF Line
  <2>3. Line' = Append(Line, t)
    BY <1>1, <2>1, <2>2
  <2>4. InLine'
    BY <1>1, <2>1 DEF InLine
  <2>5. QED
    BY <2>1, <2>3, <2>4
<1>3. CASE holder # None
  <2>1. holder' = holder /\ waiting' = Append(waiting, t)
    BY <1>3 DEF Acquire
  <2>2. /\ waiting' \in Seq(Tasks) /\ Len(waiting') = Len(waiting) + 1
        /\ \A i \in 1..Len(waiting) : waiting'[i] = waiting[i]
        /\ waiting'[Len(waiting) + 1] = t /\ DOMAIN waiting' = 1..(Len(waiting) + 1)
    BY <1>1, <2>1, AppendProperties, LenProperties
  <2>3. holder # t /\ \A i \in 1..Len(waiting) : waiting[i] # t
    BY <1>1, <1>3 DEF InLine
  <2>4. InLine'
    <3>1. call'[holder'] # None
      BY <1>1, <1>3, <2>1 DEF InLine
    <3>2. \A i \in DOMAIN waiting' : waiting'[i] # holder' /\ call'[waiting'[i]] # None
      BY <1>1, <2>1, <2>2, <2>3 DEF InLine
    <3>3. \A i, j \in DOMAIN waiting' : waiting'[i] = waiting'[j] => i = j
      BY <1>1, <2>2, <2>3 DEF InLine
    <3>4. QED
      BY <1>3, <2>1, <3>1, <3>2, <3>3 DEF InLine
  <2>5. << holder >> \in Seq(Tasks) /\ << t >> \in Seq(Tasks)
    BY <1>1, <1>3
  <2>6. Line = << holder >> \o waiting /\ Line' = << holder >> \o Append(waiting, t)
    BY <1>3, <2>1 DEF Line
  <2>7. Append(waiting, t) = waiting \o << t >>
    BY <1>1, AppendIsConcat
  <2>8. (<< holder >> \o waiting) \o << t >> = << holder >> \o (waiting \o << t >>)
    BY <1>1, <2>5, ConcatAssociative
  <2>9. Line \in Seq(Tasks) /\ Append(Line, t) = Line \o << t >>
    BY <1>3, LineIs, AppendIsConcat
  <2>10. Line' = Append(Line, t)
    BY <2>6, <2>7, <2>8, <2>9
  <2>11. \A i \in DOMAIN Line : Line[i] # t
    <3>1. TAKE i \in DOMAIN Line
    <3>2. i = 1 \/ (i - 1 \in 1..Len(waiting) /\ Line[(i - 1) + 1] = waiting[i - 1])
      BY <1>1, <1>3, LineIs
    <3>3. i = (i - 1) + 1
      BY <1>1, <1>3, LineIs
    <3>4. QED
      BY <1>3, <2>3, <3>2, <3>3, LineIs
  <2>12. QED
    BY <2>4, <2>10, <2>11
<1>4. QED
  BY <1>2, <1>3

\* The holder's call ends, and the line moves up.
LEMMA ReleaseMovesUp ==
  ASSUME TypeOK, InLine, NEW t \in Tasks, holder = t,
         call' = [call EXCEPT ![t] = None], Release
  PROVE  InLine' /\ Line # << >> /\ Head(Line) = t /\ Line' = Tail(Line)
<1>1. /\ waiting \in Seq(Tasks) /\ Len(waiting) \in Nat /\ DOMAIN waiting = 1..Len(waiting)
      /\ t # None /\ \A u \in Tasks \ {t} : call'[u] = call[u]
      /\ \A i \in 1..Len(waiting) : waiting[i] \in Tasks
  BY LenProperties, ElementOfSeq, ClientAssumption DEF TypeOK
<1>2. Line # << >> /\ Head(Line) = t /\ Tail(Line) = waiting
  BY <1>1, LineIs
<1>3. CASE waiting = << >>
  <2>1. holder' = None /\ waiting' = << >> /\ DOMAIN waiting' = {}
    BY <1>3 DEF Release
  <2>2. QED
    BY <1>2, <1>3, <2>1 DEF Line, InLine
<1>4. CASE waiting # << >>
  <2>1. holder' = Head(waiting) /\ waiting' = Tail(waiting)
    BY <1>4 DEF Release
  <2>2. /\ waiting' \in Seq(Tasks) /\ Len(waiting') = Len(waiting) - 1
        /\ \A i \in 1..Len(waiting') : waiting'[i] = waiting[i + 1]
        /\ holder' \in Tasks /\ holder' = waiting[1] /\ Len(waiting) > 0
    <3>1. Head(waiting) = waiting[1]
      OBVIOUS
    <3>2. Len(waiting) # 0
      BY <1>1, <1>4, EmptySeq
    <3>3. QED
      BY <1>1, <1>4, <2>1, <3>1, <3>2, HeadTailProperties
  <2>3. DOMAIN waiting' = 1..(Len(waiting) - 1)
    BY <2>2, LenProperties
  <2>4. holder' # None
    BY <2>2, ClientAssumption
  <2>5. call'[holder'] # None
    BY <1>1, <2>2 DEF InLine
  <2>6. \A i \in DOMAIN waiting' : waiting'[i] # holder' /\ call'[waiting'[i]] # None
    BY <1>1, <2>2, <2>3 DEF InLine
  <2>7. ASSUME NEW i \in DOMAIN waiting', NEW j \in DOMAIN waiting', waiting'[i] = waiting'[j]
        PROVE  i = j
    <3>1. /\ i + 1 \in 1..Len(waiting) /\ j + 1 \in 1..Len(waiting)
          /\ waiting[i + 1] = waiting[j + 1]
      BY <1>1, <2>2, <2>3, <2>7
    <3>2. i + 1 = j + 1
      BY <1>1, <3>1 DEF InLine
    <3>3. QED
      BY <1>1, <2>3, <3>2
  <2>8. InLine'
    BY <2>4, <2>5, <2>6, <2>7 DEF InLine
  <2>9. Line' = waiting
    <3>1. Line' = << Head(waiting) >> \o Tail(waiting)
      BY <2>1, <2>4 DEF Line
    <3>2. waiting = SubSeq(waiting, 1, Len(waiting))
      BY <1>1, SubSeqFull
    <3>3. SubSeq(waiting, 1, Len(waiting)) = << waiting[1] >> \o SubSeq(waiting, 2, Len(waiting))
      <4>1. 1 \in 1..Len(waiting) /\ Len(waiting) \in 1..Len(waiting)
        BY <1>1, <2>2
      <4>2. QED
        BY <1>1, <4>1, SubSeqRecursiveFirst
    <3>4. Tail(waiting) = SubSeq(waiting, 2, Len(waiting)) /\ Head(waiting) = waiting[1]
      BY <1>1, <1>4, <2>1, <2>2, TailIsSubSeq
    <3>5. QED
      BY <3>1, <3>2, <3>3, <3>4
  <2>10. QED
    BY <1>2, <2>8, <2>9
<1>5. QED
  BY <1>3, <1>4

\* A sequence without one of its elements.
LEMMA RemovedAt ==
  ASSUME NEW S, NEW s \in Seq(S), NEW i \in 1..Len(s)
  PROVE  /\ RemoveAt(s, i) \in Seq(S) /\ Len(RemoveAt(s, i)) = Len(s) - 1
         /\ \A j \in 1..(Len(s) - 1) : RemoveAt(s, i)[j] = IF j < i THEN s[j] ELSE s[j + 1]
<1> DEFINE before == SubSeq(s, 1, i - 1)
           after == SubSeq(s, i + 1, Len(s))
           n == Len(s)
<1>1. n \in Nat /\ \A j \in 1..n : s[j] \in S
  BY LenProperties, ElementOfSeq
<1>2. /\ before \in Seq(S) /\ Len(before) = i - 1
      /\ \A j \in 1..(i - 1) : before[j] = s[j]
  <2>1. 1 \in Int /\ i - 1 \in Int /\ \A j \in 1..(i - 1) : s[j] \in S
    BY <1>1
  <2>2. /\ before \in Seq(S) /\ Len(before) = IF 1 <= i - 1 THEN (i - 1) - 1 + 1 ELSE 0
        /\ \A j \in 1..((i - 1) - 1 + 1) : before[j] = s[1 + j - 1]
    BY <2>1, SubSeqProperties
  <2> HIDE DEF before
  <2>3. QED BY <1>1, <2>2
<1>3. /\ after \in Seq(S) /\ Len(after) = n - i
      /\ \A j \in 1..(n - i) : after[j] = s[i + j]
  <2>1. i + 1 \in Int /\ n \in Int /\ \A j \in (i + 1)..n : s[j] \in S
    BY <1>1
  <2>2. /\ after \in Seq(S) /\ Len(after) = IF i + 1 <= n THEN n - (i + 1) + 1 ELSE 0
        /\ \A j \in 1..(n - (i + 1) + 1) : after[j] = s[(i + 1) + j - 1]
    BY <2>1, SubSeqProperties
  <2> HIDE DEF after
  <2>3. QED BY <1>1, <2>2
<1>4. RemoveAt(s, i) = before \o after
  BY DEF RemoveAt
<1> DEFINE all == before \o after
<1>5. i \in 1..n
  OBVIOUS
<1> HIDE DEF before, after, n
<1>6. /\ all \in Seq(S) /\ Len(all) = Len(before) + Len(after)
      /\ \A j \in 1..(Len(before) + Len(after)) :
           all[j] = IF j <= Len(before) THEN before[j] ELSE after[j - Len(before)]
  BY <1>2, <1>3, ConcatProperties
<1> HIDE DEF all
<1>7. Len(before) + Len(after) = n - 1
  BY <1>1, <1>2, <1>3, <1>5
<1>8. ASSUME NEW j \in 1..(n - 1)
      PROVE  all[j] = IF j < i THEN s[j] ELSE s[j + 1]
  <2>1. all[j] = IF j <= i - 1 THEN before[j] ELSE after[j - (i - 1)]
    BY <1>2, <1>6, <1>7
  <2>2. CASE j < i
    <3>1. j \in 1..(i - 1)
      BY <1>1, <1>5, <2>2
    <3>2. QED
      BY <1>2, <2>1, <2>2, <3>1
  <2>3. CASE j >= i
    <3>1. j - (i - 1) \in 1..(n - i) /\ i + (j - (i - 1)) = j + 1 /\ ~(j <= i - 1)
      BY <1>1, <1>5, <2>3
    <3>2. QED
      BY <1>3, <2>1, <2>3, <3>1
  <2>4. QED BY <1>1, <1>5, <2>2, <2>3
<1>9. QED
  BY <1>4, <1>6, <1>7, <1>8 DEF all, n

\* One that waits leaves the line, and the others keep their order.
LEMMA LeaveKeepsOrder ==
  ASSUME TypeOK, InLine, NEW t \in Tasks, holder # t, Leave(t),
         call' = [call EXCEPT ![t] = None]
  PROVE  InLine' /\ holder # None /\ \E i \in DOMAIN Line : Line[i] = t /\ Line' = RemoveAt(Line, i)
<1> DEFINE n == Len(waiting)
<1>1. /\ waiting \in Seq(Tasks) /\ n \in Nat /\ DOMAIN waiting = 1..n
      /\ \A u \in Tasks \ {t} : call'[u] = call[u]
      /\ \A i \in 1..n : waiting[i] \in Tasks
  BY LenProperties, ElementOfSeq DEF TypeOK
<1>2. PICK i \in 1..n : waiting[i] = t /\ waiting' = RemoveAt(waiting, i)
  BY <1>1 DEF Leave
<1>3. holder' = holder /\ holder # None
  BY <1>1, <1>2, EmptySeq DEF Leave, InLine
<1>4. /\ waiting' \in Seq(Tasks) /\ Len(waiting') = n - 1 /\ DOMAIN waiting' = 1..(n - 1)
      /\ \A j \in 1..(n - 1) : waiting'[j] = IF j < i THEN waiting[j] ELSE waiting[j + 1]
  <2> DEFINE rest == RemoveAt(waiting, i)
  <2>1. /\ rest \in Seq(Tasks) /\ Len(rest) = Len(waiting) - 1
        /\ \A j \in 1..(Len(waiting) - 1) :
             rest[j] = IF j < i THEN waiting[j] ELSE waiting[j + 1]
    BY <1>1, RemovedAt
  <2> HIDE DEF rest
  <2>2. DOMAIN rest = 1..Len(rest)
    BY <2>1, LenProperties
  <2>3. waiting' = rest
    BY <1>2 DEF rest
  <2>4. QED
    BY <2>1, <2>2, <2>3
<1>5. ASSUME NEW j \in 1..(n - 1)
      PROVE  /\ waiting'[j] # t /\ waiting'[j] # holder /\ call'[waiting'[j]] # None
             /\ waiting'[j] = waiting[IF j < i THEN j ELSE j + 1]
  <2> DEFINE k == IF j < i THEN j ELSE j + 1
  <2>1. k \in 1..n /\ k # i /\ waiting'[j] = waiting[k]
    BY <1>1, <1>4
  <2> HIDE DEF k
  <2>2. waiting[k] # t /\ waiting[k] # holder /\ call[waiting[k]] # None /\ waiting[k] \in Tasks
    BY <1>1, <1>2, <2>1 DEF InLine
  <2>3. QED
    BY <1>1, <2>1, <2>2 DEF k
<1>6. InLine'
  <2>1. holder \in Tasks /\ call'[holder] = call[holder] /\ call[holder] # None
    BY <1>1, <1>3 DEF TypeOK, InLine
  <2>2. ASSUME NEW j \in 1..(n - 1), NEW m \in 1..(n - 1), waiting'[j] = waiting'[m]
        PROVE  j = m
    <3> DEFINE a == IF j < i THEN j ELSE j + 1
               b == IF m < i THEN m ELSE m + 1
    <3>1. a \in 1..n /\ b \in 1..n /\ waiting[a] = waiting[b]
      BY <1>1, <1>5, <2>2
    <3>2. a = b
      <4> HIDE DEF a, b
      <4>1. QED BY <1>1, <3>1 DEF InLine
    <3>3. QED
      BY <1>1, <3>2
  <2>3. QED
    BY <1>3, <1>4, <1>5, <2>1, <2>2 DEF InLine
<1>7. /\ i + 1 \in DOMAIN Line /\ Line[i + 1] = t /\ Line \in Seq(Tasks) /\ Len(Line) = n + 1
      /\ Line[1] = holder /\ \A j \in 1..n : Line[j + 1] = waiting[j]
  BY <1>1, <1>2, <1>3, LineIs
<1>8. /\ Line' \in Seq(Tasks) /\ Len(Line') = n
      /\ Line'[1] = holder /\ \A j \in 1..(n - 1) : Line'[j + 1] = waiting'[j]
  <2> DEFINE one == << holder >>
  <2>1. one \in Seq(Tasks) /\ Len(one) = 1 /\ one[1] = holder
    BY <1>3 DEF TypeOK
  <2>2. Line' = one \o waiting'
    BY <1>3 DEF Line
  <2> DEFINE rest == waiting'
             all == one \o rest
  <2>3. rest \in Seq(Tasks) /\ Len(rest) = n - 1
    BY <1>4
  <2> HIDE DEF one, rest, n
  <2>4. /\ all \in Seq(Tasks) /\ Len(all) = Len(one) + Len(rest)
        /\ \A j \in 1..(Len(one) + Len(rest)) :
             all[j] = IF j <= Len(one) THEN one[j] ELSE rest[j - Len(one)]
    BY <2>1, <2>3, ConcatProperties
  <2>5. Line' = all
    BY <2>2 DEF rest
  <2> HIDE DEF all
  <2>6. n \in Nat \ {0}
    BY <1>1
  <2>7. Len(all) = n /\ Len(one) + Len(rest) = n
    BY <2>1, <2>3, <2>4, <2>6
  <2>8. all[1] = holder
    BY <2>1, <2>4, <2>6, <2>7
  <2>9. ASSUME NEW j \in 1..(n - 1) PROVE all[j + 1] = rest[j]
    <3>1. j + 1 \in 1..n /\ ~(j + 1 <= 1) /\ (j + 1) - 1 = j
      BY <2>6
    <3>2. QED
      BY <2>1, <2>4, <2>7, <3>1
  <2>10. QED
    BY <2>4, <2>5, <2>7, <2>8, <2>9 DEF rest
<1>9. Line' = RemoveAt(Line, i + 1)
  <2> DEFINE rest == RemoveAt(Line, i + 1)
  <2>1. i + 1 \in 1..Len(Line)
    BY <1>1, <1>7
  <2>2. /\ rest \in Seq(Tasks) /\ Len(rest) = n
        /\ \A j \in 1..n : rest[j] = IF j < i + 1 THEN Line[j] ELSE Line[j + 1]
    <3>1. /\ rest \in Seq(Tasks) /\ Len(rest) = Len(Line) - 1
          /\ \A j \in 1..(Len(Line) - 1) :
               rest[j] = IF j < i + 1 THEN Line[j] ELSE Line[j + 1]
      BY <1>7, <2>1, RemovedAt
    <3>2. Len(Line) - 1 = n
      BY <1>1, <1>7
    <3> HIDE DEF rest, n
    <3>3. QED BY <3>1, <3>2
  <2> HIDE DEF rest
  <2>3. ASSUME NEW j \in 1..n PROVE Line'[j] = rest[j]
    <3>1. CASE j = 1
      BY <1>1, <1>7, <1>8, <2>2, <3>1
    <3>2. CASE j > 1
      <4> DEFINE m == j - 1
      <4>1. m \in 1..(n - 1) /\ j = m + 1
        BY <1>1, <3>2
      <4> HIDE DEF m
      <4>2. Line'[j] = IF m < i THEN waiting[m] ELSE waiting[m + 1]
        BY <1>4, <1>8, <4>1
      <4>3. m \in 1..n /\ m + 1 \in 1..n
        BY <1>1, <4>1
      <4>4. Line[m + 1] = waiting[m] /\ Line[(m + 1) + 1] = waiting[m + 1]
        BY <1>7, <4>3
      <4>5. QED
        BY <1>1, <2>2, <4>1, <4>2, <4>4
    <3>3. QED BY <1>1, <3>1, <3>2
  <2>4. QED
    BY <1>8, <2>2, <2>3, SeqEqual DEF rest
<1>10. QED
  BY <1>3, <1>6, <1>7, <1>9

-----------------------------------------------------------------------------
(* The steps, as steps of the promise. *)

\* What a step must do: keep the line and the threads, and be one the promise allows.
Promised == InLine' /\ WritesFirst' /\ (Writes!Next \/ UNCHANGED Writes!vars)

\* A task whose call or thread alone changes, so that it has nothing left to write.
LEMMA NothingToWrite ==
  ASSUME NEW t \in Tasks, ~Writing(t)' \/ Landed(t)',
         \A u \in Tasks \ {t} : call'[u] = call[u] /\ thread'[u] = thread[u]
  PROVE  ToWrite' = [ToWrite EXCEPT ![t] = None]
BY DEF ToWrite, Writing, Landed

\* Fewer orphans, fewer strays.
LEMMA StraysShrink ==
  ASSUME orphans' \subseteq orphans
  PROVE  Strays' \subseteq Strays
BY DEF Strays

\* A task without a thread, the others as before.
LEMMA IdleKeepsWritesFirst ==
  ASSUME WritesFirst, NEW t \in Tasks, thread'[t] = None,
         \A u \in Tasks \ {t} : call'[u] = call[u] /\ thread'[u] = thread[u]
  PROVE  WritesFirst'
BY DEF WritesFirst, Writing

\* A call stands last in line, with what it may write.
LEMMA CallIsAsked ==
  ASSUME PInv, NEW t \in Tasks, NEW c \in Calls, c \in Command => c.stage = "write", Call(t, c)
  PROVE  Promised
<1> DEFINE v == IF c.op = "command" THEN c.value ELSE None
<1>1. c # None /\ call[t] = None /\ call' = [call EXCEPT ![t] = c] /\ Acquire(t)
  BY NoCallAssumption DEF Call
<1>2. /\ result' = [result EXCEPT ![t] = "none"]
      /\ UNCHANGED << thread, orphans, charger >>
  BY DEF Call
<1>3. InLine' /\ Line' = Append(Line, t) /\ \A i \in DOMAIN Line : Line[i] # t
  BY <1>1, AcquireStandsLast DEF PInv, IInv
<1>4. call'[t] = c /\ thread[t] = None /\ thread'[t] = None
      /\ \A u \in Tasks \ {t} : call'[u] = call[u] /\ thread'[u] = thread[u]
  BY <1>1, <1>2 DEF PInv, IInv, TypeOK, ThreadsServeCalls
<1>5. c.op = "command" => c \in Command /\ c.stage = "write" /\ c.value \in Values
  BY DEF Calls, Fetch, Plumbing, Command
<1>6. v \in Values \union {None}
  BY <1>5
<1>7. ToWrite' = [ToWrite EXCEPT ![t] = v]
  <2>1. ToWrite'[t] = v
    BY <1>1, <1>4, <1>5 DEF ToWrite, Writing, Landed
  <2>2. \A u \in Tasks \ {t} : ToWrite'[u] = ToWrite[u]
    BY <1>4 DEF ToWrite, Writing, Landed
  <2> HIDE DEF v
  <2>3. QED
    BY <2>1, <2>2 DEF ToWrite
<1>8. Strays' = Strays /\ charger'.value = charger.value
  BY <1>2 DEF Strays
<1>9. Writes!Ask(t, v)
  BY <1>2, <1>3, <1>7, <1>8 DEF Writes!Ask
<1> HIDE DEF v
<1>10. Writes!Next
  BY <1>6, <1>9 DEF Writes!Next
<1>11. WritesFirst'
  BY <1>4, IdleKeepsWritesFirst DEF PInv
<1>12. QED
  BY <1>3, <1>10, <1>11 DEF Promised

\* The end of the holder's call answers it.
LEMMA FinishIsAnswer ==
  ASSUME PInv, NEW t \in Tasks, holder = t,
         NEW outcome \in {"none", "yes", "no"}, Finish(t, outcome), thread'[t] = None,
         \A u \in Tasks \ {t} : thread'[u] = thread[u],
         orphans' \subseteq orphans, UNCHANGED charger
  PROVE  Promised
<1>1. /\ call' = [call EXCEPT ![t] = None] /\ result' = [result EXCEPT ![t] = outcome] /\ Release
  BY DEF Finish
<1>2. InLine' /\ Line # << >> /\ Head(Line) = t /\ Line' = Tail(Line)
  BY <1>1, ReleaseMovesUp DEF PInv, IInv
<1>3. call'[t] = None /\ \A u \in Tasks \ {t} : call'[u] = call[u] /\ thread'[u] = thread[u]
  BY <1>1 DEF PInv, IInv, TypeOK
<1>4. ToWrite' = [ToWrite EXCEPT ![t] = None]
  BY <1>3, NothingToWrite DEF Writing
<1>5. Writes!Answer(t)
  BY <1>1, <1>2, <1>4, StraysShrink DEF Writes!Answer, Writes!Served
<1>6. WritesFirst'
  BY <1>3, IdleKeepsWritesFirst DEF PInv
<1>7. QED
  BY <1>2, <1>5, <1>6 DEF Promised, Writes!Next

\* The holder's command goes on to a read-back, its write over.
LEMMA ReadBackIsLapse ==
  ASSUME PInv, NEW t \in Tasks, holder = t,
         NEW c \in Command, c.stage = "verify", call' = [call EXCEPT ![t] = c],
         UNCHANGED << result, holder, waiting >>, thread'[t] = None,
         \A u \in Tasks \ {t} : thread'[u] = thread[u],
         orphans' \subseteq orphans, UNCHANGED charger
  PROVE  Promised
<1>1. Line # << >> /\ Head(Line) = t /\ Line' = Line
  BY LineIs, ClientAssumption DEF PInv, IInv, Line
<1>2. c # None /\ call'[t] = c /\ \A u \in Tasks \ {t} : call'[u] = call[u] /\ thread'[u] = thread[u]
  BY NoCallAssumption DEF PInv, IInv, TypeOK, Calls
<1>3. ToWrite' = [ToWrite EXCEPT ![t] = None]
  BY <1>2, NothingToWrite DEF Writing
<1>4. Writes!Lapse(t)
  BY <1>1, <1>3, StraysShrink DEF Writes!Lapse, Writes!Served
<1>5. WritesFirst'
  BY <1>2, IdleKeepsWritesFirst DEF PInv
<1>6. InLine'
  <2>1. waiting \in Seq(Tasks)
    BY DEF PInv, IInv, TypeOK
  <2>2. \A i \in DOMAIN waiting : waiting[i] \in Tasks
    BY <2>1, ElementOfSeq, LenProperties
  <2>3. QED
    BY <1>2, <2>2 DEF PInv, InLine
<1>7. QED
  BY <1>4, <1>5, <1>6 DEF Promised, Writes!Next

\* A reply ends the holder's call or leads to a read-back (_async_send_command).
LEMMA ReplyEndsOrReadsBack ==
  ASSUME IInv, NEW t \in Tasks, thread[t] # None, NEW reply \in Replies, Replied(t, reply)
  PROVE  \/ \E outcome \in {"none", "yes", "no"} : Finish(t, outcome)
         \/ \E c \in Command : /\ c.stage = "verify" /\ call' = [call EXCEPT ![t] = c]
                               /\ UNCHANGED << result, holder, waiting >>
<1> DEFINE Over == \E outcome \in {"none", "yes", "no"} : Finish(t, outcome)
           GoesOn == \E c \in Command : /\ c.stage = "verify" /\ call' = [call EXCEPT ![t] = c]
                                        /\ UNCHANGED << result, holder, waiting >>
           c == call[t]
<1>1. c # None /\ c \in Calls /\ c.op \in {"read", "command"}
  BY DEF IInv, TypeOK, ThreadsServeCalls
<1>2. ASSUME NEW d \in Command, d.stage = "verify", AfterReadBack(t, d) PROVE Over \/ GoesOn
  BY <1>2 DEF AfterReadBack
<1>3. Finish(t, "yes") \/ Finish(t, "no") => Over
  OBVIOUS
<1> SUFFICES Over \/ GoesOn
  OBVIOUS
<1> HIDE DEF Over, GoesOn
<1>4. CASE c.op = "read"
  BY <1>3, <1>4 DEF Replied
<1>5. CASE c.op = "command" /\ c.stage = "write"
  <2>1. c \in Command
    BY <1>1, <1>5 DEF Calls, Fetch, Plumbing, Command
  <2>2. Verifying(c) \in Command /\ Verifying(c).stage = "verify"
    BY <2>1 DEF Verifying, Command
  <2>3. \/ Finish(t, "no") \/ Finish(t, "yes") \/ AfterReadBack(t, Verifying(c))
    BY <1>5 DEF Replied
  <2>4. QED
    BY <1>2, <1>3, <2>2, <2>3
<1>6. CASE c.op = "command" /\ c.stage = "verify"
  <2>1. c \in Command /\ c.left > 0
    BY <1>1, <1>6 DEF Calls, Fetch, Plumbing, Command, IInv, ThreadsServeCalls
  <2>2. c.left - 1 \in 0..Retries
    BY <2>1, ClientAssumption DEF Command
  <2> DEFINE fewer == OneLess(c)
             lacking == [fewer EXCEPT !.absent = 1]
             differing == [fewer EXCEPT !.saw = TRUE]
  <2>3. fewer \in Command /\ fewer.stage = "verify"
    BY <1>6, <2>1, <2>2 DEF OneLess, Command
  <2>4. \/ Finish(t, "no") \/ Finish(t, "yes")
        \/ AfterReadBack(t, fewer) \/ AfterReadBack(t, lacking) \/ AfterReadBack(t, differing)
    BY <1>6 DEF Replied, Replies
  <2> HIDE DEF fewer
  <2>5. lacking \in Command /\ lacking.stage = "verify"
    BY <2>3 DEF Command
  <2>6. differing \in Command /\ differing.stage = "verify"
    BY <2>3 DEF Command
  <2> HIDE DEF lacking, differing
  <2>7. QED
    BY <1>2, <1>3, <2>3, <2>4, <2>5, <2>6
<1>7. QED
  <2>1. c.op = "command" => c.stage \in {"write", "verify"}
    BY <1>1 DEF Calls, Fetch, Plumbing, Command
  <2>2. QED
    BY <1>1, <1>4, <1>5, <1>6, <2>1

\* The calls (async with self._io_lock).
LEMMA CallsAreAsked ==
  ASSUME PInv, NEW t \in Tasks,
         \/ Read(t) \/ Close(t)
         \/ \E v \in Values, verify \in BOOLEAN : Send(t, v, verify)
         \/ \E a \in Addresses : Connect(t, a)
  PROVE  Promised
<1>1. \A op \in {"read", "connect", "close"} : [op |-> op] \in Calls /\ [op |-> op] \notin Command
  BY DEF Calls, Fetch, Plumbing, Command
<1>2. CASE Read(t) \/ Close(t) \/ \E a \in Addresses : Connect(t, a)
  <2>1. PICK op \in {"read", "connect", "close"} : Call(t, [op |-> op])
    BY <1>2 DEF Read, Close, Connect
  <2> DEFINE c == [op |-> op]
  <2>2. c \in Calls /\ c \notin Command /\ Call(t, c)
    BY <1>1, <2>1
  <2> HIDE DEF c
  <2>3. QED
    BY <2>2, CallIsAsked
<1>3. CASE \E v \in Values, verify \in BOOLEAN : Send(t, v, verify)
  <2>1. PICK v \in Values, verify \in BOOLEAN : Send(t, v, verify)
    BY <1>3
  <2> DEFINE c == [op |-> "command", value |-> v, stage |-> "write", verify |-> verify,
                   left |-> Retries, absent |-> 0, saw |-> FALSE]
  <2>2. c \in Calls /\ c.stage = "write"
    BY ClientAssumption DEF Calls, Command
  <2>3. Call(t, c)
    BY <2>1 DEF Send
  <2> HIDE DEF c
  <2>4. QED
    BY <2>2, <2>3, CallIsAsked
<1>4. QED
  BY <1>2, <1>3

\* The holder connects, closes, or is refused.
LEMMA PlumbingIsAnswer ==
  ASSUME PInv, NEW t \in Tasks, ConnectEnds(t) \/ CloseEnds(t) \/ Refused(t)
  PROVE  Promised
<1>1. holder = t /\ call[t] # None
  BY DEF ConnectEnds, CloseEnds, Refused, Holds
<1>2. thread[t] = None
  BY DEF ConnectEnds, CloseEnds, Refused, Holds, PInv, IInv, ThreadsServeCalls
<1>3. \E outcome \in {"none", "yes", "no"} : Finish(t, outcome)
  BY DEF ConnectEnds, CloseEnds, Refused
<1>4. thread' = thread /\ charger' = charger /\ orphans' \subseteq orphans
  BY DEF ConnectEnds, CloseEnds, Refused, OrphansEnd
<1>5. QED
  BY <1>1, <1>2, <1>3, <1>4, FinishIsAnswer

\* A thread starts, and nothing is promised or done yet.
LEMMA StartIOIsSilent ==
  ASSUME PInv, NEW t \in Tasks, StartIO(t)
  PROVE  Promised
<1> DEFINE io == [write |-> IF call[t].op = "command" /\ call[t].stage = "write"
                            THEN call[t].value ELSE None,
                   obeyed |-> FALSE, overdue |-> FALSE]
<1>1. /\ holder = t /\ call[t] # None /\ thread[t] = None
      /\ thread' = [thread EXCEPT ![t] = io]
      /\ UNCHANGED << address, holder, waiting, call, cancelled, orphans, result, charger >>
  BY DEF StartIO, Holds
<1>2. io.write # None => Writing(t)
  BY <1>1 DEF Writing
<1>3. io.obeyed = FALSE
  OBVIOUS
<1> HIDE DEF io
<1>4. thread'[t] = io /\ \A u \in Tasks \ {t} : thread'[u] = thread[u]
  BY <1>1 DEF PInv, IInv, TypeOK
<1>5. \A u \in Tasks : Landed(u)' = Landed(u)
  <2>1. ~Landed(t)' /\ ~Landed(t)
    BY <1>1, <1>3, <1>4 DEF Landed
  <2>2. QED
    BY <1>4, <2>1 DEF Landed
<1>6. ToWrite' = ToWrite
  BY <1>1, <1>5 DEF ToWrite, Writing
<1>7. WritesFirst'
  BY <1>1, <1>2, <1>4 DEF PInv, WritesFirst, Writing
<1>8. QED
  BY <1>1, <1>6, <1>7 DEF Promised, PInv, InLine, Line, Strays, Writes!vars

\* A time-out changes nothing of what may still be written.
LEMMA TimesOutIsSilent ==
  ASSUME PInv, NEW t \in Tasks, TimesOut(t)
  PROVE  Promised
<1> DEFINE io == [thread[t] EXCEPT !.overdue = TRUE]
<1>1. /\ thread[t] # None /\ thread' = [thread EXCEPT ![t] = io]
      /\ UNCHANGED << address, holder, waiting, call, cancelled, orphans, result, charger >>
  BY DEF TimesOut
<1>2. thread[t] \in IO /\ None \notin IO
  BY <1>1, NoCallAssumption DEF PInv, IInv, TypeOK
<1>3. io \in IO /\ io.write = thread[t].write /\ io.obeyed = thread[t].obeyed
  BY <1>2 DEF IO
<1> HIDE DEF io
<1>4. thread'[t] = io /\ \A u \in Tasks \ {t} : thread'[u] = thread[u]
  BY <1>1 DEF PInv, IInv, TypeOK
<1>5. \A u \in Tasks : Landed(u)' = Landed(u)
  <2>1. Landed(t)' = Landed(t)
    BY <1>1, <1>2, <1>3, <1>4 DEF Landed
  <2>2. QED
    BY <1>4, <2>1 DEF Landed
<1>6. ToWrite' = ToWrite
  BY <1>1, <1>5 DEF ToWrite, Writing
<1>7. WritesFirst'
  BY <1>1, <1>3, <1>4 DEF PInv, WritesFirst, Writing
<1>8. QED
  BY <1>1, <1>6, <1>7 DEF Promised, PInv, InLine, Line, Strays, Writes!vars

\* A thread's end answers the call or leads to a read-back.
LEMMA ThreadEndIsPromised ==
  ASSUME PInv, NEW t \in Tasks,
         (\E reply \in Replies : ThreadReturns(t, reply)) \/ StuckCloses(t)
  PROVE  Promised
<1>1. /\ holder = t /\ thread[t] # None /\ thread' = [thread EXCEPT ![t] = None]
      /\ UNCHANGED charger /\ orphans' \subseteq orphans
  BY DEF ThreadReturns, StuckCloses, OrphansEnd
<1>2. \E reply \in Replies : Replied(t, reply)
  <2>1. TimeOutReply(t) \in Replies
    BY DEF TimeOutReply, Replies
  <2>2. QED
    BY <2>1 DEF ThreadReturns, StuckCloses
<1>3. thread'[t] = None /\ \A u \in Tasks \ {t} : thread'[u] = thread[u]
  BY <1>1 DEF PInv, IInv, TypeOK
<1>4. CASE \E outcome \in {"none", "yes", "no"} : Finish(t, outcome)
  BY <1>1, <1>3, <1>4, FinishIsAnswer
<1>5. CASE \E c \in Command : /\ c.stage = "verify" /\ call' = [call EXCEPT ![t] = c]
                              /\ UNCHANGED << result, holder, waiting >>
  BY <1>1, <1>3, <1>5, ReadBackIsLapse
<1>6. QED
  BY <1>1, <1>2, <1>4, <1>5, ReplyEndsOrReadsBack DEF PInv

\* A cancelled task leaves the line, and its write, if under way, strays.
LEMMA CancelIsPromised ==
  ASSUME PInv, NEW t \in Tasks, Cancel(t)
  PROVE  Promised
<1>1. /\ t \in Cancellable /\ call[t] # None
      /\ call' = [call EXCEPT ![t] = None] /\ result' = [result EXCEPT ![t] = "no"]
      /\ thread' = [thread EXCEPT ![t] = None]
      /\ orphans' = IF thread[t] = None THEN orphans ELSE orphans \union {Alone(thread[t])}
      /\ UNCHANGED charger
  BY DEF Cancel
<1>2. /\ call'[t] = None /\ thread'[t] = None
      /\ \A u \in Tasks \ {t} : call'[u] = call[u] /\ thread'[u] = thread[u]
  BY <1>1 DEF PInv, IInv, TypeOK
<1>3. ToWrite' = [ToWrite EXCEPT ![t] = None]
  BY <1>2, NothingToWrite DEF Writing
<1>4. InLine' /\ \E i \in DOMAIN Line : Line[i] = t /\ Line' = RemoveAt(Line, i)
  <2>1. CASE holder = t
    <3>1. InLine' /\ Line' = Tail(Line)
      BY <1>1, <2>1, ReleaseMovesUp DEF Cancel, PInv, IInv
    <3>2. /\ Line \in Seq(Tasks) /\ Line[1] = t /\ Tail(Line) = waiting
          /\ Len(Line) = Len(waiting) + 1 /\ Len(waiting) \in Nat
          /\ DOMAIN Line = 1..(Len(waiting) + 1)
          /\ \A i \in 1..Len(waiting) : Line[i + 1] = waiting[i]
      BY <2>1, LineIs, ClientAssumption DEF PInv, IInv
    <3>3. RemoveAt(Line, 1) = waiting
      <4> DEFINE rest == RemoveAt(Line, 1)
      <4>1. 1 \in 1..Len(Line)
        BY <3>2
      <4>2. /\ rest \in Seq(Tasks) /\ Len(rest) = Len(Line) - 1
            /\ \A j \in 1..(Len(Line) - 1) : rest[j] = IF j < 1 THEN Line[j] ELSE Line[j + 1]
        BY <3>2, <4>1, RemovedAt
      <4> HIDE DEF rest
      <4>3. Len(rest) = Len(waiting) /\ \A j \in 1..Len(rest) : rest[j] = waiting[j]
        BY <3>2, <4>2
      <4>4. waiting \in Seq(Tasks)
        BY DEF PInv, IInv, TypeOK
      <4>5. rest = waiting
        BY <4>2, <4>3, <4>4, SeqEqual
      <4>6. QED
        BY <4>5 DEF rest
    <3>4. 1 \in DOMAIN Line
      BY <3>2
    <3>5. QED
      BY <3>1, <3>2, <3>3, <3>4
  <2>2. CASE holder # t
    BY <1>1, <2>2, LeaveKeepsOrder DEF Cancel, PInv, IInv
  <2>3. QED
    BY <2>1, <2>2
<1>5. \/ Strays' = Strays
      \/ /\ Line # << >> /\ t = Head(Line) /\ ToWrite[t] # None
         /\ Strays' = Strays \union {ToWrite[t]}
  <2>0. thread[t] # None => /\ Alone(thread[t]).write = thread[t].write
                            /\ Alone(thread[t]).obeyed = thread[t].obeyed
    <3>1. thread[t] # None => thread[t] \in IO
      BY DEF PInv, IInv, TypeOK
    <3>2. QED
      BY <3>1 DEF Alone, IO
  <2>1. CASE thread[t] = None
    BY <1>1, <2>1 DEF Strays
  <2>2. CASE thread[t] # None /\ (thread[t].write = None \/ thread[t].obeyed)
    BY <1>1, <2>0, <2>2 DEF Strays
  <2>3. CASE thread[t] # None /\ thread[t].write # None /\ ~thread[t].obeyed
    <3>1. holder = t /\ Writing(t) /\ ~Landed(t) /\ call[t].value = thread[t].write
      BY <2>3 DEF PInv, IInv, Serialised, ThreadsServeCalls, WritesFirst, Landed
    <3>2. ToWrite[t] = thread[t].write
      BY <3>1 DEF ToWrite
    <3>3. Strays' = Strays \union {thread[t].write}
      BY <1>1, <2>0, <2>3 DEF Strays
    <3>4. Line # << >> /\ t = Head(Line)
      BY <3>1, LineIs, ClientAssumption DEF PInv, IInv
    <3>5. QED
      BY <2>3, <3>2, <3>3, <3>4
  <2>4. QED
    BY <2>1, <2>2, <2>3
<1>6. Writes!Cancel(t)
  BY <1>1, <1>3, <1>4, <1>5 DEF Writes!Cancel, Writes!Served, RemoveAt, Writes!RemoveAt
<1>7. WritesFirst'
  BY <1>2, IdleKeepsWritesFirst DEF PInv
<1>8. QED
  BY <1>4, <1>6, <1>7 DEF Promised, Writes!Next

\* The charger obeys the command that is served, or a stray.
LEMMA ChargerIsPromised ==
  ASSUME PInv, ChargerActs
  PROVE  Promised
<1>1. CASE \E t \in Tasks : Obeys(t)
  <2>1. PICK t \in Tasks : Obeys(t)
    BY <1>1
  <2> DEFINE io == [thread[t] EXCEPT !.obeyed = TRUE]
  <2>2. /\ thread[t] # None /\ thread[t].write # None /\ ~thread[t].obeyed
        /\ thread' = [thread EXCEPT ![t] = io]
        /\ charger' = [charger EXCEPT !.value = thread[t].write]
        /\ UNCHANGED << holder, waiting, call, orphans, result >>
    BY <2>1 DEF Obeys
  <2>3. thread[t] \in IO /\ None \notin IO
    BY <2>2, NoCallAssumption DEF PInv, IInv, TypeOK
  <2>4. io \in IO /\ io.write = thread[t].write /\ io.obeyed
    BY <2>3 DEF IO
  <2> HIDE DEF io
  <2>5. thread'[t] = io /\ \A u \in Tasks \ {t} : call'[u] = call[u] /\ thread'[u] = thread[u]
    BY <2>2 DEF PInv, IInv, TypeOK
  <2>6. holder = t /\ Writing(t) /\ ~Landed(t) /\ call[t].value = thread[t].write
    BY <2>2 DEF PInv, IInv, Serialised, ThreadsServeCalls, WritesFirst, Landed
  <2>7. ToWrite[t] = thread[t].write
    BY <2>6 DEF ToWrite
  <2>8. Landed(t)'
    BY <2>3, <2>4, <2>5 DEF Landed
  <2>9. ToWrite' = [ToWrite EXCEPT ![t] = None]
    BY <2>5, <2>8, NothingToWrite
  <2>10. Line' = Line /\ Strays' = Strays /\ Line # << >> /\ t = Head(Line)
    BY <2>2, <2>6, LineIs, ClientAssumption DEF PInv, IInv, Line, Strays
  <2>11. charger'.value = thread[t].write
    BY <2>2 DEF PInv, IInv, TypeOK
  <2>12. Writes!Land(t)
    BY <2>2, <2>7, <2>9, <2>10, <2>11 DEF Writes!Land, Writes!Served
  <2>13. WritesFirst' /\ InLine'
    BY <2>2, <2>5, <2>6 DEF PInv, WritesFirst, Writing, InLine
  <2>14. QED
    BY <2>12, <2>13 DEF Promised, Writes!Next
<1>2. ASSUME UNCHANGED << holder, waiting, call, thread, result >>
      PROVE  InLine' /\ WritesFirst' /\ Line' = Line /\ ToWrite' = ToWrite /\ result' = result
  BY <1>2 DEF PInv, InLine, WritesFirst, Line, ToWrite, Writing, Landed
<1>3. CASE ObeysOrphan
  <2>1. PICK o \in orphans :
          /\ o.write # None /\ ~o.obeyed
          /\ orphans' = (orphans \ {o}) \union {[o EXCEPT !.obeyed = TRUE]}
          /\ charger' = [charger EXCEPT !.value = o.write]
    BY <1>3 DEF ObeysOrphan
  <2>2. UNCHANGED << holder, waiting, call, thread, result >>
    BY <1>3 DEF ObeysOrphan
  <2> DEFINE after == [o EXCEPT !.obeyed = TRUE]
  <2>3. o \in Orphan /\ after.obeyed = TRUE
    BY <2>1 DEF PInv, IInv, TypeOK, Orphan
  <2>4. orphans' = (orphans \ {o}) \union {after}
    BY <2>1
  <2> HIDE DEF after
  <2>5. \A x \in orphans : ~x.obeyed /\ x.write = o.write => x = o
    <3>1. \A x \in orphans : x \in Orphan
      BY DEF PInv, IInv, TypeOK
    <3>2. ASSUME NEW x \in Orphan, NEW y \in Orphan, ~x.obeyed, ~y.obeyed, x.write = y.write
          PROVE  x = y
      <4>1. ASSUME NEW z \in Orphan, ~z.obeyed
            PROVE  z = [write |-> z.write, obeyed |-> FALSE, overdue |-> FALSE]
        <5>1. z = [write |-> z.write, obeyed |-> z.obeyed, overdue |-> z.overdue]
          BY DEF Orphan
        <5>2. z.obeyed = FALSE /\ z.overdue = FALSE
          BY <4>1 DEF Orphan
        <5>3. QED
          BY <5>1, <5>2
      <4>2. QED
        BY <3>2, <4>1
    <3>3. QED
      BY <2>1, <2>3, <3>1, <3>2
  <2>6. Strays' = Strays \ {o.write} /\ o.write \in Strays
    BY <2>1, <2>3, <2>4, <2>5 DEF Strays
  <2>7. charger'.value = o.write
    BY <2>1 DEF PInv, IInv, TypeOK
  <2>8. Writes!StrayLands
    BY <1>2, <2>2, <2>6, <2>7 DEF Writes!StrayLands
  <2>9. QED
    BY <1>2, <2>2, <2>8 DEF Promised, Writes!Next
<1>4. CASE OrphanReturns
  <2>1. /\ UNCHANGED << holder, waiting, call, thread, result, charger >>
        /\ orphans' \subseteq orphans
    BY <1>4 DEF OrphanReturns
  <2>2. Writes!StrayEnds
    BY <1>2, <2>1, StraysShrink DEF Writes!StrayEnds
  <2>3. QED
    BY <1>2, <2>1, <2>2 DEF Promised, Writes!Next
<1>5. CASE Shows
  <2>1. UNCHANGED << holder, waiting, call, thread, result, orphans >>
        /\ charger' = [charger EXCEPT !.shown = charger.value]
    BY <1>5 DEF Shows
  <2>2. charger'.value = charger.value /\ Strays' = Strays
    BY <2>1 DEF PInv, IInv, TypeOK, Strays
  <2>3. QED
    BY <1>2, <2>1, <2>2 DEF Promised, Writes!vars
<1>6. QED
  BY <1>1, <1>3, <1>4, <1>5 DEF ChargerActs

LEMMA InitPromised == Init => PInv /\ Writes!Init
<1> SUFFICES ASSUME Init PROVE PInv /\ Writes!Init
  OBVIOUS
<1>1. InLine /\ WritesFirst
  BY DEF Init, InLine, WritesFirst
<1>2. Line = << >> /\ ToWrite = [t \in Tasks |-> None] /\ Strays = {} /\ charger.value \in Values
  BY DEF Init, Line, ToWrite, Writing, Strays
<1>3. QED
  BY <1>1, <1>2, InitEstablishes DEF PInv, Writes!Init, Init

LEMMA NextPromised == PInv /\ [Next]_clientVars => PInv' /\ [Writes!Next]_Writes!vars
<1> SUFFICES ASSUME PInv, [Next]_clientVars PROVE PInv' /\ [Writes!Next]_Writes!vars
  OBVIOUS
<1>1. IInv'
  BY NextKeeps DEF PInv
<1>2. CASE UNCHANGED clientVars
  BY <1>1, <1>2 DEF clientVars, PInv, InLine, WritesFirst, Line, ToWrite, Writing, Landed, Strays,
                    Writes!vars
<1>3. CASE Next
  <2>1. Promised
    BY <1>3, CallsAreAsked, PlumbingIsAnswer, StartIOIsSilent, TimesOutIsSilent,
       ThreadEndIsPromised, CancelIsPromised, ChargerIsPromised DEF Next, HolderActs
  <2>2. QED
    BY <1>1, <2>1 DEF Promised, PInv
<1>4. QED
  BY <1>2, <1>3

\* Commands reach the charger in the order of their calls, each at most once and before its
\* answer, but for what a cancelled one had under way: the client with its lock, threads,
\* time-outs and reconnections implements WritePromise (tuya_ev_charger.py, _io_lock).
THEOREM ClientKeepsPromise == Spec => WritesKeepPromise
BY InitPromised, NextPromised, PTL DEF Spec, WritesKeepPromise, Writes!Spec
=============================================================================
