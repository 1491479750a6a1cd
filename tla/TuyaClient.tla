------------------------------ MODULE TuyaClient ------------------------------
(***************************************************************************)
(* The client of one charger (tuya_ev_charger.py).  Every call takes the   *)
(* I/O lock, which asyncio hands out first come, first served, and its     *)
(* blocking I/O runs in a thread that the task holding the lock awaits     *)
(* with a time-out.  A thread cannot be cancelled: one that times out is   *)
(* made to fail by closing its socket, under the lock and without a        *)
(* time-out; one whose task is cancelled goes on with the device while the *)
(* lock is free again.                                                     *)
(***************************************************************************)
EXTENDS Naturals, SequencesExt

CONSTANTS
  Tasks,        \* who may call the client: polls, commands, the relocation, ...
  Cancellable,  \* the tasks that an unload may cancel
  Addresses,    \* pairs of a host and a local key, as far as they differ
  Values,       \* values of the data point that commands write
  Retries,      \* COMMAND_VERIFY_RETRIES
  None

ASSUME ClientAssumption ==
  /\ Cancellable \subseteq Tasks
  /\ Retries \in Nat
  /\ Addresses # {} /\ Values # {}
  /\ None \notin Tasks /\ None \notin Addresses /\ None \notin Values

VARIABLES
  address,   \* _host and _local_key
  device,    \* _device: the address it was built with, or None
  reconnect, \* _needs_reconnect
  holder,    \* the task that holds _io_lock, or None
  waiting,   \* those that wait for it, in order
  call,      \* what each task is calling, or None
  thread,    \* the I/O a task awaits in its thread, or None
  cancelled, \* the tasks that were cancelled: they call no more
  orphans,   \* their I/O still running on the device
  result,    \* what each task's last read or command came to
  charger    \* the data point, and what the status says of it, which lags

clientVars == << address, device, reconnect, holder, waiting, call, thread,
                 cancelled, orphans, result, charger >>

Fetch == [op : {"read"}]
Plumbing == [op : {"connect", "close"}]
Command == [op : {"command"}, value : Values, stage : {"write", "verify"},
            verify : BOOLEAN, left : 0..Retries, absent : 0..1, saw : BOOLEAN]
Calls == Fetch \union Plumbing \union Command

\* The I/O of a thread; overdue when it has timed out and its socket is being closed.
IO == [write : Values \union {None}, obeyed : BOOLEAN, overdue : BOOLEAN]
Orphan == [write : Values \union {None}, obeyed : BOOLEAN, overdue : {FALSE}]

ASSUME NoCallAssumption == None \notin Calls \union IO

TypeOK ==
  /\ address \in Addresses
  /\ device \in Addresses \union {None}
  /\ reconnect \in BOOLEAN
  /\ holder \in Tasks \union {None}
  /\ waiting \in Seq(Tasks)
  /\ call \in [Tasks -> Calls \union {None}]
  /\ thread \in [Tasks -> IO \union {None}]
  /\ cancelled \subseteq Cancellable
  /\ orphans \in SUBSET Orphan
  /\ result \in [Tasks -> {"none", "yes", "no"}]
  /\ charger \in [value : Values, shown : Values]

-----------------------------------------------------------------------------
(* The lock. *)

Acquire(t) ==
  IF holder = None THEN holder' = t /\ UNCHANGED waiting
  ELSE waiting' = Append(waiting, t) /\ UNCHANGED holder

Release ==
  IF waiting = << >> THEN holder' = None /\ UNCHANGED waiting
  ELSE holder' = Head(waiting) /\ waiting' = Tail(waiting)

\* A task that was cancelled waits no more.
Leave(t) ==
  /\ \E i \in DOMAIN waiting : waiting[i] = t /\ waiting' = RemoveAt(waiting, i)
  /\ UNCHANGED holder

\* The holder's call is over.
Finish(t, outcome) ==
  /\ call' = [call EXCEPT ![t] = None]
  /\ result' = [result EXCEPT ![t] = outcome]
  /\ Release

\* Mutant of Call: a call goes ahead without the lock.
CallBarges(t, c) ==
  /\ call[t] = None /\ t \notin cancelled
  /\ call' = [call EXCEPT ![t] = c]
  /\ result' = [result EXCEPT ![t] = "none"]
  /\ holder' = t
  /\ UNCHANGED << waiting, device, reconnect, thread, cancelled, orphans, charger >>

Call(t, c) ==
  /\ call[t] = None /\ t \notin cancelled
  /\ call' = [call EXCEPT ![t] = c]
  /\ result' = [result EXCEPT ![t] = "none"]
  /\ Acquire(t)
  /\ UNCHANGED << device, reconnect, thread, cancelled, orphans, charger >>

Read(t) == Call(t, [op |-> "read"]) /\ UNCHANGED address
Close(t) == Call(t, [op |-> "close"]) /\ UNCHANGED address

\* The schedule and the reboot are sent without verification.
Send(t, v, verify) ==
  /\ Call(t, [op |-> "command", value |-> v, stage |-> "write", verify |-> verify,
              left |-> Retries, absent |-> 0, saw |-> FALSE])
  /\ UNCHANGED address

\* async_connect, or async_update_host and async_update_local_key, which adopt the new
\* address before they wait for the lock.
Connect(t, a) == Call(t, [op |-> "connect"]) /\ address' = a

-----------------------------------------------------------------------------
(* What the holder does.  Closing a device makes the I/O on it fail; I/O   *)
(* whose device was forgotten by a close that failed is out of reach.      *)

OrphansEnd == orphans' \in {{}, orphans}

Holds(t, op) == holder = t /\ call[t] # None /\ call[t].op = op

\* Mutant of ConnectEnds: a device that is there is taken as it is.
ConnectEndsKeepsDevice(t) ==
  /\ Holds(t, "connect")
  /\ device' = IF device = None THEN address ELSE device
  /\ reconnect' = FALSE
  /\ OrphansEnd
  /\ Finish(t, "none")
  /\ UNCHANGED << address, thread, cancelled, charger >>

ConnectEnds(t) ==
  /\ Holds(t, "connect")
  /\ device' = address
  /\ reconnect' = FALSE
  /\ OrphansEnd
  /\ Finish(t, "none")
  /\ UNCHANGED << address, thread, cancelled, charger >>

\* Mutant of CloseEnds: the flag of an earlier time-out survives the close.
CloseEndsKeepsReconnect(t) ==
  /\ Holds(t, "close")
  /\ device' = None
  /\ OrphansEnd
  /\ Finish(t, "none")
  /\ UNCHANGED << address, reconnect, thread, cancelled, charger >>

\* Closed, or abandoned after IO_TIMEOUT_S: the device is forgotten either way.
CloseEnds(t) ==
  /\ Holds(t, "close")
  /\ device' = None
  /\ reconnect' = FALSE
  /\ OrphansEnd
  /\ Finish(t, "none")
  /\ UNCHANGED << address, thread, cancelled, charger >>

Usable == device # None \/ reconnect

\* _get_device raises: the client was closed.
Refused(t) ==
  /\ Holds(t, "read") \/ Holds(t, "command")
  /\ thread[t] = None
  /\ ~Usable
  /\ Finish(t, "no")
  /\ UNCHANGED << address, device, reconnect, thread, cancelled, orphans, charger >>

StartIO(t) ==
  /\ Holds(t, "read") \/ Holds(t, "command")
  /\ thread[t] = None
  /\ Usable
  /\ device' = IF device = None THEN address ELSE device
  /\ reconnect' = (reconnect /\ device # None)
  /\ thread' = [thread EXCEPT ![t] =
       [write |-> IF call[t].op = "command" /\ call[t].stage = "write"
                  THEN call[t].value ELSE None,
        obeyed |-> FALSE, overdue |-> FALSE]]
  /\ UNCHANGED << address, holder, waiting, call, cancelled, orphans, result, charger >>

Verifying(c) == [c EXCEPT !.stage = "verify"]
OneLess(c) == [c EXCEPT !.left = c.left - 1]

\* Mutant of AfterReadBack: a charger that never answers is read back for ever.
AfterReadBackForEver(t, c) ==
  IF c.left = 0 /\ c.saw
  THEN Finish(t, "no")
  ELSE /\ call' = [call EXCEPT ![t] = c]
       /\ UNCHANGED << result, holder, waiting >>

\* Mutant of AfterReadBack: the lock is given away between two read-backs.
AfterReadBackYields(t, c) ==
  IF c.left = 0
  THEN Finish(t, IF c.saw THEN "no" ELSE "yes")
  ELSE /\ call' = [call EXCEPT ![t] = c]
       /\ UNCHANGED result
       /\ IF waiting = << >> THEN UNCHANGED << holder, waiting >>
          ELSE holder' = Head(waiting) /\ waiting' = Append(Tail(waiting), t)

\* One more read-back: give up, answer, or read again.
AfterReadBack(t, c) ==
  IF c.left = 0
  THEN Finish(t, IF c.saw THEN "no" ELSE "yes")
  ELSE /\ call' = [call EXCEPT ![t] = c]
       /\ UNCHANGED << result, holder, waiting >>

\* The thread returns.  A reply is an error, or it has the data point or lacks it.
Replies == {"error", "absent", "value"}

Replied(t, reply) ==
  LET c == call[t] IN
  CASE c.op = "read" ->
         Finish(t, IF reply = "error" THEN "no" ELSE "yes")
    [] c.op = "command" /\ c.stage = "write" ->
         IF reply = "error" THEN Finish(t, "no")
         ELSE IF ~c.verify THEN Finish(t, "yes")
         ELSE AfterReadBack(t, Verifying(c))
    [] c.op = "command" /\ c.stage = "verify" /\ reply = "error" ->
         AfterReadBack(t, OneLess(c))
    [] c.op = "command" /\ c.stage = "verify" /\ reply = "absent" ->
         IF c.absent = 1 THEN Finish(t, IF c.saw THEN "no" ELSE "yes")
         ELSE AfterReadBack(t, [OneLess(c) EXCEPT !.absent = 1])
    [] c.op = "command" /\ c.stage = "verify" /\ reply = "value" ->
         IF charger.shown = c.value THEN Finish(t, "yes")
         ELSE AfterReadBack(t, [OneLess(c) EXCEPT !.saw = TRUE])

ThreadReturns(t, reply) ==
  /\ holder = t /\ thread[t] # None /\ ~thread[t].overdue
  /\ thread' = [thread EXCEPT ![t] = None]
  /\ Replied(t, reply)
  /\ UNCHANGED << address, device, reconnect, cancelled, orphans, charger >>

\* What a call makes of a time-out: a read-back is an error, a write that can be verified
\* goes on as if acknowledged, any other call fails.
TimeOutReply(t) ==
  IF call[t].op = "command" /\ call[t].stage = "write" /\ call[t].verify
  THEN "absent" ELSE "error"

\* Mutant of TimesOut: the stuck thread keeps the device, as if closing were left to it.
TimesOutKeepsDevice(t) ==
  /\ holder = t /\ thread[t] # None /\ ~thread[t].overdue
  /\ thread' = [thread EXCEPT ![t] = None]
  /\ orphans' = orphans \union {thread[t]}
  /\ Replied(t, TimeOutReply(t))
  /\ UNCHANGED << address, device, reconnect, cancelled, charger >>

\* The I/O did not end within IO_TIMEOUT_S: its device is forgotten, and its close awaited
\* for as long as it takes, while the I/O may still get through.
TimesOut(t) ==
  /\ holder = t /\ thread[t] # None /\ ~thread[t].overdue
  /\ device' = None
  /\ reconnect' = TRUE
  /\ thread' = [thread EXCEPT ![t].overdue = TRUE]
  /\ UNCHANGED << address, holder, waiting, call, cancelled, orphans, result, charger >>

\* The close has returned, or failed: the I/O is over, and the call learns of the time-out.
StuckCloses(t) ==
  /\ holder = t /\ thread[t] # None /\ thread[t].overdue
  /\ thread' = [thread EXCEPT ![t] = None]
  /\ OrphansEnd
  /\ Replied(t, TimeOutReply(t))
  /\ UNCHANGED << address, device, reconnect, cancelled, charger >>

\* I/O that nobody awaits any more.
Alone(io) == [io EXCEPT !.overdue = FALSE]

\* Mutant of Cancel: a task that is cancelled while it holds the lock keeps it.
CancelKeepsLock(t) ==
  /\ t \in Cancellable /\ call[t] # None
  /\ call' = [call EXCEPT ![t] = None]
  /\ result' = [result EXCEPT ![t] = "no"]
  /\ cancelled' = cancelled \union {t}
  /\ thread' = [thread EXCEPT ![t] = None]
  /\ orphans' = IF thread[t] = None THEN orphans ELSE orphans \union {Alone(thread[t])}
  /\ IF holder = t THEN UNCHANGED << holder, waiting >> ELSE Leave(t)
  /\ UNCHANGED << address, device, reconnect, charger >>

\* The unload cancels a task at its await: out of the queue, off its thread, which goes on
\* alone, or in the middle of a close.
Cancel(t) ==
  /\ t \in Cancellable /\ call[t] # None
  /\ call' = [call EXCEPT ![t] = None]
  /\ result' = [result EXCEPT ![t] = "no"]
  /\ cancelled' = cancelled \union {t}
  /\ thread' = [thread EXCEPT ![t] = None]
  /\ orphans' = IF thread[t] = None THEN orphans ELSE orphans \union {Alone(thread[t])}
  /\ IF holder = t THEN Release ELSE Leave(t)
  /\ device' \in IF Holds(t, "close") THEN {device, None} ELSE {device}
  /\ UNCHANGED << address, reconnect, charger >>

-----------------------------------------------------------------------------
(* The charger: obeys what reaches it, and reports it late. *)

Obeys(t) ==
  /\ thread[t] # None /\ thread[t].write # None /\ ~thread[t].obeyed
  /\ thread' = [thread EXCEPT ![t].obeyed = TRUE]
  /\ charger' = [charger EXCEPT !.value = thread[t].write]
  /\ UNCHANGED << address, device, reconnect, holder, waiting, call, cancelled, orphans, result >>

ObeysOrphan ==
  /\ \E o \in orphans :
       /\ o.write # None /\ ~o.obeyed
       /\ orphans' = (orphans \ {o}) \union {[o EXCEPT !.obeyed = TRUE]}
       /\ charger' = [charger EXCEPT !.value = o.write]
  /\ UNCHANGED << address, device, reconnect, holder, waiting, call, thread, cancelled, result >>

OrphanReturns ==
  /\ \E o \in orphans : orphans' = orphans \ {o}
  /\ UNCHANGED << address, device, reconnect, holder, waiting, call, thread, cancelled,
                  result, charger >>

Shows ==
  /\ charger.shown # charger.value
  /\ charger' = [charger EXCEPT !.shown = charger.value]
  /\ UNCHANGED << address, device, reconnect, holder, waiting, call, thread, cancelled,
                  orphans, result >>

-----------------------------------------------------------------------------
\* Before or after the async_connect of the setup.
Init ==
  /\ address \in Addresses
  /\ device \in {None, address}
  /\ reconnect = FALSE
  /\ holder = None
  /\ waiting = << >>
  /\ call = [t \in Tasks |-> None]
  /\ thread = [t \in Tasks |-> None]
  /\ cancelled = {}
  /\ orphans = {}
  /\ result = [t \in Tasks |-> "none"]
  /\ \E v \in Values : charger = [value |-> v, shown |-> v]

HolderActs(t) ==
  \/ ConnectEnds(t) \/ CloseEnds(t) \/ Refused(t) \/ StartIO(t)
  \/ \E reply \in Replies : ThreadReturns(t, reply)
  \/ TimesOut(t) \/ StuckCloses(t)

ChargerActs == (\E t \in Tasks : Obeys(t)) \/ ObeysOrphan \/ OrphanReturns \/ Shows

Next ==
  \/ \E t \in Tasks :
       \/ Read(t) \/ Close(t)
       \/ \E v \in Values, verify \in BOOLEAN : Send(t, v, verify)
       \/ \E a \in Addresses : Connect(t, a)
       \/ HolderActs(t)
       \/ Cancel(t)
  \/ ChargerActs

Spec == Init /\ [][Next]_clientVars

\* The event loop resumes the task that holds the lock, its I/O is bounded in time, and
\* closing a socket returns.
FairSpec == Spec /\ \A t \in Tasks : WF_clientVars(HolderActs(t))

-----------------------------------------------------------------------------
\* All I/O on the device is the lock holder's, and no thread but that of a cancelled task
\* outlives its call ("every access to self._device is serialised here").
Serialised ==
  /\ \A t \in Tasks : thread[t] # None => holder = t
  /\ orphans # {} => cancelled # {}

\* A write that got stuck cannot undo a later command: whatever reaches the charger
\* belongs to the command in progress, as long as no task was cancelled ("makes the stuck
\* call fail fast instead of racing the next one").
LateWritesHarmless ==
  [][charger'.value # charger.value /\ cancelled = {} =>
       /\ holder # None /\ call[holder] # None
       /\ call[holder].op = "command" /\ call[holder].value = charger'.value]_clientVars

\* Every call ends: however the I/O of the others gets stuck or is cancelled, the lock
\* reaches each task that waits for it (IO_TIMEOUT_S, COMMAND_VERIFY_RETRIES).
EveryCallEnds == \A t \in Tasks : call[t] # None ~> call[t] = None
=============================================================================
