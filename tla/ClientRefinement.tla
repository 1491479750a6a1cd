--------------------------- MODULE ClientRefinement ---------------------------
(***************************************************************************)
(* The client with its lock, threads, time-outs and reconnections keeps    *)
(* WritePromise.  The holder of the lock and those that wait for it are    *)
(* one line; a command may write until its write has reached the charger   *)
(* or its thread is over; the strays are the orphans that still write.     *)
(***************************************************************************)
EXTENDS TuyaClient

Line == IF holder = None THEN << >> ELSE << holder >> \o waiting

Writing(t) == call[t] # None /\ call[t].op = "command" /\ call[t].stage = "write"
Landed(t) == thread[t] # None /\ thread[t].obeyed
ToWrite == [t \in Tasks |-> IF Writing(t) /\ ~Landed(t) THEN call[t].value ELSE None]

Strays == {io.write : io \in {x \in orphans : x.write # None /\ ~x.obeyed}}

Writes == INSTANCE WritePromise
            WITH line <- Line, write <- ToWrite, answer <- result, strays <- Strays,
                 value <- charger.value

\* Commands reach the charger in the order of their calls, each at most once and before it
\* is answered; only what a cancelled one had under way comes later ("holding the charger's
\* single slot throughout", "instead of racing the next one").
WritesKeepPromise == Writes!Spec
=============================================================================
