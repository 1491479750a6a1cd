----------------------------- MODULE WritePromise -----------------------------
(***************************************************************************)
(* What the client promises to whoever writes to the charger, without the  *)
(* lock, the threads, the read-backs and the reconnections: calls are      *)
(* served one at a time in the order in which they were made, a command    *)
(* writes its value at most once, while it is being served, and nothing of *)
(* it lasts beyond its answer but what a cancelled one had under way.  The *)
(* answer tells nothing of the value: either may come without the other.   *)
(***************************************************************************)
EXTENDS SequencesExt

CONSTANTS Tasks, Cancellable, Values, None

VARIABLES
  line,    \* the tasks whose calls are not answered, in order of their calls
  write,   \* the value that each one's command may yet write, or None
  answer,  \* what each one's last call came to
  strays,  \* values that cancelled commands may yet write
  value    \* the data point

vars == << line, write, answer, strays, value >>

Init ==
  /\ line = << >>
  /\ write = [t \in Tasks |-> None]
  /\ answer = [t \in Tasks |-> "none"]
  /\ strays = {}
  /\ value \in Values

\* A call without a value reads, connects or closes.
Ask(t, v) ==
  /\ \A i \in DOMAIN line : line[i] # t
  /\ line' = Append(line, t)
  /\ write' = [write EXCEPT ![t] = v]
  /\ answer' = [answer EXCEPT ![t] = "none"]
  /\ UNCHANGED << strays, value >>

Served(t) == line # << >> /\ t = Head(line)

Land(t) ==
  /\ Served(t) /\ write[t] # None
  /\ value' = write[t]
  /\ write' = [write EXCEPT ![t] = None]
  /\ UNCHANGED << line, answer, strays >>

\* The value is written no more, or a new connection ends the strays.
Lapse(t) ==
  /\ Served(t)
  /\ write' \in {write, [write EXCEPT ![t] = None]}
  /\ strays' \subseteq strays
  /\ UNCHANGED << line, answer, value >>

Answer(t) ==
  /\ Served(t)
  /\ line' = Tail(line)
  /\ write' = [write EXCEPT ![t] = None]
  /\ \E outcome \in {"none", "yes", "no"} : answer' = [answer EXCEPT ![t] = outcome]
  /\ strays' \subseteq strays
  /\ UNCHANGED value

Cancel(t) ==
  /\ t \in Cancellable
  /\ \E i \in DOMAIN line : line[i] = t /\ line' = RemoveAt(line, i)
  /\ write' = [write EXCEPT ![t] = None]
  /\ answer' = [answer EXCEPT ![t] = "no"]
  /\ \/ strays' = strays
     \/ Served(t) /\ write[t] # None /\ strays' = strays \union {write[t]}
  /\ UNCHANGED value

StrayLands ==
  /\ value' \in strays
  /\ strays' = strays \ {value'}
  /\ UNCHANGED << line, write, answer >>

StrayEnds ==
  /\ strays' \subseteq strays
  /\ UNCHANGED << line, write, answer, value >>

Next ==
  \/ \E t \in Tasks :
       \/ \E v \in Values \union {None} : Ask(t, v)
       \/ Land(t) \/ Lapse(t) \/ Answer(t) \/ Cancel(t)
  \/ StrayLands \/ StrayEnds

Spec == Init /\ [][Next]_vars
=============================================================================
