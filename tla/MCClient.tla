------------------------------ MODULE MCClient ------------------------------
(* A poll, a command that may be cancelled and a loan of the connection     *)
(* contend for the lock; each may call anything the client offers.          *)
EXTENDS ClientRefinement

MCTasks == {"poll", "command", "loan"}
MCCancellable == {"command"}
MCAddresses == {"here"}
MCValues == {"on", "off"}
=============================================================================
