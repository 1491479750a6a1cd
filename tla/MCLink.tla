------------------------------- MODULE MCLink -------------------------------
(* A charger that may move, be paired again or fail to answer, polled and   *)
(* lent.                                                                    *)
EXTENDS LinkRecovery

MCTasks == {"poll", "relocation", "loan"}
MCAddresses == {[host |-> "old", key |-> "k1"], [host |-> "new", key |-> "k1"],
                [host |-> "old", key |-> "k2"], [host |-> "new", key |-> "k2"]}
MCEntries == [address : {[host |-> "old", key |-> "k1"]}, cloud : BOOLEAN]
MCValues == {"on"}
=============================================================================
