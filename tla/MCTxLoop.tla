------------------------------ MODULE MCTxLoop ------------------------------
(* One worker of the keyword server, one event-timer TPDO with a period    *)
(* that does not divide the heartbeat's, the commands start and stop.      *)
EXTENDS TxLoop

CONSTANTS w1, p1

MCWorkers   == {w1}
MCAsyncPdos == {p1}
MCPeriod    == [x \in {"hb", p1} |-> IF x = "hb" THEN 3 ELSE 2]
MCCommands  == {1, 2}
MCStates    == {127}

=============================================================================
