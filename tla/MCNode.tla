-------------------------------- MODULE MCNode --------------------------------
(* main and one worker of the keyword server, which starts and stops the    *)
(* transport while main does.                                               *)
EXTENDS Node

CONSTANTS main, worker

MCControllers == {main, worker}
MCSenders     == {worker}

=============================================================================
