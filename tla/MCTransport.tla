---------------------------- MODULE MCTransport ----------------------------
(* One thread controls the transport and also sends; another only sends.   *)
EXTENDS SocketCanTransport

CONSTANTS c1, s1

MCControllers == {c1}
MCSenders     == {c1, s1}

=============================================================================
