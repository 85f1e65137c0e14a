------------------------- MODULE TransportLifecycle -------------------------
(***************************************************************************)
(* What SocketCanTransport promises its user, with no threads' steps, no   *)
(* descriptors and no lock: a socket that is opened before and closed      *)
(* after every loop that uses it, loops that run only between the two, and *)
(* a Stop that ends.                                                       *)
(***************************************************************************)
CONSTANT Loops

VARIABLES
    phase,  \* stopped, starting, running or stopping
    live,   \* the loops that execute
    sock    \* open or closed

vars == <<phase, live, sock>>

Init == phase = "stopped" /\ live = {} /\ sock = "closed"

Open ==
    /\ phase = "stopped"
    /\ phase' = "starting" /\ sock' = "open"
    /\ UNCHANGED live

Begin ==
    /\ phase = "starting"
    /\ phase' = "running"
    /\ UNCHANGED <<live, sock>>

Spawn(l) ==
    /\ phase = "running" /\ l \notin live
    /\ live' = live \cup {l}
    /\ UNCHANGED <<phase, sock>>

(* A user's Stop, or a Start that gives up before it is running.           *)
Stop ==
    /\ phase \in {"starting", "running"}
    /\ phase' = "stopping"
    /\ UNCHANGED <<live, sock>>

Exit(l) ==
    /\ phase = "stopping" /\ l \in live
    /\ live' = live \ {l}
    /\ UNCHANGED <<phase, sock>>

Close ==
    /\ phase = "stopping" /\ live = {}
    /\ phase' = "stopped" /\ sock' = "closed"
    /\ UNCHANGED live

Next ==
    \/ Open \/ Begin \/ Stop \/ Close
    \/ \E l \in Loops : Spawn(l) \/ Exit(l)

Finish == Close \/ \E l \in Loops : Exit(l)

Spec == Init /\ [][Next]_vars
FairSpec == Spec /\ WF_vars(Finish)

=============================================================================
