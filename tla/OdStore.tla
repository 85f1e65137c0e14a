------------------------------ MODULE OdStore ------------------------------
(***************************************************************************)
(* What Robot Framework relies on: a keyword takes effect, or fails with   *)
(* none, at one instant between its call and its answer, and every call is *)
(* answered.  The store may change by itself, as received frames do.       *)
(***************************************************************************)
CONSTANTS
    Clients,
    Requests,
    Stores,
    Outcomes(_, _),  \* of a request on a store: records of answer and store
    Changes(_),      \* the stores one may turn into by itself
    None             \* no request, no answer

VARIABLES store, request, answer

storeVars == <<store, request, answer>>

Init ==
    /\ store \in Stores
    /\ request = [c \in Clients |-> None]
    /\ answer = [c \in Clients |-> None]

Call(c) ==
    /\ request[c] = None
    /\ \E r \in Requests : request' = [request EXCEPT ![c] = r]
    /\ UNCHANGED <<store, answer>>

Do(c) ==
    /\ request[c] # None /\ answer[c] = None
    /\ \E o \in Outcomes(store, request[c]) :
         store' = o.store /\ answer' = [answer EXCEPT ![c] = o.answer]
    /\ UNCHANGED request

Return(c) ==
    /\ answer[c] # None
    /\ request' = [request EXCEPT ![c] = None]
    /\ answer' = [answer EXCEPT ![c] = None]
    /\ UNCHANGED store

Change == store' \in Changes(store) /\ UNCHANGED <<request, answer>>

Next == Change \/ \E c \in Clients : Call(c) \/ Do(c) \/ Return(c)

Spec ==
    /\ Init /\ [][Next]_storeVars
    /\ \A c \in Clients : WF_storeVars(Do(c)) /\ WF_storeVars(Return(c))

=============================================================================
