------------------------------- MODULE TxLoop -------------------------------
(***************************************************************************)
(* TxLoop_ of SocketCanTransport and the node's NMT state: the periodic    *)
(* heartbeat and event-timer TPDOs on one thread, the keywords Send NMT    *)
(* Command and Send Heartbeat on others.  nmt_state_ is atomic, but the    *)
(* loop loads it, and SendHeartbeat then stores what was loaded, in two    *)
(* steps.                                                                  *)
(*                                                                         *)
(* Time is discrete.  A due time is kept as the ticks left until it, and   *)
(* stays at 0 once it is past: the code only compares it with now.  A send *)
(* is one step that may fail; SocketCanTransport has its inner steps, and  *)
(* the loop's start and stop.                                              *)
(***************************************************************************)
EXTENDS Integers, FiniteSets

CONSTANTS
    Workers,    \* threads of the keyword server
    AsyncPdos,  \* TPDOs of type 254 or 255 with a nonzero event timer
    Period,     \* ticks between sends, of "hb" and of each such TPDO
    Commands,   \* NMT command specifiers the keywords pass (uint8)
    States      \* NMT states the heartbeat keyword passes (uint8)

Items == {"hb"} \cup AsyncPdos
Byte  == 0 .. 255

ASSUME TxAssumption ==
    /\ "hb" \notin AsyncPdos
    /\ Period \in [Items -> Nat \ {0}]
    /\ \E x \in Items : \A y \in Items : Period[y] <= Period[x]  \* finitely many
    /\ Commands \subseteq Byte /\ States \subseteq Byte

VARIABLES
    nmtState,   \* nmt_state_
    dueIn,      \* next_heartbeat_due_ and next_async_tpdo_due_, as ticks left
    elapsed,    \* ticks since the pass read the clock
    pending,    \* what the pass found due and has not sent yet
    txPc,       \* sleep, pass, store or send
    txState,    \* the state the loop loaded for its heartbeat
    pc,         \* per worker: idle, cmdStore or hbSend
    arg,        \* per worker: the state it stores or sends
    lastHeartbeat,  \* the last heartbeat of this node on the bus
    busCommands,    \* history: commands to this node that reached the bus
    announced,      \* history: states passed to Send Heartbeat
    requested,      \* history: the state last stored for a keyword
    exposed,        \* history: the loop had loaded, not stored, at that moment
    passAge         \* history: ticks since the last pass that served an item

txVars   == <<dueIn, elapsed, pending, txPc, txState, passAge>>
callVars == <<pc, arg, busCommands, announced, requested, exposed>>
vars     == <<nmtState, lastHeartbeat, txVars, callVars>>

PreOperational == 127

NmtCommandToState(command) ==
    CASE command = 1   -> 5
      [] command = 2   -> 4
      [] command = 128 -> 127
      [] OTHER         -> 0

AtLeast0(n)  == IF n < 0 THEN 0 ELSE n
Capped(n, x) == IF n > Period[x] THEN Period[x] ELSE n
MaxPeriod    == CHOOSE n \in {Period[x] : x \in Items} :
                    \A x \in Items : Period[x] <= n

Init ==
    /\ nmtState = PreOperational /\ txState = PreOperational
    /\ dueIn = Period /\ passAge = Period
    /\ elapsed = 0 /\ pending = {} /\ txPc = "sleep"
    /\ pc = [w \in Workers |-> "idle"]
    /\ arg = [w \in Workers |-> PreOperational]
    /\ lastHeartbeat = PreOperational
    /\ busCommands = {} /\ announced = {}
    /\ requested = PreOperational /\ exposed = FALSE

-----------------------------------------------------------------------------
(* Send NMT Command: the frame first, then the state if the command is to  *)
(* this node or to all.  A frame that fails throws and changes nothing.    *)

(* Seeded fault: the result of the send is ignored.                        *)
CommandSendUnchecked(w) ==
    /\ pc[w] = "idle"
    /\ \E command \in Commands :
         /\ arg' = [arg EXCEPT ![w] = NmtCommandToState(command)]
         /\ busCommands' \in {busCommands, busCommands \cup {command}}
    /\ pc' = [pc EXCEPT ![w] = "cmdStore"]
    /\ UNCHANGED <<nmtState, lastHeartbeat, txVars, announced, requested, exposed>>

CommandSend(w) ==
    /\ pc[w] = "idle"
    /\ \E command \in Commands :
         /\ arg' = [arg EXCEPT ![w] = NmtCommandToState(command)]
         /\ busCommands' = busCommands \cup {command}
    /\ pc' = [pc EXCEPT ![w] = "cmdStore"]
    /\ UNCHANGED <<nmtState, lastHeartbeat, txVars, announced, requested, exposed>>

StoreForKeyword(state) ==
    /\ nmtState' = state
    /\ requested' = state
    /\ exposed' = (txPc = "store")

CommandStore(w) ==
    /\ pc[w] = "cmdStore"
    /\ StoreForKeyword(arg[w])
    /\ pc' = [pc EXCEPT ![w] = "idle"]
    /\ UNCHANGED <<lastHeartbeat, txVars, arg, busCommands, announced>>

(* Send Heartbeat: the state first, then the frame, which may fail.        *)
HeartbeatStore(w) ==
    /\ pc[w] = "idle"
    /\ \E state \in States :
         /\ StoreForKeyword(state)
         /\ arg' = [arg EXCEPT ![w] = state]
         /\ announced' = announced \cup {state}
    /\ pc' = [pc EXCEPT ![w] = "hbSend"]
    /\ UNCHANGED <<lastHeartbeat, txVars, busCommands>>

HeartbeatSend(w) ==
    /\ pc[w] = "hbSend"
    /\ lastHeartbeat' \in {arg[w], lastHeartbeat}
    /\ pc' = [pc EXCEPT ![w] = "idle"]
    /\ UNCHANGED <<nmtState, txVars, arg, busCommands, announced, requested, exposed>>

-----------------------------------------------------------------------------
(* One pass of TxLoop_: the clock is read once, the heartbeat comes first, *)
(* the TPDOs follow in the map's order, which is unspecified.              *)

Due == {x \in Items : dueIn[x] = 0}

(* Seeded faults: the heartbeat is never found due; a pass that sends the  *)
(* heartbeat goes back to sleep without the TPDOs.                          *)
TxPassNoHeartbeat ==
    /\ txPc = "sleep"
    /\ pending' = Due \ {"hb"}
    /\ elapsed' = 0
    /\ txPc' = "pass"
    /\ UNCHANGED <<nmtState, lastHeartbeat, dueIn, txState, passAge, callVars>>

TxPassHeartbeatOnly ==
    /\ txPc = "sleep"
    /\ pending' = IF "hb" \in Due THEN {"hb"} ELSE Due
    /\ elapsed' = 0
    /\ txPc' = "pass"
    /\ UNCHANGED <<nmtState, lastHeartbeat, dueIn, txState, passAge, callVars>>

TxPass ==
    /\ txPc = "sleep"
    /\ pending' = Due
    /\ elapsed' = 0
    /\ txPc' = "pass"
    /\ UNCHANGED <<nmtState, lastHeartbeat, dueIn, txState, passAge, callVars>>

(* due = now + period, where now is the pass's, whether or not the send    *)
(* succeeded.                                                              *)
Rearm(x) ==
    /\ dueIn' = [dueIn EXCEPT ![x] = AtLeast0(Period[x] - elapsed)]
    /\ pending' = pending \ {x}
    /\ passAge' = [passAge EXCEPT ![x] = Capped(elapsed, x)]

(* Seeded fault: the state loaded for the first heartbeat serves for all.  *)
TxLoadOnce ==
    /\ txPc = "pass" /\ "hb" \in pending
    /\ txPc' = "store"
    /\ UNCHANGED <<nmtState, lastHeartbeat, dueIn, elapsed, pending, txState,
                   passAge, callVars>>

TxLoad ==
    /\ txPc = "pass" /\ "hb" \in pending
    /\ txState' = nmtState
    /\ txPc' = "store"
    /\ UNCHANGED <<nmtState, lastHeartbeat, dueIn, elapsed, pending, passAge, callVars>>

TxStore ==
    /\ txPc = "store"
    /\ nmtState' = txState
    /\ txPc' = "send"
    /\ UNCHANGED <<lastHeartbeat, dueIn, elapsed, pending, txState, passAge, callVars>>

TxSend(ok) ==
    /\ txPc = "send"
    /\ lastHeartbeat' = IF ok THEN txState ELSE lastHeartbeat
    /\ Rearm("hb")
    /\ txPc' = "pass"
    /\ UNCHANGED <<nmtState, elapsed, txState, callVars>>

(* Seeded fault: a failed send leaves the due time where it was.           *)
TxTpdoRetries(x) ==
    /\ txPc = "pass" /\ "hb" \notin pending /\ x \in pending
    /\ dueIn' \in {dueIn, [dueIn EXCEPT ![x] = AtLeast0(Period[x] - elapsed)]}
    /\ pending' = pending \ {x}
    /\ passAge' = [passAge EXCEPT ![x] = Capped(elapsed, x)]
    /\ UNCHANGED <<nmtState, lastHeartbeat, elapsed, txPc, txState, callVars>>

TxTpdo(x) ==
    /\ txPc = "pass" /\ "hb" \notin pending /\ x \in pending
    /\ Rearm(x)
    /\ UNCHANGED <<nmtState, lastHeartbeat, elapsed, txPc, txState, callVars>>

(* Seeded fault: the pass ends after the heartbeat with TPDOs pending.     *)
TxSleepEarly ==
    /\ txPc = "pass" /\ "hb" \notin pending
    /\ txPc' = "sleep"
    /\ UNCHANGED <<nmtState, lastHeartbeat, dueIn, elapsed, pending, txState,
                   passAge, callVars>>

TxSleep ==
    /\ txPc = "pass" /\ pending = {}
    /\ txPc' = "sleep"
    /\ UNCHANGED <<nmtState, lastHeartbeat, dueIn, elapsed, pending, txState,
                   passAge, callVars>>

Tick ==
    /\ dueIn' = [x \in Items |-> AtLeast0(dueIn[x] - 1)]
    /\ passAge' = [x \in Items |-> Capped(passAge[x] + 1, x)]
    /\ elapsed' = IF elapsed < MaxPeriod THEN elapsed + 1 ELSE elapsed
    /\ UNCHANGED <<nmtState, lastHeartbeat, pending, txPc, txState, callVars>>

-----------------------------------------------------------------------------

TxStep ==
    \/ TxPass \/ TxLoad \/ TxStore \/ TxSleep
    \/ \E ok \in BOOLEAN : TxSend(ok)
    \/ \E x \in AsyncPdos : TxTpdo(x)

CallStep(w) == CommandStore(w) \/ HeartbeatSend(w)

Next ==
    \/ TxStep \/ Tick
    \/ \E w \in Workers : CommandSend(w) \/ HeartbeatStore(w) \/ CallStep(w)

(* The loop's thread and a call that has begun go on, time passes, and a   *)
(* bus to which heartbeats are offered again and again takes one.          *)
Fairness ==
    /\ WF_vars(TxStep) /\ WF_vars(Tick) /\ SF_vars(TxSend(TRUE))
    /\ \A w \in Workers : WF_vars(CallStep(w))

Spec == Init /\ [][Next]_vars
FairSpec == Spec /\ Fairness

-----------------------------------------------------------------------------
(* Properties.                                                             *)

(* Types; and the loop has its heartbeat pending exactly while it is in it. *)
TypeOK ==
    /\ nmtState \in Byte /\ txState \in Byte /\ lastHeartbeat \in Byte
    /\ dueIn \in [Items -> Nat] /\ passAge \in [Items -> Nat]
    /\ elapsed \in 0 .. MaxPeriod
    /\ pending \subseteq Items
    /\ txPc \in {"sleep", "pass", "store", "send"}
    /\ txPc \in {"store", "send"} => "hb" \in pending
    /\ txPc = "sleep" => pending = {}
    /\ pc \in [Workers -> {"idle", "cmdStore", "hbSend"}]
    /\ arg \in [Workers -> Byte]
    /\ busCommands \subseteq Commands /\ announced \subseteq States
    /\ requested \in Byte /\ exposed \in BOOLEAN

Sources ==
    {PreOperational} \cup announced
        \cup {NmtCommandToState(command) : command \in busCommands}

(* The node enters no state by a command that did not reach the bus: every  *)
(* state it is in, or says it is in, comes from its start-up, a Send        *)
(* Heartbeat, or a command frame that was written (partial failure).        *)
NoStateFromNowhere == {nmtState, txState, lastHeartbeat} \subseteq Sources

(* A state a keyword stored stays until the next keyword, except that the   *)
(* one heartbeat whose load came before that store may put the old one      *)
(* back: a lost update needs exactly this overlap.                          *)
KeptUnlessExposed == exposed \/ nmtState = requested

(* Two passes that serve the same item start at least its period apart,     *)
(* after a failed send as after a good one, and after any delay: the loop   *)
(* neither retries at once nor catches up with a burst.                     *)
NoBurst ==
    [][\A x \in Items : x \in pending' \ pending => passAge[x] = Period[x]]_vars

(* Whatever is due is taken up by a pass and the pass gets past it, even if *)
(* every send fails.                                                        *)
EveryItemServed ==
    \A x \in Items :
        /\ dueIn[x] = 0 ~> x \in pending
        /\ x \in pending ~> x \notin pending

(* Once the keywords are quiet, the heartbeats on the bus come to carry the *)
(* node's state and stay with it.                                           *)
HeartbeatCatchesUp ==
    <>[](\A w \in Workers : pc[w] = "idle") => <>[](lastHeartbeat = nmtState)

(* Sending the periodic heartbeat leaves the node's state alone: only the   *)
(* keywords change it.  It fails: TxLoop_ stores back what it loaded.       *)
HeartbeatKeepsState == [][TxStore => nmtState' = nmtState]_vars

=============================================================================
