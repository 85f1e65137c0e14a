-------------------------------- MODULE Node --------------------------------
(***************************************************************************)
(* The process around the transport: main's start-up, its wait for SIGINT, *)
(* its shutdown and the destructors, with the keyword server's workers     *)
(* calling Start CAN, Stop CAN and the sending keywords all the while.     *)
(*                                                                         *)
(* Every step of the transport is one of SocketCanTransport, taken by main *)
(* at its places and by the workers between the server's start and stop.   *)
(* The server is a library; that its stop and its destructor refuse new    *)
(* calls and wait for the ones in progress is what main relies on when it  *)
(* destroys the keywords and the transport next.  The rest of the process, *)
(* the server's connections among it, opens and closes descriptors.        *)
(***************************************************************************)
EXTENDS SocketCanTransport

CONSTANT Main  \* the main thread, one of Controllers

Workers == (Controllers \cup Senders) \ {Main}

ASSUME NodeAssumption == Main \in Controllers \ Senders

VARIABLES
    mainPc,        \* where main is
    server,        \* down, up, or closing: no new call is accepted
    handler,       \* on_signal is installed
    stopRequested, \* g_stop_requested
    iface,         \* --can-iface was given
    raced          \* history: two calls of Start or Stop were in progress at once

mainVars == <<mainPc, server, handler, stopRequested, iface>>
nodeVars == <<vars, mainVars, raced>>

MainLabels ==
    {"server", "handler", "start", "starting", "wait", "check", "stop", "stopping",
     "serverStop", "drain", "dtor", "destroying", "threads", "exit", "killed"}

(* main is inside Start or Stop.                                           *)
Calling == {"starting", "stopping", "destroying"}

NodeInit ==
    /\ Init
    /\ mainPc = "server" /\ server = "down"
    /\ handler = FALSE /\ stopRequested = FALSE
    /\ iface \in BOOLEAN
    /\ raced = FALSE

MainGoto(l) == mainPc' = l

-----------------------------------------------------------------------------
(* Start-up.  Every exception unwinds to the destructor of the server.     *)

ServerStart ==
    /\ mainPc = "server"
    /\ \/ server' = "up" /\ MainGoto("handler")
       \/ MainGoto("serverStop") /\ UNCHANGED server
    /\ UNCHANGED <<vars, handler, stopRequested, iface>>

InstallHandler ==
    /\ mainPc = "handler"
    /\ \/ handler' = TRUE /\ MainGoto(IF iface THEN "start" ELSE "wait")
       \/ MainGoto("serverStop") /\ UNCHANGED handler
    /\ UNCHANGED <<vars, server, stopRequested, iface>>

(* transport.Start throws if a worker was first.                           *)
MainStart ==
    /\ mainPc = "start"
    /\ IF running THEN MainGoto("serverStop") /\ UNCHANGED vars
                  ELSE StartBegin(Main) /\ MainGoto("starting")
    /\ UNCHANGED <<server, handler, stopRequested, iface>>

(* Inside Start, to its end or to an exception.                            *)
MainStarting ==
    /\ mainPc = "starting"
    /\ StartStep(Main) \/ CloseSocket(Main) \/ ClearFd(Main)
    /\ MainGoto(IF pc'[Main] # "idle" THEN "starting"
                ELSE IF pc'["tx"] # pc["tx"] THEN "wait" ELSE "serverStop")
    /\ UNCHANGED <<server, handler, stopRequested, iface>>

-----------------------------------------------------------------------------
(* Shutdown.                                                               *)

StopSeen ==
    /\ mainPc = "wait" /\ stopRequested
    /\ MainGoto("check")
    /\ UNCHANGED <<vars, server, handler, stopRequested, iface>>

(* Seeded fault: main waits on when the transport is not running.          *)
CheckRunningOrWait ==
    /\ mainPc = "check"
    /\ MainGoto(IF running THEN "stop" ELSE "wait")
    /\ UNCHANGED <<vars, server, handler, stopRequested, iface>>

CheckRunning ==
    /\ mainPc = "check"
    /\ MainGoto(IF running THEN "stop" ELSE "serverStop")
    /\ UNCHANGED <<vars, server, handler, stopRequested, iface>>

(* transport.Stop by main or by the destructor; the flag may have changed  *)
(* since main looked.                                                      *)
StopCalled(from, inside, after) ==
    /\ mainPc = from
    /\ IF running THEN StopBegin(Main) /\ MainGoto(inside)
                  ELSE UNCHANGED vars /\ MainGoto(after)
    /\ UNCHANGED <<server, handler, stopRequested, iface>>

(* A join that throws leaves Stop by an exception, which ends there too.   *)
Stopping(inside, after) ==
    /\ mainPc = inside
    /\ StopStep(Main)
    /\ MainGoto(IF pc'[Main] = "idle" THEN after ELSE inside)
    /\ UNCHANGED <<server, handler, stopRequested, iface>>

ServerStop ==
    /\ mainPc = "serverStop"
    /\ server' = "closing"
    /\ MainGoto("drain")
    /\ UNCHANGED <<vars, handler, stopRequested, iface>>

(* Seeded fault: the server does not wait for its workers.                 *)
DrainedAtOnce ==
    /\ mainPc = "drain"
    /\ server' = "down" /\ MainGoto("dtor")
    /\ UNCHANGED <<vars, handler, stopRequested, iface>>

Drained ==
    /\ mainPc = "drain" /\ \A w \in Workers : pc[w] = "idle"
    /\ server' = "down"
    /\ MainGoto("dtor")
    /\ UNCHANGED <<vars, handler, stopRequested, iface>>

(* Seeded fault: a destructor that relies on main having stopped.          *)
DestroyNoStop ==
    /\ mainPc = "dtor"
    /\ MainGoto("threads")
    /\ UNCHANGED <<vars, server, handler, stopRequested, iface>>

(* ~SocketCanTransport calls Stop, then its members go.                    *)
Destroy == StopCalled("dtor", "destroying", "threads")

(* ~std::thread of a joinable thread is std::terminate.                    *)
DestroyThreads ==
    /\ mainPc = "threads"
    /\ IF NoLoops THEN MainGoto("exit") /\ UNCHANGED vars
       ELSE /\ aborted' = TRUE
            /\ UNCHANGED <<mainPc, running, socketFd, fds, pc, sendVars>>
    /\ UNCHANGED <<server, handler, stopRequested, iface>>

-----------------------------------------------------------------------------

(* SIGINT at any moment: before the handler is there it ends the process.  *)
Interrupt ==
    /\ ~stopRequested
    /\ IF handler THEN stopRequested' = TRUE /\ UNCHANGED mainPc
                  ELSE MainGoto("killed") /\ UNCHANGED stopRequested
    /\ UNCHANGED <<vars, server, handler, iface>>

MainStep ==
    \/ ServerStart \/ InstallHandler \/ MainStart \/ MainStarting
    \/ StopSeen \/ CheckRunning
    \/ StopCalled("stop", "stopping", "serverStop") \/ Stopping("stopping", "serverStop")
    \/ ServerStop \/ Drained
    \/ Destroy \/ Stopping("destroying", "threads") \/ DestroyThreads

KeywordBegin ==
    /\ server = "up"
    /\ \/ \E w \in Controllers \ {Main} : StartBegin(w) \/ StopBegin(w)
       \/ \E w \in Senders : SendBegin(w)
    /\ UNCHANGED mainVars

(* The steps of each thread once it has begun something.                   *)
CallStep(w) == (StartStep(w) \/ StopStep(w) \/ SendStep(w)) /\ UNCHANGED mainVars
RxThread == (RxStep \/ LoopStep("rx") \/ SendStep("rx")) /\ UNCHANGED mainVars
ReadReturns == RxArrival /\ UNCHANGED mainVars
TxThread == (TxStep \/ LoopStep("tx") \/ SendStep("tx")) /\ UNCHANGED mainVars
Locking(t) == Acquire(t) /\ UNCHANGED mainVars
Descriptors == (OtherOpen \/ OtherClose) /\ UNCHANGED mainVars

(* An action of a process that has not ended, with its trace in raced.     *)
During(action) ==
    /\ ~aborted /\ mainPc \notin {"exit", "killed"}
    /\ action
    /\ raced' = (raced \/ ~NoOverlap')

NodeNext ==
    \/ During(MainStep) \/ During(Interrupt) \/ During(KeywordBegin)
    \/ \E w \in Workers : During(CallStep(w))
    \/ During(RxThread) \/ During(ReadReturns) \/ During(TxThread)
    \/ \E t \in Workers \cup Loops : During(Locking(t))
    \/ During(Descriptors)

(* As in SocketCanTransport: a thread that can run does.  No keyword need  *)
(* be called, no signal need come, no read without a timeout need return.  *)
NodeFairness ==
    /\ WF_nodeVars(During(MainStep))
    /\ \A w \in Workers : WF_nodeVars(During(CallStep(w)))
    /\ WF_nodeVars(During(RxThread)) /\ WF_nodeVars(During(TxThread))
    /\ \A t \in Workers \cup Loops : SF_nodeVars(During(Locking(t)))

NodeSpec == NodeInit /\ [][NodeNext]_nodeVars /\ NodeFairness

-----------------------------------------------------------------------------
(* Properties.                                                             *)

Gone == mainPc \in {"exit", "killed"}

(* Types; main is inside a call of the transport exactly where its own     *)
(* program counter says so, and no worker is once the server has drained.  *)
NodeTypeOK ==
    /\ TypeOK
    /\ mainPc \in MainLabels
    /\ server \in {"down", "up", "closing"}
    /\ handler \in BOOLEAN /\ stopRequested \in BOOLEAN
    /\ iface \in BOOLEAN /\ raced \in BOOLEAN
    /\ mainPc # "killed" => (mainPc \in Calling <=> pc[Main] # "idle")
    /\ stopRequested => handler
    /\ server = "down" => \A w \in Workers : pc[w] = "idle"

(* As long as no two calls of Start or Stop overlap, main's own included,   *)
(* the process is never terminated by a thread object: not by a Start over  *)
(* the loops of another one, not by the destructor after a keyword started  *)
(* the transport behind main's IsRunning test.                              *)
AbortOnlyAfterOverlap == aborted => raced

(* Without such an overlap main returns with both loops joined, the socket  *)
(* closed and no descriptor left in the field, whichever way it came there. *)
ExitIsClean == mainPc = "exit" /\ ~raced => NoTrace

(* Why the two above hold: as long as no two calls have overlapped the      *)
(* transport keeps the core of its invariant, whoever calls; and from its   *)
(* destructor on main has the transport to itself and finds it stopped.     *)
NodeInv ==
    /\ ~raced => NoOverlap /\ ControlCore
    /\ mainPc \in {"dtor", "destroying", "threads", "exit"} => server = "down"
    /\ mainPc \in {"destroying", "threads", "exit"} => ~running

(* SIGINT ends the process: main leaves its loop, gets through Stop and the *)
(* server's workers and returns, unless overlapping calls of Start and Stop *)
(* came in its way.                                                         *)
ShutdownCompletes == stopRequested ~> Gone \/ aborted \/ raced

(* Overlap or not, short of std::terminate: if the transport is left        *)
(* stopped for good, both loops end for good, or the receive loop sits in a *)
(* read that two overlapping calls left without a timeout.  No race of      *)
(* Start and Stop leaves a loop that runs and no longer looks at running_.  *)
CooperativeExit ==
    <>[](~running /\ ~aborted /\ mainPc # "killed") =>
        <>[](\A l \in Loops : ~Live(l) \/ (raced /\ pc[l] = "blocked"))

=============================================================================
