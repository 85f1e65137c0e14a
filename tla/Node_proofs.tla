----------------------------- MODULE Node_proofs -----------------------------
(* Proofs about the process around the transport, for every set of keyword  *)
(* workers that start, stop and send, and any size of the descriptor table. *)
EXTENDS Node, SocketCanTransport_proofs

(* Main is a controlling thread and neither a worker nor a loop.            *)
LEMMA MainIsApart ==
    /\ Main \in Controllers /\ Main \in Threads
    /\ Main \notin Senders /\ Main \notin Workers /\ Main \notin Loops
    /\ Workers \subseteq Threads /\ Workers \cap Loops = {}
    /\ Senders \subseteq Workers
    /\ \A c \in Controllers : c = Main \/ c \in Workers
BY NodeAssumption, ThreadsDisjoint DEF Workers, Threads, Callers

(* Every step of the process is one of the transport, or the end of the     *)
(* process at a thread object that is still joinable.                       *)
LEMMA NodeStepIsTransportStep ==
    ASSUME TypeOK, NodeNext
    PROVE  [Next]_vars \/ (DestroyThreads /\ ~NoLoops /\ ~aborted)
<1> USE MainIsApart
<1>1. CASE During(MainStep)
  <2> USE DEF Next
  <2>1. CASE MainStart \/ MainStarting
    BY <2>1 DEF MainStart, MainStarting, StopStep
  <2>2. CASE StopCalled("stop", "stopping", "serverStop") \/ Destroy
    BY <2>2 DEF StopCalled, Destroy
  <2>3. CASE Stopping("stopping", "serverStop") \/ Stopping("destroying", "threads")
    BY <2>3 DEF Stopping
  <2>4. CASE DestroyThreads
    BY <2>4, <1>1 DEF DestroyThreads, During
  <2>5. CASE ServerStart \/ InstallHandler \/ StopSeen \/ CheckRunning \/ ServerStop \/ Drained
    BY <2>5 DEF ServerStart, InstallHandler, StopSeen, CheckRunning, ServerStop, Drained
  <2> QED
    BY <1>1, <2>1, <2>2, <2>3, <2>4, <2>5 DEF During, MainStep
<1>2. CASE During(Interrupt)
  BY <1>2 DEF During, Interrupt
<1>3. CASE During(KeywordBegin)
  BY <1>3 DEF During, KeywordBegin, Next
<1>4. CASE \E w \in Workers : During(CallStep(w))
  <2> PICK w \in Workers : CallStep(w)
    BY <1>4 DEF During
  <2>1. CASE w \in Controllers
    BY <2>1 DEF CallStep, Next
  <2>2. CASE w \notin Controllers
    <3>1. pc[w] \in {"idle"} \cup SendLabels
      BY <2>2 DEF TypeOK, Labels, Workers, Callers, Threads
    <3>2. ~StartStep(w) /\ ~StopStep(w)
      BY <3>1 DEF StartStep, StopStep, OpenSocket, Bind, SetTimeouts,
         SetRunning, SpawnFails, Assign, Spawn, SpawnOverJoinable, JoinSkip, Join, JoinBegin, JoinRefused,
         JoinEnd, CloseSocket, ClearFd, At, SendLabels
    <3> QED
      BY <3>2 DEF CallStep, Next
  <2> QED
    BY <2>1, <2>2
<1>5. CASE During(RxThread) \/ During(ReadReturns) \/ During(TxThread)
  BY <1>5, ThreadsDisjoint DEF During, RxThread, ReadReturns, TxThread, Next, Loops
<1>6. CASE \E t \in Workers \cup Loops : During(Locking(t))
  BY <1>6 DEF During, Locking, Next, Threads
<1>7. CASE During(Descriptors)
  BY <1>7 DEF During, Descriptors, Next
<1> QED
  BY <1>1, <1>2, <1>3, <1>4, <1>5, <1>6, <1>7 DEF NodeNext

-----------------------------------------------------------------------------
(* What a thread does once it has begun something.  Only a thread that is   *)
(* not idle does it, and of the other threads it moves loops at most.       *)
Work(t) ==
    \/ StartStep(t) \/ StopStep(t) \/ SendStep(t) \/ Acquire(t)
    \/ t \in Loops /\ LoopStep(t)
    \/ t = "rx" /\ (RxStep \/ RxArrival)
    \/ t = "tx" /\ TxStep

LEMMA WorkKeepsOthers ==
    ASSUME TypeOK, NEW t \in Threads, NEW u \in Threads \ Loops,
           Work(t) \/ StartBegin(t) \/ StopBegin(t) \/ SendBegin(t)
    PROVE  (u # t => pc'[u] = pc[u]) /\ (Work(t) => pc[t] # "idle")
BY DEF Work, TypeOK, Goto, At, StartBegin, StopBegin, SendBegin, StartStep, OpenSocket,
   Bind, SetTimeouts, SetRunning, SpawnFails, Assign, Spawn, SpawnOverJoinable, StopStep, JoinSkip,
   Join, JoinBegin, JoinRefused, JoinEnd, CloseSocket, ClearFd, SendStep, CheckClosed,
   CheckOpen, WriteFrame, Leave, Acquire, LoopStep, LoopSend, LoopPassEnd, RxStep, RxNext,
   RxEnterRead, RxArrival, RxNoSync, RxSync, TxStep, TxNext, LoopExit, Loops

LEMMA DestroyKeepsTypes ==
    ASSUME TypeOK, DestroyThreads, ~NoLoops PROVE TypeOK'
BY DEF TypeOK, Labels, DestroyThreads, sendVars

(* A step of main moves no worker, and a step of the rest of the process    *)
(* does not move main, nor a worker that has begun nothing.                 *)
LEMMA MainStepKeepsWorkers ==
    ASSUME TypeOK, MainStep PROVE \A w \in Workers : pc'[w] = pc[w]
<1> USE MainIsApart, WorkKeepsOthers DEF Work
<1>1. CASE MainStart \/ MainStarting
  <2> StartBegin(Main) \/ Work(Main) \/ UNCHANGED vars
    BY <1>1 DEF MainStart, MainStarting, StopStep
  <2> QED
    BY DEF vars
<1>2. CASE StopCalled("stop", "stopping", "serverStop") \/ Destroy
  BY <1>2 DEF StopCalled, Destroy, vars
<1>3. CASE Stopping("stopping", "serverStop") \/ Stopping("destroying", "threads")
  BY <1>3 DEF Stopping
<1>4. CASE DestroyThreads
  BY <1>4 DEF DestroyThreads, vars
<1>5. CASE ServerStart \/ InstallHandler \/ StopSeen \/ CheckRunning \/ ServerStop \/ Drained
  BY <1>5 DEF ServerStart, InstallHandler, StopSeen, CheckRunning, ServerStop, Drained, vars
<1> QED
  BY <1>1, <1>2, <1>3, <1>4, <1>5 DEF MainStep

(* The steps of the process that are not main's.                            *)
Elsewhere ==
    \/ During(KeywordBegin)
    \/ \E w \in Workers : During(CallStep(w))
    \/ During(RxThread) \/ During(ReadReturns) \/ During(TxThread)
    \/ \E t \in Workers \cup Loops : During(Locking(t))
    \/ During(Descriptors)

LEMMA ElsewhereKeeps ==
    ASSUME TypeOK, Elsewhere
    PROVE  /\ UNCHANGED mainVars /\ pc'[Main] = pc[Main]
           /\ server = "down" /\ (\A w \in Workers : pc[w] = "idle") =>
                \A w \in Workers : pc'[w] = "idle"
<1> USE MainIsApart, ThreadsDisjoint, WorkKeepsOthers
<1>1. CASE During(KeywordBegin)
  BY <1>1 DEF During, KeywordBegin, mainVars
<1>2. ASSUME NEW t \in Workers \cup Loops, Work(t), UNCHANGED mainVars
      PROVE  /\ pc'[Main] = pc[Main]
             /\ (\A w \in Workers : pc[w] = "idle") => \A w \in Workers : pc'[w] = "idle"
  <2>1. t \in Threads /\ t # Main
    BY DEF Loops
  <2>2. pc'[Main] = pc[Main]
    BY <1>2, <2>1
  <2>3. ASSUME NEW w \in Workers, pc[w] = "idle" PROVE pc'[w] = "idle"
    <3> w \in Threads \ Loops
      OBVIOUS
    <3> QED
      BY <1>2, <2>1, <2>3
  <2> QED
    BY <2>2, <2>3
<1>3. CASE During(Descriptors)
  BY <1>3 DEF During, Descriptors, OtherOpen, OtherClose, mainVars
<1> QED
  BY <1>1, <1>2, <1>3
  DEF Elsewhere, During, CallStep, RxThread, ReadReturns, TxThread, Locking, Work, Loops

-----------------------------------------------------------------------------
(* Types, whatever workers and main do at once.                             *)
THEOREM NodeTypeCorrect == NodeSpec => []NodeTypeOK
<1> USE MainIsApart
<1>1. NodeInit => NodeTypeOK
  <2> SUFFICES ASSUME NodeInit PROVE NodeTypeOK
    OBVIOUS
  <2>1. TypeOK /\ \A w \in Threads \ Loops : pc[w] = "idle"
    BY InitialTypes DEF NodeInit, Init
  <2>2. iface \in BOOLEAN /\ handler \in BOOLEAN /\ stopRequested \in BOOLEAN /\ raced \in BOOLEAN
    BY Zenon DEF NodeInit
  <2> QED
    BY <2>1, <2>2 DEF NodeInit, NodeTypeOK, MainLabels, Calling
<1>2. NodeTypeOK /\ [NodeNext]_nodeVars => NodeTypeOK'
  <2> SUFFICES ASSUME NodeTypeOK, [NodeNext]_nodeVars PROVE NodeTypeOK'
    OBVIOUS
  <2> USE DEF NodeTypeOK
  <2>1. CASE UNCHANGED nodeVars
    BY <2>1 DEF nodeVars, vars, mainVars, TypeOK, Labels
  <2>2. CASE NodeNext
    <3>1. TypeOK'
      BY <2>2, NodeStepIsTransportStep, TypeStep, DestroyKeepsTypes
    <3>2. raced' \in BOOLEAN
      BY <2>2, Zenon DEF NodeNext, During
    <3>3. CASE Elsewhere
      BY <3>1, <3>2, <3>3, ElsewhereKeeps DEF mainVars
    <3>4. CASE During(Interrupt)
      BY <3>1, <3>2, <3>4 DEF During, Interrupt, MainGoto, MainLabels, Calling, vars
    <3>5. CASE During(MainStep)
      <4> MainStep
        BY <3>5 DEF During
      <4>1. mainPc # "killed" /\ UNCHANGED iface /\ handler' \in BOOLEAN
            /\ stopRequested' \in BOOLEAN /\ (stopRequested' => handler')
        <5>1. UNCHANGED <<iface, stopRequested>> /\ (handler' = TRUE \/ handler' = handler)
          BY DEF MainStep, ServerStart, InstallHandler, MainStart, MainStarting,
             StopSeen, CheckRunning, StopCalled, Stopping, ServerStop, Drained, Destroy,
             DestroyThreads
        <5> QED
          BY <3>5, <5>1, Zenon DEF During
      <4>2. server' \in {"down", "up", "closing"} /\ mainPc' \in MainLabels
        BY DEF MainStep, ServerStart, InstallHandler, MainStart, MainStarting, MainGoto, MainLabels,
           StopSeen, CheckRunning, StopCalled, Stopping, ServerStop, Drained, Destroy,
           DestroyThreads
      <4>3. mainPc' \in Calling <=> pc'[Main] # "idle"
        BY <4>1 DEF MainStep, ServerStart, InstallHandler, MainStart, MainStarting, MainGoto, Calling,
           StopSeen, CheckRunning, StopCalled, Stopping, ServerStop, Drained, Destroy,
           DestroyThreads, StartBegin, StopBegin, At, Goto, TypeOK, vars
      <4>4. server' = "down" => \A w \in Workers : pc'[w] = "idle"
        <5>1. server' = "down" => \A w \in Workers : pc[w] = "idle"
          BY DEF MainStep, ServerStart, InstallHandler, MainStart, MainStarting,
             StopSeen, CheckRunning, StopCalled, Stopping, ServerStop, Drained, Destroy,
             DestroyThreads
        <5> QED
          BY <5>1, MainStepKeepsWorkers
      <4> QED
        BY <3>1, <3>2, <4>1, <4>2, <4>3, <4>4, Zenon
    <3> QED
      BY <2>2, <3>3, <3>4, <3>5 DEF NodeNext, Elsewhere
  <2> QED
    BY <2>1, <2>2
<1> QED
  BY <1>1, <1>2, PTL DEF NodeSpec

-----------------------------------------------------------------------------
(* When the transport's members go, main has joined its loops, unless two   *)
(* calls have overlapped.                                                   *)
LEMMA StoppedAtTheEnd ==
    ASSUME NodeTypeOK, NodeInv, ~raced, mainPc \in {"threads", "exit"}
    PROVE  NoTrace
<1>1. \A c \in Controllers : pc[c] = "idle"
  BY MainIsApart DEF NodeTypeOK, NodeInv, Calling
<1>2. ~running /\ QuietInv
  BY DEF NodeInv, ControlCore
<1> QED
  BY <1>1, <1>2 DEF QuietInv, ControlLabels, StartLabels, StopLabels, CloseLabels

(* The inductive invariant of the process.                                  *)
THEOREM NodeInvariant == NodeSpec => []NodeInv
<1> USE MainIsApart
<1>1. NodeInit => NodeInv
  <2> SUFFICES ASSUME NodeInit PROVE NodeInv
    OBVIOUS
  <2>1. ControlCore /\ \A c \in Controllers : pc[c] = "idle"
    BY CoreInit DEF NodeInit
  <2>2. NoOverlap
    BY <2>1 DEF NoOverlap, ControlLabels, StartLabels, StopLabels, CloseLabels
  <2> QED
    BY <2>1, <2>2 DEF NodeInit, NodeInv
<1>2. NodeTypeOK /\ NodeInv /\ [NodeNext]_nodeVars => NodeInv'
  <2> SUFFICES ASSUME NodeTypeOK, NodeInv, [NodeNext]_nodeVars PROVE NodeInv'
    OBVIOUS
  <2>1. CASE UNCHANGED nodeVars
    BY <2>1 DEF nodeVars, vars, mainVars, NodeInv, NoOverlap, ControlCore, NoAbort, QuietInv,
       ControlInv, NoTrace, NoLoops, NoCan, OwnsSocket, HoldsSocket, IsSocket, ReadsInterruptible
  <2>2. CASE NodeNext
    <3> DEFINE Late == {"destroying", "threads", "exit"}
    <3>1. ~raced' => ~raced /\ NoOverlap'
      BY <2>2 DEF NodeNext, During
    <3>2. ~raced' => ControlCore'
      <4> SUFFICES ASSUME ~raced' PROVE ControlCore'
        OBVIOUS
      <4>1. TypeOK /\ NoOverlap /\ ControlCore /\ NoOverlap'
        BY <3>1 DEF NodeInv, NodeTypeOK
      <4>2. ~(DestroyThreads /\ ~NoLoops)
        BY <3>1, StoppedAtTheEnd DEF DestroyThreads, NoTrace
      <4> QED
        BY <2>2, <4>1, <4>2, CoreStep, NodeStepIsTransportStep
    <3>3. mainPc' \in Late \cup {"dtor"} => server' = "down"
      <4>1. CASE Elsewhere
        BY <4>1, ElsewhereKeeps DEF NodeTypeOK, NodeInv, mainVars
      <4>2. CASE During(Interrupt)
        BY <4>2 DEF During, Interrupt, NodeInv, MainGoto
      <4>3. CASE During(MainStep)
        BY <4>3 DEF During, NodeInv, MainStep, ServerStart, InstallHandler, MainStart,
           MainStarting, StopSeen, CheckRunning, StopCalled, Stopping, ServerStop, Drained,
           Destroy, DestroyThreads, MainGoto
      <4> QED
        BY <2>2, <4>1, <4>2, <4>3 DEF NodeNext, Elsewhere
    <3>4. mainPc' \in Late => ~running'
      <4>1. CASE Elsewhere
        <5> SUFFICES ASSUME mainPc \in Late, ~running PROVE ~running'
          BY <4>1, ElsewhereKeeps DEF NodeTypeOK, NodeInv, mainVars
        <5>1. server = "down" /\ \A w \in Workers : pc[w] = "idle"
          BY DEF NodeInv, NodeTypeOK
        <5>2. ~During(KeywordBegin) /\ \A w \in Workers : ~During(CallStep(w))
          BY <5>1, WorkKeepsOthers DEF During, KeywordBegin, CallStep, Work, NodeTypeOK
        <5> QED
          BY <4>1, <5>2 DEF Elsewhere, During, RxThread, ReadReturns, TxThread, Locking,
             Descriptors, OtherOpen, OtherClose, RxStep, RxArrival, TxStep, LoopStep, SendStep, LoopExit, RxNext, RxEnterRead, RxNoSync, RxSync, TxNext,
             LoopSend, LoopPassEnd, CheckClosed, CheckOpen, WriteFrame, Acquire
      <4>2. CASE During(Interrupt)
        BY <4>2 DEF During, Interrupt, NodeInv, MainGoto, vars
      <4>3. CASE During(MainStep)
        BY <4>3 DEF During, NodeInv, MainStep, ServerStart, InstallHandler, MainStart,
           MainStarting, StopSeen, CheckRunning, StopCalled, Stopping, ServerStop, Drained,
           Destroy, DestroyThreads, MainGoto, StopBegin, StopStep, JoinSkip, Join, JoinBegin,
           JoinRefused, JoinEnd, CloseSocket, ClearFd, vars
      <4> QED
        BY <2>2, <4>1, <4>2, <4>3 DEF NodeNext, Elsewhere
    <3> QED
      BY <3>1, <3>2, <3>3, <3>4 DEF NodeInv
  <2> QED
    BY <2>1, <2>2
<1> QED
  BY <1>1, <1>2, NodeTypeCorrect, PTL DEF NodeSpec

(* std::terminate by a thread object takes two overlapping calls of Start   *)
(* or Stop: neither main's unguarded IsRunning test nor the destructor is   *)
(* enough, whatever the workers send, start and stop one after another.     *)
THEOREM AbortOnlyAfterOverlapHolds == NodeSpec => []AbortOnlyAfterOverlap
<1>1. NodeInv => AbortOnlyAfterOverlap
  BY DEF NodeInv, ControlCore, NoAbort, AbortOnlyAfterOverlap
<1> QED
  BY <1>1, NodeInvariant, PTL

(* A process that returns without such an overlap leaves nothing behind.    *)
THEOREM ExitIsCleanHolds == NodeSpec => []ExitIsClean
<1>1. NodeTypeOK /\ NodeInv => ExitIsClean
  BY StoppedAtTheEnd DEF ExitIsClean
<1> QED
  BY <1>1, NodeTypeCorrect, NodeInvariant, PTL

(* Until two calls overlap, the loops of the transport hold its socket, no  *)
(* read is without a timeout and a stopped transport leaves nothing, though *)
(* many threads control it in turn.                                         *)
THEOREM LoopsHoldUntilOverlap ==
    NodeSpec => [](~raced => LoopsHoldSocket /\ ReadsInterruptible /\ QuiescentStop)
<1>1. NodeTypeOK /\ NodeInv =>
        (~raced => LoopsHoldSocket /\ ReadsInterruptible /\ QuiescentStop)
  <2> SUFFICES ASSUME NodeTypeOK, NodeInv, ~raced
               PROVE  LoopsHoldSocket /\ ReadsInterruptible /\ QuiescentStop
    OBVIOUS
  <2>1. TypeOK /\ ControlCore
    BY DEF NodeTypeOK, NodeInv
  <2>2. LoopsHoldSocket
    BY <2>1, LoopsHold DEF LoopsHoldSocket, Live, OwnsSocket, HoldsSocket, IsSocket
  <2>3. QuiescentStop
    BY <2>1 DEF QuiescentStop, ControlCore, QuietInv, NoTrace, NoCan, NoLoops
  <2> QED
    BY <2>1, <2>2, <2>3 DEF ControlCore
<1> QED
  BY <1>1, NodeTypeCorrect, NodeInvariant, PTL

=============================================================================
