---------------------- MODULE SocketCanTransport_proofs ----------------------
(* Proofs about SocketCanTransport, for every set of callers, any size of   *)
(* the descriptor table and any number of TPDOs.                            *)
EXTENDS SocketCanTransport, TLAPS

(* A thread is a caller or a loop and never both, and "nobody" is neither.  *)
LEMMA ThreadsDisjoint ==
    /\ Nobody \notin Threads
    /\ Controllers \cap Loops = {} /\ Senders \cap Loops = {}
    /\ "rx" \in Threads /\ "tx" \in Threads
    /\ Controllers \subseteq Threads /\ Senders \subseteq Threads
    /\ NoFd \notin Fds
BY TransportAssumption DEF Threads, Callers, Loops, Nobody, NoFd, Fds

(* Every step of a caller, a loop or the rest of the process keeps the types *)
(* and the agreement between send_mutex_ and its holder.                    *)
LEMMA TypeStep ==
    ASSUME TypeOK, [Next]_vars PROVE TypeOK'
<1> USE ThreadsDisjoint
<1> USE DEF TypeOK, Labels, Goto, At, StartLabels, StopLabels, CloseLabels,
        SendLabels, LoopLabels, ControlLabels, sendVars
<1>1. ASSUME NEW c \in Controllers, StartBegin(c) PROVE TypeOK'
  BY <1>1 DEF StartBegin
<1>2. ASSUME NEW c \in Controllers, StopBegin(c) PROVE TypeOK'
  BY <1>2 DEF StopBegin
<1>3. ASSUME NEW c \in Controllers, OpenSocket(c) PROVE TypeOK'
  BY <1>3 DEF OpenSocket
<1>4. ASSUME NEW c \in Controllers, Bind(c) \/ SetTimeouts(c) PROVE TypeOK'
  BY <1>4 DEF Bind, SetTimeouts, IsSocket
<1>5. ASSUME NEW c \in Controllers, SetRunning(c) PROVE TypeOK'
  BY <1>5 DEF SetRunning
<1>6. ASSUME NEW c \in Controllers, NEW from \in {"spawnRx", "spawnTx"},
             SpawnFails(c, from)
      PROVE  TypeOK'
  BY <1>6 DEF SpawnFails
<1>7. ASSUME NEW c \in Controllers, NEW l \in Loops, NEW from,
             SpawnOverJoinable(c, l, from)
      PROVE  TypeOK'
  BY <1>7 DEF SpawnOverJoinable
<1>8. ASSUME NEW c \in Controllers, NEW l \in Loops,
             NEW from \in ControlLabels, NEW to \in ControlLabels \cup {"idle"},
             Spawn(c, l, from, to)
      PROVE  TypeOK'
  BY <1>8 DEF Spawn, Loops
<1>9. ASSUME NEW c \in Controllers, NEW l \in Loops,
             NEW from \in ControlLabels, NEW to \in ControlLabels,
             \/ JoinSkip(c, l, from, to) \/ JoinBegin(c, l, from, to)
             \/ JoinRefused(c, l, from, to)
      PROVE  TypeOK'
  BY <1>9 DEF JoinSkip, JoinBegin, JoinRefused
<1>10. ASSUME NEW c \in Controllers, NEW l \in Loops,
              NEW from \in ControlLabels, NEW to \in ControlLabels,
              JoinEnd(c, l, from, to)
       PROVE  TypeOK'
  BY <1>10 DEF JoinEnd, Loops
<1>11. ASSUME NEW c \in Controllers, CloseSocket(c) PROVE TypeOK'
  BY <1>11 DEF CloseSocket
<1>12. ASSUME NEW c \in Controllers, ClearFd(c) PROVE TypeOK'
  BY <1>12 DEF ClearFd
<1>13. ASSUME NEW s \in Senders, SendBegin(s) PROVE TypeOK'
  BY <1>13 DEF SendBegin
<1>14. ASSUME NEW t \in Threads, Acquire(t) PROVE TypeOK'
  BY <1>14 DEF Acquire, Callers, Threads
<1>15. ASSUME NEW t \in Threads, CheckClosed(t) PROVE TypeOK'
  BY <1>15 DEF CheckClosed, Leave, After
<1>16. ASSUME NEW t \in Threads, CheckOpen(t) PROVE TypeOK'
  BY <1>16 DEF CheckOpen
<1>17. ASSUME NEW t \in Threads, WriteFrame(t) PROVE TypeOK'
  BY <1>17 DEF WriteFrame, Leave, After
<1>18. ASSUME NEW l \in Loops, LoopExit(l) PROVE TypeOK'
  BY <1>18 DEF LoopExit, Loops
<1>19. ASSUME NEW from \in {"reading", "blocked"},
              RxNext \/ RxEnterRead \/ RxNoSync(from)
       PROVE  TypeOK'
  BY <1>19 DEF RxNext, RxEnterRead, RxNoSync, Loops
<1>20. ASSUME NEW from \in {"reading", "blocked"}, RxSync(from) PROVE TypeOK'
  BY <1>20, TransportAssumption DEF RxSync, Loops
<1>21. CASE TxNext
  BY <1>21, TransportAssumption DEF TxNext, Loops
<1>22. ASSUME NEW l \in Loops, LoopSend(l) PROVE TypeOK'
  BY <1>22 DEF LoopSend, Loops
<1>23. ASSUME NEW l \in Loops, LoopPassEnd(l) PROVE TypeOK'
  BY <1>23 DEF LoopPassEnd, Loops
<1>24. CASE OtherOpen \/ OtherClose
  BY <1>24 DEF OtherOpen, OtherClose
<1>25. CASE UNCHANGED vars
  BY <1>25 DEF vars
<1> QED
  BY <1>1, <1>2, <1>3, <1>4, <1>5, <1>6, <1>7, <1>8, <1>9, <1>10, <1>11, <1>12,
     <1>13, <1>14, <1>15, <1>16, <1>17, <1>18, <1>19, <1>20, <1>21, <1>22,
     <1>23, <1>24, <1>25
  DEF Next, StartStep, Assign, StopStep, Join, SendStep, RxStep, RxArrival, TxStep, LoopStep,
      Loops

(* They hold at first: every descriptor free or foreign, no loop there.     *)
LEMMA InitialTypes == Init => TypeOK
<1> USE ThreadsDisjoint
<1> SUFFICES ASSUME Init PROVE TypeOK
  OBVIOUS
<1>1. \A t \in Threads : pc[t] = IF t \in Loops THEN "absent" ELSE "idle"
  BY DEF Init
<1>2. /\ pc \in [Threads -> {"idle"} \cup ControlLabels \cup SendLabels \cup LoopLabels]
      /\ \A t \in Threads : pc[t] \in Labels(t)
  BY <1>1 DEF Init, Labels, LoopLabels
<1>3. \A t \in Threads : sendMutex = t <=> pc[t] \in {"check", "write"}
  BY <1>1 DEF Init
<1>4. fds \in [Fds -> {"free", "new", "can", "other"}]
  BY DEF Init
<1> QED
  BY <1>2, <1>3, <1>4 DEF Init, TypeOK

(* Whatever the callers do, concurrently or not, the types hold and the     *)
(* holder of send_mutex_ is the thread inside SendRawFrame_.                *)
THEOREM TypeCorrect == Spec => []TypeOK
BY InitialTypes, TypeStep, PTL DEF Spec

-----------------------------------------------------------------------------
(* From here on calls of Start and Stop are not concurrent with each other: *)
(* one thread at most controls the transport.  Threads that send, and the   *)
(* two loops, are concurrent with it and with each other.                   *)
Serial == \A c, d \in Controllers : c = d

(* What senders and loops do between their control points keeps the part of *)
(* the invariant about the controllers: they change no field it reads, and  *)
(* a loop that is not there does not appear.                                *)
LEMMA ControlFrame ==
    ASSUME TypeOK, ControlCore, UNCHANGED <<running, socketFd, fds, aborted>>,
           \A c \in Controllers :
             pc[c] \in ControlLabels \/ pc'[c] \in ControlLabels => pc'[c] = pc[c],
           \A l \in Loops : pc[l] = "absent" => pc'[l] = "absent", ReadsInterruptible'
    PROVE  ControlCore'
<1> USE DEF ControlCore
<1>1. NoTrace => NoTrace'
  BY DEF NoTrace, NoCan, NoLoops, IsSocket
<1>2. (OwnsSocket => OwnsSocket') /\ (HoldsSocket => HoldsSocket')
  BY DEF OwnsSocket, HoldsSocket, IsSocket
<1>3. (NoLoops => NoLoops') /\ (NoCan => NoCan')
  BY DEF NoLoops, NoCan, IsSocket
<1>4. \A c \in Controllers : ControlInv(c)'
  <2> SUFFICES ASSUME NEW c \in Controllers PROVE ControlInv(c)'
    OBVIOUS
  <2>1. CASE pc'[c] \in ControlLabels
    BY <2>1, <1>1, <1>2, <1>3
    DEF ControlInv, ControlLabels, StartLabels, StopLabels, CloseLabels, Loops
  <2>2. CASE pc'[c] \notin ControlLabels
    BY <2>2 DEF ControlInv, ControlLabels, StartLabels, StopLabels, CloseLabels
  <2> QED
    BY <2>1, <2>2
<1>5. QuietInv'
  BY <1>1, <1>2 DEF QuietInv
<1> QED
  BY <1>4, <1>5 DEF NoAbort

(* A step of Start or Stop keeps it if no other caller is inside either     *)
(* before or after the step.                                                *)
LEMMA ControlStep ==
    ASSUME TypeOK, ControlCore, NoOverlap, NoOverlap', NEW c \in Controllers,
           StartBegin(c) \/ StopBegin(c) \/ StartStep(c) \/ StopStep(c)
    PROVE  ControlCore'
<1> USE ThreadsDisjoint
<1> ControlInv(c) /\ QuietInv /\ ~aborted
  BY DEF ControlCore, NoAbort
<1> USE DEF TypeOK, Labels, Goto, At, StartLabels, StopLabels, CloseLabels,
        SendLabels, LoopLabels, ControlLabels, sendVars
<1>1. /\ pc[c] \in ControlLabels \/ pc'[c] \in ControlLabels
      /\ \A d \in Controllers : d # c => pc'[d] = pc[d]
  BY DEF StartBegin, StopBegin, StartStep, Assign, StopStep, Join, OpenSocket,
     Bind, SetTimeouts, SetRunning, SpawnFails, SpawnOverJoinable, Spawn, JoinSkip,
     JoinBegin, JoinRefused, JoinEnd, CloseSocket, ClearFd, Loops
<1>2. \A d \in Controllers : d # c => pc[d] \notin ControlLabels /\ pc'[d] \notin ControlLabels
  BY <1>1 DEF NoOverlap
<1>3. \A d \in Controllers : d # c => ControlInv(d)'
  BY <1>2 DEF ControlInv
<1>20. ReadsInterruptible'
  BY DEF ControlCore, ReadsInterruptible, StartBegin, StopBegin, StartStep, Assign, StopStep,
     Join, OpenSocket, Bind, SetTimeouts, SetRunning, SpawnFails, SpawnOverJoinable, Spawn,
     JoinSkip, JoinBegin, JoinRefused, JoinEnd, CloseSocket, ClearFd, Loops
<1> SUFFICES NoAbort' /\ QuietInv' /\ ControlInv(c)'
  BY <1>3, <1>20 DEF ControlCore
<1> USE <1>2 DEF NoAbort, QuietInv, ControlInv, NoTrace, NoLoops, NoCan, OwnsSocket,
        HoldsSocket, IsSocket
<1>4. CASE StartBegin(c)
  BY <1>4 DEF StartBegin
<1>5. CASE StopBegin(c)
  BY <1>5 DEF StopBegin
<1>6. CASE OpenSocket(c)
  <2> ~running /\ NoLoops /\ NoCan /\ pc[c] = "socket"
    BY <1>6 DEF OpenSocket
  <2>1. NoLoops' /\ ~running' /\ ~aborted'
    BY <1>6 DEF OpenSocket, Loops
  <2>2. CASE pc'[c] = "bind"
    <3>1. OwnsSocket'
      BY <1>6, <2>2 DEF OpenSocket
    <3> QED
      BY <2>1, <2>2, <3>1
  <2>3. CASE pc'[c] # "bind"
    <3>1. pc'[c] = "idle" /\ socketFd' = NoFd /\ NoCan'
      BY <1>6, <2>3 DEF OpenSocket
    <3> QED
      BY <2>1, <3>1
  <2> QED
    BY <2>2, <2>3
<1>7. CASE Bind(c)
  <2>1. pc'[c] \in {"timeouts", "close"} /\ pc[c] = "bind" /\ NoLoops'
    BY <1>7 DEF Bind, Loops
  <2>2. OwnsSocket' /\ ~running' /\ ~aborted'
    BY <1>7 DEF Bind
  <2> QED
    BY <2>1, <2>2
<1>21. CASE SetTimeouts(c)
  <2>1. pc'[c] \in {"setRunning", "close"} /\ pc[c] = "timeouts" /\ NoLoops'
    BY <1>21 DEF SetTimeouts, Loops
  <2>2. OwnsSocket' /\ ~running' /\ ~aborted'
    BY <1>21 DEF SetTimeouts
  <2>3. pc'[c] = "setRunning" => HoldsSocket'
    BY <1>21, <2>2 DEF SetTimeouts
  <2> QED
    BY <2>1, <2>2, <2>3
<1>8. CASE SetRunning(c)
  BY <1>8 DEF SetRunning
<1>9. CASE SpawnFails(c, "spawnRx") \/ SpawnFails(c, "spawnTx")
  BY <1>9 DEF SpawnFails
<1>10. CASE SpawnOverJoinable(c, "rx", "spawnRx") \/ SpawnOverJoinable(c, "tx", "spawnTx")
  BY <1>10 DEF SpawnOverJoinable, Loops
<1>11. CASE Spawn(c, "rx", "spawnRx", "spawnTx")
  BY <1>11 DEF Spawn, Loops
<1>12. CASE Spawn(c, "tx", "spawnTx", "idle")
  BY <1>12 DEF Spawn, Loops
<1>13. CASE \/ JoinSkip(c, "rx", "joinRx", "joinTx")
            \/ JoinSkip(c, "tx", "joinTx", "close")
  BY <1>13 DEF JoinSkip, Loops
<1>14. CASE \/ JoinBegin(c, "rx", "joinRx", "joiningRx")
            \/ JoinBegin(c, "tx", "joinTx", "joiningTx")
  BY <1>14 DEF JoinBegin
<1>15. CASE \/ JoinRefused(c, "rx", "joinRx", "joiningRx")
            \/ JoinRefused(c, "tx", "joinTx", "joiningTx")
  BY <1>15 DEF JoinRefused
<1>16. CASE JoinEnd(c, "rx", "joiningRx", "joinTx")
  BY <1>16 DEF JoinEnd, Loops
<1>17. CASE JoinEnd(c, "tx", "joiningTx", "close")
  BY <1>17 DEF JoinEnd, Loops
<1>18. CASE CloseSocket(c)
  BY <1>18 DEF CloseSocket
<1>19. CASE ClearFd(c)
  BY <1>19 DEF ClearFd
<1> QED
  BY <1>4, <1>5, <1>6, <1>7, <1>8, <1>9, <1>10, <1>11, <1>12, <1>13, <1>14,
     <1>15, <1>16, <1>17, <1>18, <1>19, <1>21
  DEF StartStep, Assign, StopStep, Join

(* In every state of the core a loop that exists has its socket.            *)
LEMMA LoopsHold ==
    ASSUME TypeOK, ControlCore, NEW l \in Loops, pc[l] # "absent"
    PROVE  HoldsSocket
<1> USE DEF ControlCore
<1>1. CASE \A c \in Controllers : pc[c] \notin ControlLabels
  BY <1>1 DEF QuietInv, NoTrace, NoLoops
<1>2. CASE \E c \in Controllers : pc[c] \in ControlLabels
  <2> PICK c \in Controllers : pc[c] \in ControlLabels
    BY <1>2
  <2>1. pc[c] \notin {"socket", "bind", "timeouts"} \cup CloseLabels
    BY DEF ControlInv, NoTrace, NoLoops
  <2> QED
    BY <2>1 DEF ControlInv, ControlLabels, StartLabels
<1> QED
  BY <1>1, <1>2

(* So does every step of the system.                                        *)
LEMMA CoreStep ==
    ASSUME TypeOK, ControlCore, NoOverlap, [Next]_vars, NoOverlap'
    PROVE  ControlCore'
<1> USE ThreadsDisjoint
<1>1. ASSUME NEW c \in Controllers,
             StartBegin(c) \/ StopBegin(c) \/ StartStep(c) \/ StopStep(c)
      PROVE  ControlCore'
  BY <1>1, ControlStep
<1> DEFINE Quiet(t) ==
      \/ SendBegin(t) /\ t \in Senders
      \/ Acquire(t) \/ SendStep(t)
      \/ t \in Loops /\ (LoopExit(t) \/ LoopStep(t))
      \/ t = "rx" /\ (RxNext \/ RxEnterRead)
      \/ t = "rx" /\ \E from \in {"reading", "blocked"} : RxNoSync(from) \/ RxSync(from)
      \/ t = "tx" /\ TxNext
<1>2. ASSUME NEW t \in Threads, Quiet(t) PROVE ControlCore'
  <2> USE DEF TypeOK, Goto, At, SendLabels, ControlLabels, StartLabels, StopLabels,
          CloseLabels, sendVars
  <2>1. /\ UNCHANGED <<running, socketFd, fds, aborted>>
        /\ \A u \in Threads : u # t => pc'[u] = pc[u]
        /\ {pc[t], pc'[t]} \cap (ControlLabels \cup {"absent"}) = {}
    BY <1>2 DEF Quiet, SendBegin, Acquire, SendStep, CheckClosed, CheckOpen, WriteFrame,
       LoopExit, LoopStep, LoopSend, LoopPassEnd, RxNext, RxEnterRead, RxNoSync, RxSync,
       TxNext, Leave, After, Loops
  <2>2. pc'["rx"] # "blocked"
    <3>1. CASE RxEnterRead
      <4> fds[socketFd] = "can" /\ ~Foreign(socketFd)
        BY <3>1, LoopsHold DEF RxEnterRead, HoldsSocket, Foreign, Loops
      <4> QED
        BY <3>1 DEF RxEnterRead
    <3>2. CASE ~RxEnterRead
      BY <1>2, <3>2 DEF Quiet, SendBegin, Acquire, SendStep, CheckClosed, CheckOpen, WriteFrame,
         LoopExit, LoopStep, LoopSend, LoopPassEnd, RxNext, RxNoSync, RxSync, TxNext, Leave,
         After, Loops, ControlCore, ReadsInterruptible
    <3> QED
      BY <3>1, <3>2
  <2> QED
    BY <2>1, <2>2, ControlFrame DEF Loops, ReadsInterruptible
<1>3. CASE OtherOpen \/ OtherClose
  <2>1. /\ UNCHANGED <<running, socketFd, pc, aborted>>
        /\ \A f \in Fds : IsSocket(f) \/ IsSocket(f)' => fds'[f] = fds[f]
    BY <1>3 DEF OtherOpen, OtherClose, TypeOK, IsSocket
  <2>2. \A f \in Fds : IsSocket(f)' <=> IsSocket(f)
    BY <2>1 DEF IsSocket
  <2>3. (NoLoops' <=> NoLoops) /\ (NoCan' <=> NoCan) /\ (NoTrace' <=> NoTrace)
    BY <2>1, <2>2 DEF NoLoops, NoCan, NoTrace
  <2>4. (OwnsSocket' <=> OwnsSocket) /\ (HoldsSocket' <=> HoldsSocket)
    <3>1. IsSocket(socketFd)' <=> IsSocket(socketFd)
      BY <2>1, <2>2 DEF IsSocket
    <3> QED
      BY <2>1, <2>2, <3>1 DEF OwnsSocket, HoldsSocket, IsSocket
  <2> QED
    BY <2>1, <2>3, <2>4 DEF ControlCore, QuietInv, ControlInv, NoAbort, ReadsInterruptible
<1>4. CASE UNCHANGED vars
  BY <1>4 DEF vars, ControlCore, NoAbort, QuietInv, ControlInv, NoTrace, NoLoops,
     NoCan, OwnsSocket, HoldsSocket, IsSocket, ReadsInterruptible
<1> QED
  BY <1>1, <1>2, <1>3, <1>4 DEF Next, RxStep, RxArrival, TxStep, Loops

(* Before anything has happened the core holds.                             *)
LEMMA CoreInit ==
    ASSUME Init
    PROVE  ControlCore /\ \A c \in Controllers : pc[c] = "idle"
<1> USE ThreadsDisjoint
<1>1. \A t \in Threads : pc[t] = IF t \in Loops THEN "absent" ELSE "idle"
  BY DEF Init
<1>2. \A c \in Controllers : pc[c] = "idle"
  BY <1>1
<1>3. NoTrace
  BY <1>1 DEF Init, NoTrace, NoCan, NoLoops, Loops, IsSocket
<1>4. \A c \in Controllers : ControlInv(c)
  BY <1>2 DEF ControlInv, StopLabels, CloseLabels, StartLabels, ControlLabels
<1> QED
  BY <1>1, <1>2, <1>3, <1>4 DEF Init, ControlCore, NoAbort, QuietInv, ReadsInterruptible, Loops

(* With one controller no loop and no controller names another descriptor.  *)
LEMMA SocketIsNotForeign ==
    ASSUME Serial, TypeOK, ControlCore,
           NEW t \in Loops \cup Controllers, pc[t] \in {"read", "write"}
    PROVE  ~Foreign(socketFd)
<1> USE ThreadsDisjoint
<1>1. CASE t \in Loops
  <2> HoldsSocket
    BY <1>1, LoopsHold
  <2> QED
    BY DEF OwnsSocket, HoldsSocket, IsSocket, Foreign
<1>2. CASE t \in Controllers
  <2>1. \A c \in Controllers : pc[c] \notin ControlLabels
    BY <1>2 DEF Serial, ControlLabels, StartLabels, StopLabels, CloseLabels
  <2>2. HoldsSocket \/ NoTrace
    BY <2>1 DEF ControlCore, QuietInv
  <2> QED
    BY <2>2 DEF OwnsSocket, HoldsSocket, IsSocket, NoTrace, Foreign
<1> QED
  BY <1>1, <1>2

(* The invariant behind the transport's safety, for one controlling thread. *)
THEOREM SerialInvariant == Serial => (Spec => []SerialInv)
<1> SUFFICES ASSUME Serial PROVE Spec => []SerialInv
  OBVIOUS
<1> USE ThreadsDisjoint
<1>1. Init => SerialInv
  <2> SUFFICES ASSUME Init PROVE SerialInv
    OBVIOUS
  <2>1. \A t \in Threads : pc[t] = IF t \in Loops THEN "absent" ELSE "idle"
    BY DEF Init
  <2>2. ControlCore /\ SendInv
    BY <2>1, CoreInit DEF SendInv, Threads
  <2> QED
    BY <2>2 DEF Init, SerialInv, StrayOnlyFromOutsiders
<1>2. TypeOK /\ SerialInv /\ [Next]_vars => SerialInv'
  <2> SUFFICES ASSUME TypeOK, SerialInv, [Next]_vars PROVE SerialInv'
    OBVIOUS
  <2> USE DEF SerialInv
  <2>1. ControlCore'
    BY CoreStep DEF Serial, NoOverlap
  <2> SUFFICES SendInv' /\ StrayOnlyFromOutsiders'
    BY <2>1
  <2> DEFINE Step(c) == StartBegin(c) \/ StopBegin(c) \/ StartStep(c) \/ StopStep(c)
  <2>2. ASSUME NEW c \in Controllers, Step(c)
        PROVE  SendInv' /\ StrayOnlyFromOutsiders'
    <3> \A d \in Controllers : d = c
      BY DEF Serial
    <3> USE DEF TypeOK, Labels, Goto, At, sendVars
    <3>1. SendInv'
      <4>1. CASE socketFd' = socketFd
        <5> checkedFd' = checkedFd /\ pc'[c] # "write"
            /\ \A l \in Loops : pc'[l] = "write" => pc[l] = "write"
          BY <2>2 DEF Step, StartBegin, StopBegin, StartStep, Assign, StopStep, Join, OpenSocket, Bind, SetTimeouts,
             SetRunning, SpawnFails, SpawnOverJoinable, Spawn, JoinSkip, JoinBegin,
             JoinRefused, JoinEnd, CloseSocket, ClearFd, Loops, StartLabels,
             StopLabels, CloseLabels, SendLabels, LoopLabels, ControlLabels
        <5> QED
          BY <4>1 DEF SendInv
      <4>2. CASE socketFd' # socketFd
        <5>1. OpenSocket(c) \/ ClearFd(c)
          BY <2>2, <4>2 DEF Step, StartBegin, StopBegin, StartStep, Assign, StopStep, Join, Bind, SetTimeouts,
             SetRunning, SpawnFails, SpawnOverJoinable, Spawn, JoinSkip, JoinBegin,
             JoinRefused, JoinEnd, CloseSocket
        <5>2. NoLoops
          BY <5>1 DEF OpenSocket, ClearFd, ControlCore, ControlInv, NoTrace, CloseLabels
        <5> QED
          BY <5>1, <5>2 DEF OpenSocket, ClearFd, NoLoops, SendInv, Loops
      <4> QED
        BY <4>1, <4>2
    <3>2. stray' = stray
      BY <2>2 DEF Step, StartBegin, StopBegin, StartStep, Assign, StopStep, Join, OpenSocket, Bind, SetTimeouts,
         SetRunning, SpawnFails, SpawnOverJoinable, Spawn, JoinSkip, JoinBegin,
         JoinRefused, JoinEnd, CloseSocket, ClearFd
    <3> QED
      BY <3>1, <3>2 DEF StrayOnlyFromOutsiders
  <2> DEFINE Quiet(t) ==
        \/ SendBegin(t) /\ t \in Senders
        \/ Acquire(t) \/ CheckClosed(t) \/ CheckOpen(t)
        \/ (t \in Loops /\ (LoopExit(t) \/ LoopSend(t) \/ LoopPassEnd(t)))
        \/ t = "rx" /\ (RxNext \/ \E from \in {"reading", "blocked"} :
                                       RxNoSync(from) \/ RxSync(from))
        \/ t = "tx" /\ TxNext
  <2>3. ASSUME NEW t \in Threads, Quiet(t)
        PROVE  SendInv' /\ StrayOnlyFromOutsiders'
    <3> USE DEF TypeOK, Goto, At, SendLabels, sendVars
    <3>1. /\ UNCHANGED <<socketFd, stray>>
          /\ \A u \in Threads : u # t => pc'[u] = pc[u] /\ checkedFd'[u] = checkedFd[u]
          /\ pc'[t] = "write" => checkedFd'[t] = socketFd
      BY <2>3 DEF Quiet, SendBegin, Acquire, CheckClosed, CheckOpen, LoopExit, LoopSend,
         LoopPassEnd, RxNext, RxNoSync, RxSync, TxNext, Leave, After, Loops
    <3> QED
      BY <3>1 DEF SendInv, Loops, StrayOnlyFromOutsiders
  <2>4. ASSUME NEW t \in Threads, WriteFrame(t)
        PROVE  SendInv' /\ StrayOnlyFromOutsiders'
    <3> USE DEF TypeOK, Goto, At
    <3>1. /\ socketFd' = socketFd
          /\ \A u \in Threads : u # t => pc'[u] = pc[u] /\ checkedFd'[u] = checkedFd[u]
          /\ pc[t] = "write" /\ pc'[t] \in {"idle", "frames"}
      BY <2>4 DEF WriteFrame, Leave, After, Loops
    <3>2. SendInv'
      BY <3>1 DEF SendInv, Loops
    <3>3. CASE t \in Loops \cup Controllers
      <4> checkedFd[t] = socketFd /\ ~Foreign(socketFd)
        BY <3>1, <3>3, SocketIsNotForeign DEF SendInv
      <4> QED
        BY <2>4, <3>2 DEF WriteFrame, StrayOnlyFromOutsiders
    <3>4. CASE t \notin Loops \cup Controllers
      BY <2>4, <3>2, <3>4 DEF WriteFrame, StrayOnlyFromOutsiders, Threads, Callers
    <3> QED
      BY <3>3, <3>4
  <2>5. CASE RxEnterRead
    <3> USE DEF TypeOK, Goto, At
    <3>1. /\ UNCHANGED <<socketFd, checkedFd>>
          /\ \A u \in Threads : u # "rx" => pc'[u] = pc[u]
          /\ pc["rx"] = "read" /\ pc'["rx"] \in {"reading", "blocked", "loop"}
      BY <2>5 DEF RxEnterRead, Loops
    <3>2. SendInv'
      BY <3>1 DEF SendInv, Loops
    <3>3. ~Foreign(socketFd)
      BY <3>1, SocketIsNotForeign DEF Loops
    <3> QED
      BY <2>5, <3>2, <3>3 DEF RxEnterRead, StrayOnlyFromOutsiders
  <2>6. CASE OtherOpen \/ OtherClose \/ UNCHANGED vars
    BY <2>6 DEF OtherOpen, OtherClose, sendVars, vars, SendInv, StrayOnlyFromOutsiders
  <2> QED
    BY <2>2, <2>3, <2>4, <2>5, <2>6
    DEF Next, SendStep, RxStep, RxArrival, TxStep, LoopStep, Loops
<1> QED
  BY <1>1, <1>2, TypeCorrect, PTL DEF Spec

(* A loop that executes has the transport's CAN socket under it.            *)
THEOREM LoopsHoldSocketHolds == Serial => (Spec => []LoopsHoldSocket)
<1> SUFFICES ASSUME Serial PROVE Spec => []LoopsHoldSocket
  OBVIOUS
<1>1. TypeOK /\ SerialInv => LoopsHoldSocket
  <2> SUFFICES ASSUME TypeOK, SerialInv, NEW l \in Loops, Live(l)
               PROVE  socketFd \in Fds /\ fds[socketFd] = "can"
    BY DEF LoopsHoldSocket
  <2>1. pc[l] # "absent"
    BY DEF Live
  <2> QED
    BY <2>1, LoopsHold DEF SerialInv, OwnsSocket, HoldsSocket, IsSocket
<1> QED
  BY <1>1, TypeCorrect, SerialInvariant, PTL

(* A transport at rest has left no thread, no descriptor and no socket.     *)
THEOREM QuiescentStopHolds == Serial => (Spec => []QuiescentStop)
<1> SUFFICES ASSUME Serial PROVE Spec => []QuiescentStop
  OBVIOUS
<1>1. SerialInv => QuiescentStop
  BY DEF SerialInv, ControlCore, QuietInv, QuiescentStop, NoTrace, NoCan, NoLoops
<1> QED
  BY <1>1, SerialInvariant, PTL

(* The receive loop is never inside a read that nothing has to end.         *)
THEOREM ReadsInterruptibleHolds == Serial => (Spec => []ReadsInterruptible)
<1> SUFFICES ASSUME Serial PROVE Spec => []ReadsInterruptible
  OBVIOUS
<1>1. SerialInv => ReadsInterruptible
  BY DEF SerialInv, ControlCore
<1> QED
  BY <1>1, SerialInvariant, PTL

(* std::terminate is never reached, whichever Start threw before.           *)
THEOREM NoAbortHolds == Serial => (Spec => []NoAbort)
<1> SUFFICES ASSUME Serial PROVE Spec => []NoAbort
  OBVIOUS
<1>1. SerialInv => NoAbort
  BY DEF SerialInv, ControlCore
<1> QED
  BY <1>1, SerialInvariant, PTL

(* Neither the loops nor the controller do I/O on a foreign descriptor.     *)
THEOREM StrayOnlyFromOutsidersHolds == Serial => (Spec => []StrayOnlyFromOutsiders)
<1> SUFFICES ASSUME Serial PROVE Spec => []StrayOnlyFromOutsiders
  OBVIOUS
<1>1. SerialInv => StrayOnlyFromOutsiders
  BY DEF SerialInv
<1> QED
  BY <1>1, SerialInvariant, PTL

(* close() is only ever called on the transport's own CAN socket.           *)
THEOREM ClosesItsOwnSocketHolds == Serial => (Spec => ClosesItsOwnSocket)
<1> SUFFICES ASSUME Serial PROVE Spec => ClosesItsOwnSocket
  OBVIOUS
<1>1. SerialInv /\ [Next]_vars =>
        [\A c \in Controllers :
           pc[c] = "close" /\ pc'[c] # "close" => IsSocket(socketFd)]_vars
  BY DEF SerialInv, ControlCore, ControlInv, OwnsSocket, ControlLabels, CloseLabels
<1> QED
  BY <1>1, SerialInvariant, PTL DEF Spec, ClosesItsOwnSocket

-----------------------------------------------------------------------------
(* The transport implements TransportLifecycle: each of its steps is a step *)
(* of the abstract specification or leaves its variables alone.             *)

LiveSet == {l \in Loops : Live(l)}
Sock    == IF IsSocket(socketFd) THEN "open" ELSE "closed"

(* With one controller the phase is read off where it is.                   *)
LEMMA PhaseOf ==
    ASSUME Serial, NEW c \in Controllers
    PROVE  Phase = IF running THEN "running"
                   ELSE IF pc[c] \in StopLabels \cup {"close"} THEN "stopping"
                   ELSE IF pc[c] \in {"bind", "timeouts", "setRunning"} THEN "starting"
                   ELSE "stopped"
BY DEF Phase, Serial

LEMMA PhaseOfNext ==
    ASSUME Serial, NEW c \in Controllers
    PROVE  Phase' = IF running' THEN "running"
                    ELSE IF pc'[c] \in StopLabels \cup {"close"} THEN "stopping"
                    ELSE IF pc'[c] \in {"bind", "timeouts", "setRunning"} THEN "starting"
                    ELSE "stopped"
BY DEF Phase, Serial

THEOREM ImplementsLifecycleSteps == Serial => (Spec => Lifecycle!Spec)
<1> SUFFICES ASSUME Serial PROVE Spec => Lifecycle!Spec
  OBVIOUS
<1> USE ThreadsDisjoint
<1>1. Init => Lifecycle!Init
  <2> SUFFICES ASSUME Init PROVE Lifecycle!Init
    OBVIOUS
  <2>1. \A t \in Threads : pc[t] = IF t \in Loops THEN "absent" ELSE "idle"
    BY DEF Init
  <2>2. \A c \in Controllers : pc[c] = "idle"
    BY <2>1
  <2>3. Phase = "stopped"
    BY <2>2 DEF Init, Phase, StopLabels
  <2>4. LiveSet = {}
    BY <2>1 DEF LiveSet, Live, Loops
  <2>5. Sock = "closed"
    BY DEF Init, Sock, IsSocket
  <2> QED
    BY <2>3, <2>4, <2>5 DEF Lifecycle!Init, LiveSet, Sock
<1>2. TypeOK /\ SerialInv /\ [Next]_vars => [Lifecycle!Next]_(Lifecycle!vars)
  <2> SUFFICES ASSUME TypeOK, SerialInv, [Next]_vars,
                      ~ UNCHANGED <<Phase, LiveSet, Sock>>
               PROVE  Lifecycle!Next
    BY DEF Lifecycle!vars, LiveSet, Sock
  <2> DEFINE Step(c) == StartBegin(c) \/ StopBegin(c) \/ StartStep(c) \/ StopStep(c)
  <2>1. ASSUME NEW c \in Controllers, Step(c) PROVE Lifecycle!Next
    <3> ControlInv(c) /\ QuietInv /\ ~aborted /\ \A d \in Controllers : d = c
      BY DEF SerialInv, ControlCore, NoAbort, Serial
    <3> USE DEF TypeOK, Labels, Goto, At, StartLabels, StopLabels, CloseLabels,
            SendLabels, LoopLabels, ControlLabels, sendVars
    <3>1. CASE StartBegin(c)
      <4>1. Phase' = Phase
        BY <3>1, PhaseOf, PhaseOfNext DEF StartBegin
      <4>2. UNCHANGED <<LiveSet, Sock>>
        BY <3>1 DEF StartBegin, LiveSet, Live, Sock, IsSocket
      <4> QED
        BY <4>1, <4>2
    <3>2. CASE OpenSocket(c)
      <4>1. LiveSet' = LiveSet
        BY <3>2 DEF OpenSocket, LiveSet, Live, Loops
      <4>2. pc[c] = "socket" /\ ~running /\ Phase = "stopped"
        BY <3>2, PhaseOf DEF OpenSocket, ControlInv
      <4>3. CASE pc'[c] = "bind"
        <5>1. Phase' = "starting" /\ Sock' = "open"
          BY <3>2, <4>2, <4>3, PhaseOfNext DEF OpenSocket, Sock, IsSocket
        <5> QED
          BY <4>1, <4>2, <5>1 DEF Lifecycle!Next, Lifecycle!Open, LiveSet, Sock
      <4>4. CASE pc'[c] # "bind"
        <5>1. pc'[c] = "idle" /\ socketFd' = NoFd /\ ~running' /\ socketFd = NoFd
          BY <3>2, <4>2, <4>4 DEF OpenSocket, ControlInv, NoTrace
        <5>2. Phase' = "stopped" /\ Sock' = Sock
          BY <5>1, PhaseOfNext DEF Sock, IsSocket
        <5> QED
          BY <4>1, <4>2, <5>2
      <4> QED
        BY <4>3, <4>4
    <3>3. CASE Bind(c) \/ SetTimeouts(c)
      <4>1. UNCHANGED <<LiveSet, Sock>>
        BY <3>3 DEF Bind, SetTimeouts, LiveSet, Live, Sock, IsSocket, Loops
      <4>2. pc[c] \in {"bind", "timeouts"} /\ ~running /\ ~running' /\ Phase = "starting"
        BY <3>3, PhaseOf DEF Bind, SetTimeouts, ControlInv
      <4>3. pc'[c] \in {"timeouts", "setRunning", "close"}
        BY <3>3 DEF Bind, SetTimeouts
      <4>4. Phase' \in {"starting", "stopping"}
        BY <4>2, <4>3, PhaseOfNext
      <4> QED
        BY <4>1, <4>2, <4>4 DEF Lifecycle!Next, Lifecycle!Stop, LiveSet, Sock
    <3>4. CASE SetRunning(c)
      <4>1. UNCHANGED <<LiveSet, Sock>>
        BY <3>4 DEF SetRunning, LiveSet, Live, Sock, IsSocket, Loops
      <4>2. Phase = "starting" /\ Phase' = "running"
        BY <3>4, PhaseOf, PhaseOfNext DEF SetRunning, ControlInv
      <4> QED
        BY <4>1, <4>2 DEF Lifecycle!Next, Lifecycle!Begin, LiveSet, Sock
    <3>5. CASE SpawnFails(c, "spawnRx") \/ SpawnFails(c, "spawnTx")
      <4>1. Phase' = Phase
        BY <3>5, PhaseOf, PhaseOfNext DEF SpawnFails, ControlInv
      <4>2. UNCHANGED <<LiveSet, Sock>>
        BY <3>5 DEF SpawnFails, LiveSet, Live, Sock, IsSocket, Loops
      <4> QED
        BY <4>1, <4>2
    <3>6. CASE SpawnOverJoinable(c, "rx", "spawnRx") \/ SpawnOverJoinable(c, "tx", "spawnTx")
      BY <3>6 DEF SpawnOverJoinable, ControlInv, NoLoops, Loops
    <3>7. ASSUME NEW l \in Loops, NEW from \in {"spawnRx", "spawnTx"},
                 NEW to \in {"spawnTx", "idle"}, Spawn(c, l, from, to)
          PROVE  Lifecycle!Next
      <4>1. Sock' = Sock
        BY <3>7 DEF Spawn, Sock, IsSocket
      <4>2. Phase = "running" /\ Phase' = "running"
        BY <3>7, PhaseOf, PhaseOfNext DEF Spawn, ControlInv
      <4>3. l \notin LiveSet /\ LiveSet' = LiveSet \cup {l}
        BY <3>7 DEF Spawn, LiveSet, Live, Loops
      <4> QED
        BY <4>1, <4>2, <4>3 DEF Lifecycle!Next, Lifecycle!Spawn, LiveSet, Sock
    <3>8. CASE StopBegin(c)
      <4>1. UNCHANGED <<LiveSet, Sock>>
        BY <3>8 DEF StopBegin, LiveSet, Live, Sock, IsSocket, Loops
      <4>2. Phase = "running" /\ Phase' = "stopping"
        BY <3>8, PhaseOf, PhaseOfNext DEF StopBegin
      <4> QED
        BY <4>1, <4>2 DEF Lifecycle!Next, Lifecycle!Stop, LiveSet, Sock
    <3>9. CASE \/ JoinSkip(c, "rx", "joinRx", "joinTx")
               \/ JoinSkip(c, "tx", "joinTx", "close")
               \/ JoinBegin(c, "rx", "joinRx", "joiningRx")
               \/ JoinBegin(c, "tx", "joinTx", "joiningTx")
      <4>1. Phase' = Phase
        BY <3>9, PhaseOf, PhaseOfNext DEF JoinSkip, JoinBegin
      <4>2. UNCHANGED <<LiveSet, Sock>>
        BY <3>9 DEF JoinSkip, JoinBegin, LiveSet, Live, Sock, IsSocket, Loops
      <4> QED
        BY <4>1, <4>2
    <3>10. CASE \/ JoinRefused(c, "rx", "joinRx", "joiningRx")
                \/ JoinRefused(c, "tx", "joinTx", "joiningTx")
      BY <3>10 DEF JoinRefused
    <3>11. CASE \/ JoinEnd(c, "rx", "joiningRx", "joinTx")
                \/ JoinEnd(c, "tx", "joiningTx", "close")
      <4>1. Phase' = Phase
        BY <3>11, PhaseOf, PhaseOfNext DEF JoinEnd, Loops
      <4>2. UNCHANGED <<LiveSet, Sock>>
        BY <3>11 DEF JoinEnd, LiveSet, Live, Sock, IsSocket, Loops
      <4> QED
        BY <4>1, <4>2
    <3>12. CASE CloseSocket(c)
      <4>1. LiveSet' = LiveSet /\ LiveSet = {}
        BY <3>12 DEF CloseSocket, LiveSet, Live, Loops, ControlInv, NoLoops
      <4>2. OwnsSocket /\ Sock' = "closed"
        BY <3>12 DEF CloseSocket, Sock, ControlInv, OwnsSocket, IsSocket
      <4>3. Phase = "stopping" /\ Phase' = "stopped"
        BY <3>12, <4>2, PhaseOf, PhaseOfNext DEF CloseSocket, ControlInv, OwnsSocket, IsSocket
      <4> QED
        BY <4>1, <4>2, <4>3 DEF Lifecycle!Next, Lifecycle!Close, LiveSet, Sock
    <3>13. CASE ClearFd(c)
      <4>1. Phase' = Phase
        BY <3>13, PhaseOf, PhaseOfNext DEF ClearFd, ControlInv
      <4>2. LiveSet' = LiveSet
        BY <3>13 DEF ClearFd, LiveSet, Live, Loops
      <4>3. Sock' = Sock
        BY <3>13 DEF ClearFd, Sock, ControlInv, NoCan, IsSocket
      <4> QED
        BY <4>1, <4>2, <4>3
    <3> QED
      BY <2>1, <3>1, <3>2, <3>3, <3>4, <3>5, <3>6, <3>7, <3>8, <3>9, <3>10, <3>11,
         <3>12, <3>13
      DEF Step, StartStep, Assign, StopStep, Join, Loops
  <2> DEFINE Quiet(t) ==
        \/ SendBegin(t) /\ t \in Senders
        \/ Acquire(t) \/ CheckClosed(t) \/ CheckOpen(t) \/ WriteFrame(t)
        \/ (t \in Loops /\ (LoopSend(t) \/ LoopPassEnd(t)))
        \/ t = "rx" /\ (RxNext \/ RxEnterRead)
        \/ t = "rx" /\ \E from \in {"reading", "blocked"} : RxNoSync(from) \/ RxSync(from)
        \/ t = "tx" /\ TxNext
  <2>2. ASSUME NEW t \in Threads, Quiet(t) PROVE FALSE
    <3> USE DEF TypeOK, Goto, At, SendLabels, sendVars
    <3>1. /\ UNCHANGED <<running, socketFd, fds>>
          /\ \A u \in Threads : u # t => pc'[u] = pc[u]
          /\ {pc[t], pc'[t]} \cap (ControlLabels \cup {"absent", "done"}) = {}
      BY <2>2 DEF Quiet, SendBegin, Acquire, CheckClosed, CheckOpen, WriteFrame,
         LoopSend, LoopPassEnd, RxNext, RxEnterRead, RxNoSync, RxSync, TxNext,
         Leave, After, Loops, ControlLabels, StartLabels, StopLabels, CloseLabels
    <3>2. Sock' = Sock
      BY <3>1 DEF Sock, IsSocket
    <3>3. LiveSet' = LiveSet
      BY <3>1 DEF LiveSet, Live, Loops
    <3>4. Phase' = Phase
      BY <3>1 DEF Phase, ControlLabels, StartLabels, StopLabels, CloseLabels
    <3> QED
      BY <3>2, <3>3, <3>4
  <2>3. ASSUME NEW l \in Loops, LoopExit(l) PROVE Lifecycle!Next
    <3> USE DEF TypeOK, Goto, At, sendVars
    <3>1. pc[l] = "loop" /\ ~running /\ pc'[l] = "done"
          /\ \A t \in Threads : t # l => pc'[t] = pc[t]
      BY <2>3 DEF LoopExit, Loops
    <3>2. \E c \in Controllers : pc[c] \in ControlLabels
      BY <3>1 DEF SerialInv, ControlCore, QuietInv, NoTrace, NoLoops
    <3>3. PICK c \in Controllers : pc[c] \in StopLabels
      BY <3>1, <3>2
      DEF SerialInv, ControlCore, ControlInv, NoTrace, NoLoops, ControlLabels, StartLabels,
          StopLabels, CloseLabels, Loops
    <3>4. Phase = "stopping" /\ Phase' = "stopping"
      BY <2>3, <3>1, <3>3, PhaseOf, PhaseOfNext DEF LoopExit
    <3>5. l \in LiveSet /\ LiveSet' = LiveSet \ {l}
      BY <3>1 DEF LiveSet, Live, Loops
    <3>6. Sock' = Sock
      BY <2>3 DEF LoopExit, Sock, IsSocket
    <3> QED
      BY <3>4, <3>5, <3>6 DEF Lifecycle!Next, Lifecycle!Exit, LiveSet, Sock
  <2>4. CASE OtherOpen \/ OtherClose
    <3>1. /\ UNCHANGED <<running, socketFd, pc>>
          /\ \A f \in Fds : IsSocket(f)' <=> IsSocket(f)
      BY <2>4 DEF OtherOpen, OtherClose, TypeOK, IsSocket
    <3>2. UNCHANGED <<Phase, LiveSet>> /\ (IsSocket(socketFd)' <=> IsSocket(socketFd))
      BY <3>1 DEF Phase, LiveSet, Live, IsSocket
    <3>3. Sock' = Sock
      BY <3>2 DEF Sock
    <3> QED
      BY <3>2, <3>3
  <2>5. CASE UNCHANGED vars
    BY <2>5 DEF vars, Phase, LiveSet, Live, Sock, IsSocket
  <2> QED
    BY <2>1, <2>2, <2>3, <2>4, <2>5
    DEF Next, SendStep, RxStep, RxArrival, TxStep, LoopStep, Loops
<1> QED
  BY <1>1, <1>2, TypeCorrect, SerialInvariant, PTL DEF Spec, Lifecycle!Spec

=============================================================================
