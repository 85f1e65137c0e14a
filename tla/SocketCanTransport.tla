------------------------- MODULE SocketCanTransport -------------------------
(***************************************************************************)
(* The lifecycle of SocketCanTransport: Start, Stop, the RX and TX loops   *)
(* they create and join, and every path to SendRawFrame_.                  *)
(*                                                                         *)
(* The class has one lock, send_mutex_, and it covers SendRawFrame_ only.  *)
(* Start and Stop touch socket_fd_, rx_thread_ and tx_thread_ with no lock *)
(* at all, so their steps interleave with each other and with the loops.   *)
(* One step of a thread here is a stretch of code with at most one access  *)
(* to state another thread writes.                                         *)
(*                                                                         *)
(* Abstracted: which frames are sent or received (the modules TxLoop and   *)
(* PdoExchange have their contents), time (a timeout may fire whenever its *)
(* call is pending), and logging.  shutdown() has no effect on a raw CAN   *)
(* socket and is part of StopBegin.  A write of one 16-byte frame returns: *)
(* it waits for SO_SNDTIMEO at most, and a socket that has none yet has an *)
(* empty send buffer.                                                      *)
(***************************************************************************)
EXTENDS Integers, FiniteSets

CONSTANTS
    Controllers,  \* threads that call Start and Stop
    Senders,      \* threads that call SendTpdo, SendNmtCommand, SendHeartbeat
    MaxFd,        \* the largest descriptor the process may use
    NSync,        \* number of TPDOs of transmission type 1..240
    NDue          \* most frames one pass of TxLoop_ may find due

Loops   == {"rx", "tx"}
Callers == Controllers \cup Senders
Threads == Callers \cup Loops
Fds     == 0 .. MaxFd
NoFd    == -1
Nobody  == "nobody"

ASSUME TransportAssumption ==
    /\ Callers \cap (Loops \cup {Nobody}) = {}
    /\ MaxFd \in Nat /\ NSync \in Nat /\ NDue \in Nat

VARIABLES
    running,    \* running_
    socketFd,   \* socket_fd_
    fds,        \* the process's descriptor table: free, new (a CAN socket
                \* without timeouts), can (one with them) or other
    pc,         \* where each thread is; a loop that is not "absent" has a
                \* joinable std::thread in rx_thread_ or tx_thread_
    sendMutex,  \* the holder of send_mutex_
    checkedFd,  \* the socket_fd_ a thread saw at the test in SendRawFrame_
    todo,       \* TPDOs a loop has still to send in this pass
    stray,      \* history: threads that did I/O on a descriptor not a CAN one
    aborted     \* std::terminate was called

vars == <<running, socketFd, fds, pc, sendMutex, checkedFd, todo, stray,
          aborted>>

StartLabels == {"socket", "bind", "timeouts", "setRunning", "spawnRx", "spawnTx"}
StopLabels  == {"joinRx", "joiningRx", "joinTx", "joiningTx"}
CloseLabels == {"close", "clearFd"}
SendLabels  == {"lock", "check", "write"}
LoopLabels  == {"absent", "loop", "read", "reading", "blocked", "frames", "done"}
ControlLabels == StartLabels \cup StopLabels \cup CloseLabels

Labels(t) ==
    CASE t \in Loops       -> LoopLabels \cup SendLabels
      [] t \in Controllers -> {"idle"} \cup ControlLabels \cup SendLabels
      [] OTHER             -> {"idle"} \cup SendLabels

At(t, l)   == ~aborted /\ pc[t] = l
Goto(t, l) == pc' = [pc EXCEPT ![t] = l]

(* An open CAN socket, with or without timeouts.                           *)
IsSocket(f) == f \in Fds /\ fds[f] \in {"new", "can"}

(* A loop's thread that still executes; one that returned waits for join.  *)
Live(l) == pc[l] \notin {"absent", "done"}

Init ==
    /\ running = FALSE
    /\ socketFd = NoFd
    /\ fds \in [Fds -> {"free", "other"}]
    /\ pc = [t \in Threads |-> IF t \in Loops THEN "absent" ELSE "idle"]
    /\ sendMutex = Nobody
    /\ checkedFd = [t \in Threads |-> NoFd]
    /\ todo = [l \in Loops |-> 0]
    /\ stray = {}
    /\ aborted = FALSE

-----------------------------------------------------------------------------
(* Start.  A Start that finds running_ set throws and changes nothing.     *)

sendVars == <<sendMutex, checkedFd, todo, stray>>

StartBegin(c) ==
    /\ At(c, "idle") /\ ~running
    /\ Goto(c, "socket")
    /\ UNCHANGED <<running, socketFd, fds, sendVars, aborted>>

(* Seeded fault: the error path closes although there is no socket.        *)
OpenSocketClosesAnyway(c) ==
    /\ At(c, "socket")
    /\ \/ \E f \in Fds :
            /\ fds[f] = "free" /\ \A g \in Fds : g < f => fds[g] # "free"
            /\ fds' = [fds EXCEPT ![f] = "new"]
            /\ socketFd' = f
            /\ Goto(c, "bind")
       \/ /\ socketFd' = NoFd
          /\ Goto(c, "close")
          /\ UNCHANGED fds
    /\ UNCHANGED <<running, sendVars, aborted>>

(* socket() takes the lowest free descriptor, or fails and its -1 is kept. *)
OpenSocket(c) ==
    /\ At(c, "socket")
    /\ \/ \E f \in Fds :
            /\ fds[f] = "free" /\ \A g \in Fds : g < f => fds[g] # "free"
            /\ fds' = [fds EXCEPT ![f] = "new"]
            /\ socketFd' = f
            /\ Goto(c, "bind")
       \/ /\ socketFd' = NoFd
          /\ Goto(c, "idle")
          /\ UNCHANGED fds
    /\ UNCHANGED <<running, sendVars, aborted>>

(* Seeded fault: a failed bind returns without closing.                    *)
BindLeaks(c) ==
    /\ At(c, "bind")
    /\ (IsSocket(socketFd) /\ Goto(c, "timeouts")) \/ Goto(c, "idle")
    /\ UNCHANGED <<running, socketFd, fds, sendVars, aborted>>

(* if_nametoindex and bind of what the field names now.  A failure closes   *)
(* the socket and resets socket_fd_, as the end of Stop does.               *)
Bind(c) ==
    /\ At(c, "bind")
    /\ (IsSocket(socketFd) /\ Goto(c, "timeouts")) \/ Goto(c, "close")
    /\ UNCHANGED <<running, socketFd, fds, sendVars, aborted>>

(* setsockopt of SO_RCVTIMEO, then of SO_SNDTIMEO: until here a read of the *)
(* socket has no timeout.  The second may fail when the first did not.  A   *)
(* foreign socket takes them too; it stays one whose read may block, as the *)
(* number can change hands between the two calls and after them.            *)
SetTimeouts(c) ==
    /\ At(c, "timeouts")
    /\ \/ /\ IsSocket(socketFd)
          /\ fds' = [fds EXCEPT ![socketFd] = "can"]
          /\ Goto(c, "setRunning") \/ Goto(c, "close")
       \/ /\ socketFd \in Fds /\ fds[socketFd] = "other"
          /\ Goto(c, "setRunning")
          /\ UNCHANGED fds
       \/ Goto(c, "close") /\ UNCHANGED fds
    /\ UNCHANGED <<running, socketFd, sendVars, aborted>>

SetRunning(c) ==
    /\ At(c, "setRunning")
    /\ running' = TRUE
    /\ Goto(c, "spawnRx")
    /\ UNCHANGED <<socketFd, fds, sendVars, aborted>>

(* Seeded fault: a Start that throws clears running_ and nothing else.     *)
SpawnFailsAndForgets(c, from) ==
    /\ At(c, from)
    /\ running' = FALSE
    /\ Goto(c, "idle")
    /\ UNCHANGED <<socketFd, fds, sendVars, aborted>>

(* rx_thread_ = std::thread(...): the constructor may throw, which leaves  *)
(* running_ set, and assigning to a joinable thread calls std::terminate.  *)
SpawnFails(c, from) ==
    /\ At(c, from)
    /\ Goto(c, "idle")
    /\ UNCHANGED <<running, socketFd, fds, sendVars, aborted>>

SpawnOverJoinable(c, l, from) ==
    /\ At(c, from) /\ pc[l] # "absent"
    /\ aborted' = TRUE
    /\ UNCHANGED <<running, socketFd, fds, pc, sendVars>>

Spawn(c, l, from, to) ==
    /\ At(c, from) /\ pc[l] = "absent"
    /\ pc' = [pc EXCEPT ![c] = to, ![l] = "loop"]
    /\ UNCHANGED <<running, socketFd, fds, sendVars, aborted>>

(* The assignment to a field that is empty or not.                         *)
Assign(c, l, from, to) ==
    IF pc[l] = "absent" THEN Spawn(c, l, from, to) ELSE SpawnOverJoinable(c, l, from)

-----------------------------------------------------------------------------
(* Stop.                                                                   *)

(* Seeded faults: Stop does not join; Stop tests running_ and leaves it.   *)
StopBeginNoJoin(c) ==
    /\ At(c, "idle") /\ running
    /\ running' = FALSE
    /\ Goto(c, "close")
    /\ UNCHANGED <<socketFd, fds, sendVars, aborted>>

StopBeginLeavesRunning(c) ==
    /\ At(c, "idle") /\ running
    /\ Goto(c, "joinRx")
    /\ UNCHANGED <<running, socketFd, fds, sendVars, aborted>>

(* A Stop that finds running_ clear returns at once.  A raw CAN socket does *)
(* not support shutdown(): the call fails and wakes nobody.                 *)
StopBegin(c) ==
    /\ At(c, "idle") /\ running
    /\ running' = FALSE
    /\ Goto(c, "joinRx")
    /\ UNCHANGED <<socketFd, fds, sendVars, aborted>>

JoinSkip(c, l, from, to) ==
    /\ At(c, from) /\ pc[l] = "absent"
    /\ Goto(c, to)
    /\ UNCHANGED <<running, socketFd, fds, sendVars, aborted>>

JoinBegin(c, l, from, waiting) ==
    /\ At(c, from) /\ pc[l] # "absent"
    /\ \A d \in Controllers : pc[d] # waiting
    /\ Goto(c, waiting)
    /\ UNCHANGED <<running, socketFd, fds, sendVars, aborted>>

(* pthread_join of a thread another thread is joining: EINVAL, an exception *)
JoinRefused(c, l, from, waiting) ==
    /\ At(c, from) /\ pc[l] # "absent"
    /\ \E d \in Controllers : pc[d] = waiting
    /\ Goto(c, "idle")
    /\ UNCHANGED <<running, socketFd, fds, sendVars, aborted>>

(* join() of a joinable thread.                                            *)
Join(c, l, from, waiting) ==
    IF \E d \in Controllers : pc[d] = waiting
    THEN JoinRefused(c, l, from, waiting) ELSE JoinBegin(c, l, from, waiting)

JoinEnd(c, l, waiting, to) ==
    /\ At(c, waiting) /\ pc[l] = "done"
    /\ pc' = [pc EXCEPT ![c] = to, ![l] = "absent"]
    /\ UNCHANGED <<running, socketFd, fds, sendVars, aborted>>

(* Seeded fault: the field keeps the closed number.                        *)
CloseSocketKeepsFd(c) ==
    /\ At(c, "close")
    /\ fds' = [f \in Fds |-> IF f = socketFd THEN "free" ELSE fds[f]]
    /\ Goto(c, "idle")
    /\ UNCHANGED <<running, socketFd, sendVars, aborted>>

(* close(socket_fd_) frees whatever the number names by now.               *)
CloseSocket(c) ==
    /\ At(c, "close")
    /\ fds' = [f \in Fds |-> IF f = socketFd THEN "free" ELSE fds[f]]
    /\ Goto(c, IF socketFd = NoFd THEN "idle" ELSE "clearFd")
    /\ UNCHANGED <<running, socketFd, sendVars, aborted>>

ClearFd(c) ==
    /\ At(c, "clearFd")
    /\ socketFd' = NoFd
    /\ Goto(c, "idle")
    /\ UNCHANGED <<running, fds, sendVars, aborted>>

-----------------------------------------------------------------------------
(* SendRawFrame_.  send_mutex_ makes the test and the write one section    *)
(* among senders, but Start and Stop change socket_fd_ without it: the     *)
(* write may use the value tested or the one there now.                    *)

After(t) == IF t \in Loops THEN "frames" ELSE "idle"

Foreign(f) == f \in Fds /\ fds[f] = "other"

Leave(t) ==
    /\ sendMutex' = Nobody
    /\ checkedFd' = [checkedFd EXCEPT ![t] = NoFd]
    /\ Goto(t, After(t))

(* A caller's SendTpdo whose encoding throws changes nothing.              *)
SendBegin(s) ==
    /\ At(s, "idle")
    /\ Goto(s, "lock")
    /\ UNCHANGED <<running, socketFd, fds, sendVars, aborted>>

Acquire(t) ==
    /\ At(t, "lock") /\ sendMutex = Nobody
    /\ sendMutex' = t
    /\ Goto(t, "check")
    /\ UNCHANGED <<running, socketFd, fds, checkedFd, todo, stray, aborted>>

CheckClosed(t) ==
    /\ At(t, "check") /\ socketFd = NoFd
    /\ Leave(t)
    /\ UNCHANGED <<running, socketFd, fds, todo, stray, aborted>>

CheckOpen(t) ==
    /\ At(t, "check") /\ socketFd # NoFd
    /\ checkedFd' = [checkedFd EXCEPT ![t] = socketFd]
    /\ Goto(t, "write")
    /\ UNCHANGED <<running, socketFd, fds, sendMutex, todo, stray, aborted>>

WriteFrame(t) ==
    /\ At(t, "write")
    /\ \E f \in {checkedFd[t], socketFd} :
         stray' = IF Foreign(f) THEN stray \cup {t} ELSE stray
    /\ Leave(t)
    /\ UNCHANGED <<running, socketFd, fds, todo, aborted>>

-----------------------------------------------------------------------------
(* RxLoop_ and TxLoop_.                                                    *)

(* Seeded fault: a loop gives up on an error while running_ is set.        *)
LoopExitOnError(l) ==
    /\ At(l, "loop")
    /\ Goto(l, "done")
    /\ UNCHANGED <<running, socketFd, fds, sendVars, aborted>>

LoopExit(l) ==
    /\ At(l, "loop") /\ ~running
    /\ Goto(l, "done")
    /\ UNCHANGED <<running, socketFd, fds, sendVars, aborted>>

(* Seeded fault: the loop reads on without looking at running_.            *)
RxNextAlways ==
    /\ At("rx", "loop")
    /\ Goto("rx", "read")
    /\ UNCHANGED <<running, socketFd, fds, sendVars, aborted>>

RxNext ==
    /\ At("rx", "loop") /\ running
    /\ Goto("rx", "read")
    /\ UNCHANGED <<running, socketFd, fds, sendVars, aborted>>

(* read(socket_fd_, ...) is entered with the number the field holds now.  A *)
(* socket that has no timeout yet and a foreign descriptor may block for    *)
(* good, a closed number fails at once.                                     *)
RxEnterRead ==
    /\ At("rx", "read")
    /\ stray' = IF Foreign(socketFd) THEN stray \cup {"rx"} ELSE stray
    /\ \/ IsSocket(socketFd) /\ fds[socketFd] = "can" /\ Goto("rx", "reading")
       \/ IsSocket(socketFd) /\ fds[socketFd] = "new" /\ Goto("rx", "blocked")
       \/ Foreign(socketFd) /\ Goto("rx", "blocked")
       \/ ~IsSocket(socketFd) /\ Goto("rx", "loop")
    /\ UNCHANGED <<running, socketFd, fds, sendMutex, checkedFd, todo, aborted>>

(* SO_RCVTIMEO, a read error, a short read, or a frame that is not SYNC.   *)
RxNoSync(from) ==
    /\ At("rx", from)
    /\ Goto("rx", "loop")
    /\ UNCHANGED <<running, socketFd, fds, sendVars, aborted>>

(* A SYNC frame: SendSynchronousTpdos_ visits every synchronous TPDO.      *)
RxSync(from) ==
    /\ At("rx", from)
    /\ todo' = [todo EXCEPT !["rx"] = NSync]
    /\ Goto("rx", "frames")
    /\ UNCHANGED <<running, socketFd, fds, sendMutex, checkedFd, stray, aborted>>

(* A read without timeout ends when something arrives or the device fails:  *)
(* nothing makes that happen.                                               *)
RxArrival == RxNoSync("blocked") \/ RxSync("blocked")

(* One pass of TxLoop_: a heartbeat and the asynchronous TPDOs that are due. *)
TxNext ==
    /\ At("tx", "loop") /\ running
    /\ \E n \in 0 .. NDue : todo' = [todo EXCEPT !["tx"] = n]
    /\ Goto("tx", "frames")
    /\ UNCHANGED <<running, socketFd, fds, sendMutex, checkedFd, stray, aborted>>

(* Seeded fault: one TPDO more than there are.                             *)
LoopSendOneMore(l) ==
    /\ At(l, "frames") /\ todo[l] >= 0
    /\ todo' = [todo EXCEPT ![l] = @ - 1]
    /\ Goto(l, "lock") \/ UNCHANGED pc
    /\ UNCHANGED <<running, socketFd, fds, sendMutex, checkedFd, stray, aborted>>

(* SendTpdo from a loop; an exception is caught there and the pass goes on. *)
LoopSend(l) ==
    /\ At(l, "frames") /\ todo[l] > 0
    /\ todo' = [todo EXCEPT ![l] = @ - 1]
    /\ Goto(l, "lock") \/ UNCHANGED pc
    /\ UNCHANGED <<running, socketFd, fds, sendMutex, checkedFd, stray, aborted>>

LoopPassEnd(l) ==
    /\ At(l, "frames") /\ todo[l] = 0
    /\ Goto(l, "loop")
    /\ UNCHANGED <<running, socketFd, fds, sendVars, aborted>>

-----------------------------------------------------------------------------
(* The rest of the process opens and closes descriptors: the keyword       *)
(* server's connections, files, the log.                                   *)

OtherOpen ==
    /\ ~aborted
    /\ \E f \in Fds :
         /\ fds[f] = "free" /\ \A g \in Fds : g < f => fds[g] # "free"
         /\ fds' = [fds EXCEPT ![f] = "other"]
    /\ UNCHANGED <<running, socketFd, pc, sendVars, aborted>>

OtherClose ==
    /\ ~aborted
    /\ \E f \in Fds : fds[f] = "other" /\ fds' = [fds EXCEPT ![f] = "free"]
    /\ UNCHANGED <<running, socketFd, pc, sendVars, aborted>>

-----------------------------------------------------------------------------

StartStep(c) ==
    \/ OpenSocket(c) \/ Bind(c) \/ SetTimeouts(c) \/ SetRunning(c)
    \/ SpawnFails(c, "spawnRx") \/ SpawnFails(c, "spawnTx")
    \/ Assign(c, "rx", "spawnRx", "spawnTx")
    \/ Assign(c, "tx", "spawnTx", "idle")

StopStep(c) ==
    \/ JoinSkip(c, "rx", "joinRx", "joinTx")
    \/ Join(c, "rx", "joinRx", "joiningRx")
    \/ JoinEnd(c, "rx", "joiningRx", "joinTx")
    \/ JoinSkip(c, "tx", "joinTx", "close")
    \/ Join(c, "tx", "joinTx", "joiningTx")
    \/ JoinEnd(c, "tx", "joiningTx", "close")
    \/ CloseSocket(c) \/ ClearFd(c)

SendStep(t) == CheckClosed(t) \/ CheckOpen(t) \/ WriteFrame(t)

RxStep ==
    \/ LoopExit("rx") \/ RxNext \/ RxEnterRead
    \/ RxNoSync("reading") \/ RxSync("reading")
TxStep == LoopExit("tx") \/ TxNext
LoopStep(l) == LoopSend(l) \/ LoopPassEnd(l)

Next ==
    \/ \E c \in Controllers :
         StartBegin(c) \/ StopBegin(c) \/ StartStep(c) \/ StopStep(c)
    \/ \E s \in Senders : SendBegin(s)
    \/ \E t \in Threads : Acquire(t) \/ SendStep(t)
    \/ RxStep \/ RxArrival \/ TxStep
    \/ \E l \in Loops : LoopStep(l)
    \/ OtherOpen \/ OtherClose

(* A thread that can run does run, and a system call that blocks has a      *)
(* timeout (SO_RCVTIMEO, SO_SNDTIMEO, sleep_for), so every step of a call   *)
(* or loop is weakly fair, the end of a read without a timeout, RxArrival,  *)
(* excepted.  send_mutex_ is not a fair lock, but whoever held it then      *)
(* sleeps, reads the bus or answers its client, far longer than a wake-up   *)
(* takes, so a thread that keeps finding it free gets it.  No caller has to *)
(* begin anything.                                                          *)
Fairness ==
    /\ \A c \in Controllers : WF_vars(StartStep(c)) /\ WF_vars(StopStep(c))
    /\ \A t \in Threads : WF_vars(SendStep(t)) /\ SF_vars(Acquire(t))
    /\ WF_vars(RxStep) /\ WF_vars(TxStep)
    /\ \A l \in Loops : WF_vars(LoopStep(l))

Spec == Init /\ [][Next]_vars
FairSpec == Spec /\ Fairness

-----------------------------------------------------------------------------
(* Properties.  The first group is promised to a process whose calls of     *)
(* Start and Stop are not concurrent with each other (one controller), with *)
(* any number of threads sending; with two controllers they fail, and the   *)
(* module Node and the runs of MCNode say how and what then still holds.    *)

(* Every variable has its type, and send_mutex_ is held exactly by the      *)
(* thread between the lock and the end of SendRawFrame_.                    *)
TypeOK ==
    /\ running \in BOOLEAN /\ aborted \in BOOLEAN
    /\ socketFd \in Fds \cup {NoFd}
    /\ fds \in [Fds -> {"free", "new", "can", "other"}]
    /\ pc \in [Threads -> {"idle"} \cup ControlLabels \cup SendLabels \cup LoopLabels]
    /\ \A t \in Threads : pc[t] \in Labels(t)
    /\ sendMutex \in Threads \cup {Nobody}
    /\ \A t \in Threads : sendMutex = t <=> pc[t] \in {"check", "write"}
    /\ checkedFd \in [Threads -> Fds \cup {NoFd}]
    /\ todo \in [Loops -> Nat]
    /\ stray \subseteq Threads

(* As long as a loop executes, the descriptor it reads and writes is the    *)
(* transport's CAN socket, timeouts set: Stop joins both loops before it    *)
(* closes, and no failure path of Start runs after a loop exists.           *)
LoopsHoldSocket ==
    \A l \in Loops : Live(l) => socketFd \in Fds /\ fds[socketFd] = "can"

(* Once no Start or Stop is under way and the transport is not running,     *)
(* nothing is left of it: no loop (dead or alive) to join, no descriptor in *)
(* the field and no CAN socket open in the process, whichever of the four   *)
(* failure paths of Start was taken before.                                 *)
QuiescentStop ==
    ~running /\ (\A c \in Controllers : pc[c] \notin ControlLabels) =>
        /\ socketFd = NoFd
        /\ \A f \in Fds : ~IsSocket(f)
        /\ \A l \in Loops : pc[l] = "absent"

(* Start never assigns a thread over one that is still joinable, which is   *)
(* std::terminate, even after a Start that threw between the two spawns.    *)
NoAbort == ~aborted

(* Neither the loops nor the controlling thread do I/O on a descriptor that *)
(* belongs to another part of the process.                                  *)
StrayOnlyFromOutsiders == stray \subseteq Senders \ Controllers

(* close() in Stop and in Start's failure paths releases the transport's    *)
(* own CAN socket, never a number the process has meanwhile reused.         *)
ClosesItsOwnSocket ==
    [][\A c \in Controllers :
         pc[c] = "close" /\ pc'[c] # "close" => IsSocket(socketFd)]_vars

(* The parts of the invariant behind the five above.                        *)
NoLoops == \A l \in Loops : pc[l] = "absent"
NoCan   == \A f \in Fds : ~IsSocket(f)
NoTrace == socketFd = NoFd /\ NoCan /\ NoLoops

OwnsSocket ==
    /\ IsSocket(socketFd)
    /\ \A f \in Fds : IsSocket(f) => f = socketFd

HoldsSocket == OwnsSocket /\ fds[socketFd] = "can"

ControlInv(c) ==
    /\ pc[c] \in {"socket", "bind", "timeouts", "setRunning"} => ~running
    /\ pc[c] \in {"spawnRx", "spawnTx"} => running
    /\ pc[c] \in StopLabels \cup CloseLabels => ~running
    /\ pc[c] = "socket" => NoTrace
    /\ pc[c] \in (ControlLabels \ {"socket", "clearFd"}) => OwnsSocket
    /\ pc[c] \in {"setRunning", "spawnRx", "spawnTx"} \cup StopLabels => HoldsSocket
    /\ pc[c] \in {"bind", "timeouts", "setRunning", "spawnRx"} \cup CloseLabels => NoLoops
    /\ pc[c] = "spawnTx" => pc["tx"] = "absent"
    /\ pc[c] \in {"joinTx", "joiningTx"} => pc["rx"] = "absent"
    /\ pc[c] = "clearFd" => socketFd \in Fds /\ NoCan

QuietInv ==
    (\A c \in Controllers : pc[c] \notin ControlLabels) =>
        IF running THEN HoldsSocket ELSE NoTrace

(* No two threads are inside Start or Stop at once, and what then holds,    *)
(* whoever calls next: it takes one caller at a time, not one caller.       *)
NoOverlap ==
    \A c, d \in Controllers : {pc[c], pc[d]} \subseteq ControlLabels => c = d

(* "Keep blocking syscalls interruptible so Stop() can complete promptly":  *)
(* the receive loop is never inside a read that has no timeout.  It holds   *)
(* as long as no two calls of Start or Stop overlap; when two do, the loop  *)
(* of one Start reads the socket another has stored and not yet configured. *)
ReadsInterruptible == pc["rx"] # "blocked"

ControlCore ==
    /\ NoAbort /\ ReadsInterruptible /\ QuietInv
    /\ \A c \in Controllers : ControlInv(c)

SendInv ==
    \A t \in Loops \cup Controllers : pc[t] = "write" => checkedFd[t] = socketFd

(* Why the five above hold: where the one controller is in Start or Stop    *)
(* decides which loops, descriptors and field values may exist, a failed    *)
(* spawn leaves a running transport that Stop can still take down, the      *)
(* receive loop only reads a socket whose timeout is set, and a loop or the *)
(* controller inside SendRawFrame_ has tested the number that is there when *)
(* it writes.                                                               *)
SerialInv == ControlCore /\ SendInv /\ StrayOnlyFromOutsiders

(* The point of the timeouts, "so Stop() can complete promptly":            *)
(* a Stop that has cleared running_ comes back, whatever is sent meanwhile. *)
StopCompletes ==
    \A c \in Controllers : pc[c] = "joinRx" ~> pc[c] = "idle"

(* How the transport's state is read as one of TransportLifecycle: the      *)
(* socket counts as open while the field names an open CAN socket.          *)
Phase ==
    IF running THEN "running"
    ELSE IF \E c \in Controllers : pc[c] \in StopLabels \cup {"close"}
         THEN "stopping"
    ELSE IF \E c \in Controllers : pc[c] \in {"bind", "timeouts", "setRunning"}
         THEN "starting" ELSE "stopped"

Lifecycle == INSTANCE TransportLifecycle WITH
    phase <- Phase,
    live  <- {l \in Loops : Live(l)},
    sock  <- IF IsSocket(socketFd) THEN "open" ELSE "closed"

(* With one controller the transport implements TransportLifecycle: loops   *)
(* run only between the opening and the closing of the socket, a Start that *)
(* fails is undone, and a Stop that has begun ends.                         *)
ImplementsLifecycle == Lifecycle!FairSpec

(* No thread does I/O on a descriptor of another part of the process ("code *)
(* is thread-safe").  It fails: a sender tests socket_fd_ under send_mutex_ *)
(* while Start's failure paths and Stop close it without that lock, so the  *)
(* number may be reused before write().                                     *)
NoStrayFrames == stray = {}

=============================================================================
