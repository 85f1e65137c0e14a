---------------------------- MODULE TxLoop_proofs ----------------------------
(* Proofs about TxLoop, for any workers, items, periods and commands.       *)
EXTENDS TxLoop, TLAPS

(* There is a longest period, and an item's period is one of its own.       *)
LEMMA Periods ==
    /\ MaxPeriod \in Nat /\ \A x \in Items : Period[x] \in Nat \ {0}
    /\ \A x \in Items : Period[x] <= MaxPeriod
    /\ "hb" \in Items /\ AsyncPdos \subseteq Items
<1>1. \A x \in Items : Period[x] \in Nat \ {0}
  BY TxAssumption
<1>2. PICK x \in Items : \A y \in Items : Period[y] <= Period[x]
  BY TxAssumption
<1> DEFINE Longest(n) == \A y \in Items : Period[y] <= n
           Values == {Period[y] : y \in Items}
<1>3. Period[x] \in Values /\ Longest(Period[x])
  BY <1>2
<1>4. MaxPeriod \in Values /\ Longest(MaxPeriod)
  <2> HIDE DEF Longest, Values
  <2>1. (CHOOSE n \in Values : Longest(n)) \in Values
        /\ Longest(CHOOSE n \in Values : Longest(n))
    BY <1>3
  <2>2. MaxPeriod = CHOOSE n \in Values : Longest(n)
    BY DEF MaxPeriod, Longest, Values
  <2> QED
    BY <2>1, <2>2
<1> QED
  BY <1>1, <1>4 DEF Items

LEMMA CommandStates == \A command : NmtCommandToState(command) \in Byte
BY DEF NmtCommandToState, Byte

(* The types, and the loop's program counter agrees with what is pending.   *)
THEOREM TypeCorrect == Spec => []TypeOK
<1> USE Periods DEF Byte
<1>1. Init => TypeOK
  <2> SUFFICES ASSUME Init PROVE TypeOK
    OBVIOUS
  <2> USE DEF Init, PreOperational
  <2>1. Period \in [Items -> Nat]
    BY TxAssumption
  <2>2. dueIn \in [Items -> Nat] /\ passAge \in [Items -> Nat]
    BY <2>1
  <2>3. exposed \in BOOLEAN
    BY Zenon
  <2>4. requested \in Byte /\ nmtState \in Byte
        /\ txState \in Byte /\ lastHeartbeat \in Byte
    OBVIOUS
  <2>5. /\ pc \in [Workers -> {"idle", "cmdStore", "hbSend"}]
        /\ arg \in [Workers -> Byte]
    OBVIOUS
  <2>6. elapsed \in 0 .. MaxPeriod
    OBVIOUS
  <2> QED
    BY <2>2, <2>3, <2>4, <2>5, <2>6 DEF TypeOK
<1>2. TypeOK /\ [Next]_vars => TypeOK'
  <2> SUFFICES ASSUME TypeOK, [Next]_vars PROVE TypeOK'
    OBVIOUS
  <2> USE DEF TypeOK, txVars, callVars
  <2>1. ASSUME NEW w \in Workers, CommandSend(w) PROVE TypeOK'
    <3> PICK command \in Commands :
          /\ arg' = [arg EXCEPT ![w] = NmtCommandToState(command)]
          /\ busCommands' = busCommands \cup {command}
      BY <2>1 DEF CommandSend
    <3> NmtCommandToState(command) \in 0 .. 255
      BY CommandStates
    <3> QED
      BY <2>1 DEF CommandSend
  <2>2. ASSUME NEW w \in Workers, CommandStore(w) PROVE TypeOK'
    BY <2>2 DEF CommandStore, StoreForKeyword
  <2>3. ASSUME NEW w \in Workers, HeartbeatStore(w) PROVE TypeOK'
    BY <2>3, TxAssumption DEF HeartbeatStore, StoreForKeyword
  <2>4. ASSUME NEW w \in Workers, HeartbeatSend(w) PROVE TypeOK'
    BY <2>4 DEF HeartbeatSend
  <2>5. CASE TxPass
    BY <2>5 DEF TxPass, Due
  <2>6. CASE TxLoad \/ TxStore \/ TxSleep
    BY <2>6 DEF TxLoad, TxStore, TxSleep
  <2>7. ASSUME NEW ok \in BOOLEAN, TxSend(ok) PROVE TypeOK'
    BY <2>7 DEF TxSend, Rearm, AtLeast0, Capped
  <2>8. ASSUME NEW x \in AsyncPdos, TxTpdo(x) PROVE TypeOK'
    BY <2>8 DEF TxTpdo, Rearm, AtLeast0, Capped
  <2>9. CASE Tick
    BY <2>9 DEF Tick, AtLeast0, Capped
  <2>10. CASE UNCHANGED vars
    BY <2>10 DEF vars
  <2> QED
    BY <2>1, <2>2, <2>3, <2>4, <2>5, <2>6, <2>7, <2>8, <2>9, <2>10
    DEF Next, TxStep, CallStep
<1> QED
  BY <1>1, <1>2, PTL DEF Spec

-----------------------------------------------------------------------------
(* The states that are on their way: a call that has begun carries one that *)
(* its frame or its keyword has already accounted for.                      *)
SourceInv == NoStateFromNowhere /\ \A w \in Workers : arg[w] \in Sources

(* The node is in no state but its first, one a Send Heartbeat named, or    *)
(* one of a command frame that was written.                                 *)
THEOREM NoStateFromNowhereHolds == Spec => []NoStateFromNowhere
<1>1. Init => SourceInv
  BY DEF Init, SourceInv, NoStateFromNowhere, Sources
<1>2. TypeOK /\ SourceInv /\ [Next]_vars => SourceInv'
  <2> SUFFICES ASSUME TypeOK, SourceInv, [Next]_vars PROVE SourceInv'
    OBVIOUS
  <2> USE DEF TypeOK, SourceInv, NoStateFromNowhere, txVars, callVars
  <2>1. ASSUME NEW w \in Workers, CommandSend(w) PROVE SourceInv'
    <3> PICK command \in Commands :
          /\ arg' = [arg EXCEPT ![w] = NmtCommandToState(command)]
          /\ busCommands' = busCommands \cup {command}
      BY <2>1 DEF CommandSend
    <3>1. Sources \subseteq Sources' /\ NmtCommandToState(command) \in Sources'
      BY <2>1 DEF CommandSend, Sources
    <3> QED
      BY <2>1, <3>1 DEF CommandSend
  <2>2. ASSUME NEW w \in Workers, HeartbeatStore(w) PROVE SourceInv'
    <3>1. Sources \subseteq Sources' /\ nmtState' \in Sources'
          /\ arg' = [arg EXCEPT ![w] = nmtState']
      BY <2>2 DEF HeartbeatStore, StoreForKeyword, Sources
    <3> QED
      BY <2>2, <3>1 DEF HeartbeatStore
  <2>3. CASE UNCHANGED <<busCommands, announced, arg>>
    <3>1. Sources' = Sources
      BY <2>3 DEF Sources
    <3>2. {nmtState', txState', lastHeartbeat'}
             \subseteq {nmtState, txState, lastHeartbeat} \cup {arg[w] : w \in Workers}
      BY <2>3
      DEF Next, TxStep, CallStep, CommandSend, CommandStore, StoreForKeyword,
          HeartbeatStore, HeartbeatSend, TxPass, TxLoad, TxStore, TxSend, TxTpdo,
          TxSleep, Tick, vars
    <3> QED
      BY <2>3, <3>1, <3>2
  <2> QED
    BY <2>1, <2>2, <2>3
    DEF Next, TxStep, CallStep, CommandStore, HeartbeatSend, TxPass, TxLoad,
        TxStore, TxSend, TxTpdo, TxSleep, Tick, vars
<1>3. SourceInv => NoStateFromNowhere
  BY DEF SourceInv
<1> QED
  BY <1>1, <1>2, <1>3, TypeCorrect, PTL DEF Spec

-----------------------------------------------------------------------------
(* As long as the overlap has not happened, what the loop has loaded and    *)
(* will store back is the state asked for last.                             *)
KeptInv ==
    ~exposed => nmtState = requested /\ (txPc = "store" => txState = requested)

(* A keyword's state is lost only if a heartbeat had loaded before it was   *)
(* stored.                                                                  *)
THEOREM KeptUnlessExposedHolds == Spec => []KeptUnlessExposed
<1>1. Init => KeptInv
  BY DEF Init, KeptInv
<1>2. TypeOK /\ KeptInv /\ [Next]_vars => KeptInv'
  <2> SUFFICES ASSUME TypeOK, KeptInv, [Next]_vars PROVE KeptInv'
    OBVIOUS
  <2> USE DEF TypeOK, KeptInv, txVars, callVars
  <2>1. ASSUME NEW w \in Workers, CommandStore(w) \/ HeartbeatStore(w) PROVE KeptInv'
    BY <2>1 DEF CommandStore, HeartbeatStore, StoreForKeyword
  <2>2. ASSUME NEW w \in Workers, CommandSend(w) \/ HeartbeatSend(w) PROVE KeptInv'
    BY <2>2 DEF CommandSend, HeartbeatSend
  <2>3. CASE TxLoad \/ TxStore
    BY <2>3 DEF TxLoad, TxStore
  <2>4. CASE TxPass \/ TxSleep \/ Tick \/ UNCHANGED vars
    BY <2>4 DEF TxPass, TxSleep, Tick, vars
  <2>5. ASSUME NEW ok \in BOOLEAN, TxSend(ok) PROVE KeptInv'
    BY <2>5 DEF TxSend
  <2>6. ASSUME NEW x \in AsyncPdos, TxTpdo(x) PROVE KeptInv'
    BY <2>6 DEF TxTpdo
  <2> QED
    BY <2>1, <2>2, <2>3, <2>4, <2>5, <2>6 DEF Next, TxStep, CallStep
<1>3. TypeOK /\ KeptInv => KeptUnlessExposed
  BY DEF TypeOK, KeptInv, KeptUnlessExposed
<1> QED
  BY <1>1, <1>2, <1>3, TypeCorrect, PTL DEF Spec

-----------------------------------------------------------------------------
(* An item's age and the time left until it is due make up its period at    *)
(* least: the due time is never set from anything but the pass's clock.     *)
AgeInv ==
    \A x \in Items : passAge[x] <= Period[x] /\ Period[x] <= passAge[x] + dueIn[x]

(* Two passes that take up the same item are a period apart, failed sends   *)
(* and late passes included.                                                *)
THEOREM NoBurstHolds == Spec => NoBurst
<1> USE Periods
<1>1. Init => AgeInv
  BY DEF Init, AgeInv
<1>2. TypeOK /\ AgeInv /\ [Next]_vars => AgeInv'
  <2> SUFFICES ASSUME TypeOK, AgeInv, [Next]_vars PROVE AgeInv'
    OBVIOUS
  <2> USE DEF TypeOK, AgeInv, txVars, callVars
  <2>1. ASSUME NEW x \in Items, Rearm(x) PROVE AgeInv'
    BY <2>1 DEF Rearm, AtLeast0, Capped
  <2>2. CASE Tick
    BY <2>2 DEF Tick, AtLeast0, Capped
  <2>3. CASE UNCHANGED <<dueIn, passAge>>
    BY <2>3
  <2> QED
    BY <2>1, <2>2, <2>3
    DEF Next, TxStep, CallStep, CommandSend, CommandStore, HeartbeatStore,
        HeartbeatSend, TxPass, TxLoad, TxStore, TxSend, TxTpdo, TxSleep, vars
<1>3. TypeOK /\ AgeInv /\ [Next]_vars =>
        [\A x \in Items : x \in pending' \ pending => passAge[x] = Period[x]]_vars
  <2> SUFFICES ASSUME TypeOK, AgeInv, [Next]_vars,
                      NEW x \in Items, x \in pending' \ pending
               PROVE  passAge[x] = Period[x]
    OBVIOUS
  <2>1. dueIn[x] = 0
    BY DEF Next, TxStep, CallStep, CommandSend, CommandStore, HeartbeatStore,
       HeartbeatSend, TxPass, TxLoad, TxStore, TxSend, TxTpdo, TxSleep, Tick,
       Rearm, Due, vars, txVars, callVars
  <2> QED
    BY <2>1 DEF TypeOK, AgeInv
<1> QED
  BY <1>1, <1>2, <1>3, TypeCorrect, PTL DEF Spec, NoBurst

=============================================================================
