----------------------------- MODULE PdoExchange -----------------------------
(***************************************************************************)
(* The data path: received frames are dispatched and decoded into the      *)
(* object dictionary, keywords write it, TPDOs are encoded out of it.      *)
(*                                                                         *)
(* CanNodeSimulator locks its mutex once per entry, so a PDO of several    *)
(* signals is read or written one signal at a time, and the receive        *)
(* thread, the transmit loop and the keyword workers meet in between.      *)
(*                                                                         *)
(* A value is its std::variant alternative with a number; a byte has       *)
(* ByteBase values.  Texts, reals and names carry no number that matters.  *)
(***************************************************************************)
EXTENDS Integers, Sequences, FiniteSets

CONSTANTS
    Senders,   \* threads other than RxLoop_ that call SendTpdo
    Entries,   \* keys of the object dictionary
    TypeOf,    \* class of an entry's data_type
    AccessOf,  \* an entry's access_type
    Rpdos, Tpdos,  \* numbers of the receive and transmit PDOs
    SignalsOf, \* per PDO <<direction, number>>: its mapped signals
    CobIdOf,   \* per receive PDO: the COB-ID built from the dictionary
    SyncTpdos, \* TPDOs of transmission type 1..240
    ByteBase,  \* 256 in the code
    Payloads,  \* the data of received frames
    Ids,       \* the identifiers of received frames
    Texts,     \* the numbers keywords write
    MaxSnaps   \* bound: values a PDO takes while one call encodes it

MaxDataLen == 8
Threads    == Senders \cup {"rx"}
Mapping(p) == SignalsOf[p]
Receive(n)  == <<"receive", n>>
Transmit(n) == <<"transmit", n>>
Pdos == {Receive(n) : n \in Rpdos} \cup {Transmit(n) : n \in Tpdos}

ASSUME PdoAssumption ==
    /\ "rx" \notin Senders
    /\ TypeOf \in [Entries -> {"bool", "int", "uint", "real", "text", "unknown"}]
    /\ AccessOf \in [Entries -> {"ro", "rw", "wo", "const", "unknown"}]
    /\ Rpdos \subseteq 1 .. 512 /\ Tpdos \subseteq 1 .. 512
    /\ SyncTpdos \subseteq Tpdos
    /\ \A p \in Pdos :
         /\ Mapping(p) \in Seq({Mapping(p)[o] : o \in DOMAIN Mapping(p)})
         /\ \A o \in DOMAIN Mapping(p) : Mapping(p)[o].bits \in Nat
    /\ ByteBase \in Nat \ {0, 1} /\ MaxSnaps \in Nat \ {0}
    /\ Payloads \subseteq Seq(0 .. ByteBase - 1) /\ Texts \subseteq Int

VARIABLES
    od,       \* dictionary_: the value of each entry
    pc,       \* idle, decode or encode, and for "rx" sync
    pdo,      \* the PDO a thread is working on
    ordinal,  \* the signal it is at
    bytes,    \* what is left to decode, or what is encoded so far
    syncTodo, \* TPDOs the receive thread has still to send for a SYNC
    frame,    \* the data of the frame being decoded
    intact,   \* history: no keyword has written since its decoding began
    snaps     \* history: the values a PDO being encoded has had in the call

vars == <<od, pc, pdo, ordinal, bytes, syncTodo, frame, intact, snaps>>

-----------------------------------------------------------------------------
(* Values and conversions.                                                 *)

NoValue == [alt |-> "none", n |-> 0]

Compatible(type, v) ==
    v.alt = "none" \/ type = "unknown" \/ v.alt = type

IsInteger(v) == v.alt \in {"uint", "bool"} \/ (v.alt = "int" /\ v.n >= 0)

(* What a shift by e bytes multiplies or divides by.                        *)
Power[e \in Nat] == IF e = 0 THEN 1 ELSE ByteBase * Power[e - 1]

WordRange == Power[8]

(* What ParseValue_ makes of a text, where it does not throw: stoull takes  *)
(* a minus sign and wraps, an entry of unknown type gets the text itself.   *)
Parsed(type) ==
    CASE type = "bool"    -> {[alt |-> "bool", n |-> b] : b \in Texts \cap {0, 1}}
      [] type = "uint"    -> {[alt |-> "uint", n |-> u % WordRange] : u \in Texts}
      [] type = "unknown" -> {[alt |-> "text", n |-> 0]}
      [] type \in {"real", "text"} -> {[alt |-> type, n |-> 0]}
      [] OTHER            -> {[alt |-> "int", n |-> i] : i \in Texts}

Width(signal)   == signal.bits \div 8
Aligned(signal) == signal.bits % 8 = 0

ToBytes(n, width) ==
    [i \in 1 .. width |-> (n \div Power[i - 1]) % ByteBase]

(* raw after each pass of the loop over the bytes of a signal.              *)
PartialSums(bs) ==
    LET sum[i \in 0 .. Len(bs)] ==
          IF i = 0 THEN 0 ELSE sum[i - 1] + bs[i] * Power[i - 1]
    IN  sum

FromBytes(bs) == PartialSums(bs)[Len(bs)]

Writable(k) == AccessOf[k] \notin {"ro", "const"}

(* The values a PDO's entries have at one instant, and their bytes.         *)
ValuesOf(dictionary, p) ==
    [o \in 1 .. Len(Mapping(p)) |->
        LET k == Mapping(p)[o].key
        IN  IF k \in Entries THEN dictionary[k] ELSE NoValue]

(* At start-up an entry has no value, one parsed for its type, or what a    *)
(* PDO override left: an unsigned number, whatever the entry's type.        *)
InitialValues(k) == {NoValue} \cup Parsed(TypeOf[k]) \cup Parsed("uint")

Init ==
    /\ od \in [Entries -> UNION {InitialValues(k) : k \in Entries}]
    /\ \A k \in Entries : od[k] \in InitialValues(k)
    /\ pc = [t \in Threads |-> "idle"]
    /\ pdo = [t \in Threads |-> <<>>]
    /\ ordinal = [t \in Threads |-> 1]
    /\ bytes = [t \in Threads |-> <<>>]
    /\ syncTodo = {}
    /\ frame = <<>> /\ intact = TRUE
    /\ snaps = [t \in Threads |-> {}]

-----------------------------------------------------------------------------
(* Every write goes through here, and every call that encodes sees it.      *)

Store(k, v) ==
    /\ od' = [od EXCEPT ![k] = v]
    /\ snaps' = [t \in Threads |->
                    IF pc[t] = "encode" THEN snaps[t] \cup {ValuesOf(od', pdo[t])}
                    ELSE {}]
    /\ \A t \in Threads : Cardinality(snaps'[t]) <= MaxSnaps

(* The thread's call is over; the receive thread goes on with its SYNC.     *)
Finish(t) ==
    /\ pc' = [pc EXCEPT ![t] = IF t = "rx" /\ syncTodo # {} THEN "sync" ELSE "idle"]
    /\ pdo' = [pdo EXCEPT ![t] = <<>>]
    /\ ordinal' = [ordinal EXCEPT ![t] = 1]
    /\ bytes' = [bytes EXCEPT ![t] = <<>>]

Advance(t, rest) ==
    /\ ordinal' = [ordinal EXCEPT ![t] = @ + 1]
    /\ bytes' = [bytes EXCEPT ![t] = rest]
    /\ UNCHANGED <<pc, pdo>>

(* Seeded fault: the text is stored as it is, without parsing it.          *)
KeywordWriteUnparsed(k) ==
    /\ Writable(k)
    /\ \E v \in Parsed("text") : Store(k, v)
    /\ intact' = (pc["rx"] # "decode")
    /\ UNCHANGED <<pc, pdo, ordinal, bytes, syncTodo, frame>>

(* Keywords Write OD and Write PDO Signal: the entry's type is read, the    *)
(* text parsed for it, and the entry written unless its access forbids it.  *)
(* Types and mappings never change while the server runs, so the two lock   *)
(* holds are one step here; module Keywords takes them apart.               *)
KeywordWrite(k) ==
    /\ Writable(k)
    /\ \E v \in Parsed(TypeOf[k]) : Compatible(TypeOf[k], v) /\ Store(k, v)
    /\ intact' = (pc["rx"] # "decode")
    /\ UNCHANGED <<pc, pdo, ordinal, bytes, syncTodo, frame>>

-----------------------------------------------------------------------------
(* HandleFrame_ with the map the constructor built: of two receive PDOs     *)
(* with one identifier the later definition stays.                          *)

SyncId == 128

ByCobId(id) ==
    {n \in Rpdos : /\ CobIdOf[n] % 2048 = id
                   /\ \A m \in Rpdos : CobIdOf[m] % 2048 = id => m <= n}

IsHeartbeat(id) == id \div 128 = 14
IsEmcy(id)      == id \div 128 = 1

FrameSync(id) ==
    /\ pc["rx"] = "idle" /\ id = SyncId /\ SyncTpdos # {}
    /\ syncTodo' = SyncTpdos
    /\ pc' = [pc EXCEPT !["rx"] = "sync"]
    /\ UNCHANGED <<od, pdo, ordinal, bytes, frame, intact, snaps>>

(* Seeded fault: all eight bytes of the frame are taken, whatever its dlc. *)
FrameRpdoIgnoresDlc(id) ==
    /\ pc["rx"] = "idle"
    /\ ~IsHeartbeat(id) /\ ~IsEmcy(id)
    /\ \E n \in ByCobId(id), data \in Payloads :
         /\ pdo' = [pdo EXCEPT !["rx"] = Receive(n)]
         /\ bytes' = [bytes EXCEPT !["rx"] =
                        [i \in 1 .. MaxDataLen |-> IF i <= Len(data) THEN data[i] ELSE 0]]
         /\ frame' = data
    /\ pc' = [pc EXCEPT !["rx"] = "decode"]
    /\ UNCHANGED <<od, ordinal, syncTodo, intact, snaps>>

(* Heartbeat and EMCY frames are only logged, other unknown ones ignored.   *)
FrameRpdo(id) ==
    /\ pc["rx"] = "idle"
    /\ ~IsHeartbeat(id) /\ ~IsEmcy(id)
    /\ \E n \in ByCobId(id), data \in Payloads :
         /\ pdo' = [pdo EXCEPT !["rx"] = Receive(n)]
         /\ bytes' = [bytes EXCEPT !["rx"] = data]
         /\ frame' = data
    /\ pc' = [pc EXCEPT !["rx"] = "decode"]
    /\ UNCHANGED <<od, ordinal, syncTodo, intact, snaps>>

(* DecodePdoPayload, one signal: the tests in the code's order.             *)
Signal(t)     == Mapping(pdo[t])[ordinal[t]]
HasSignal(t)  == ordinal[t] <= Len(Mapping(pdo[t]))
Raw(t)        == FromBytes(SubSeq(bytes[t], 1, Width(Signal(t))))
RawValue(t)   == [alt |-> "uint", n |-> Raw(t)]

(* Seeded fault: the type is not looked at.                                *)
RefusalAnyType(t) ==
    LET s == Signal(t)
    IN  CASE ~Aligned(s)               -> "unaligned"
          [] Width(s) > Len(bytes[t])  -> "short"
          [] s.key \notin Entries      -> "missing"
          [] ~Writable(s.key)          -> "protected"
          [] OTHER                     -> "ok"

Refusal(t) ==
    LET s == Signal(t)
    IN  CASE ~Aligned(s)               -> "unaligned"
          [] Width(s) > Len(bytes[t])  -> "short"
          [] s.key \notin Entries      -> "missing"
          [] ~Writable(s.key)          -> "protected"
          [] ~Compatible(TypeOf[s.key], RawValue(t)) -> "type"
          [] OTHER                     -> "ok"

(* Seeded fault: the cursor stays at the first byte.                       *)
DecodeSignalNoCursor ==
    /\ pc["rx"] = "decode" /\ HasSignal("rx") /\ Refusal("rx") = "ok"
    /\ Store(Signal("rx").key, RawValue("rx"))
    /\ Advance("rx", bytes["rx"])
    /\ UNCHANGED <<syncTodo, frame, intact>>

DecodeSignal ==
    /\ pc["rx"] = "decode" /\ HasSignal("rx") /\ Refusal("rx") = "ok"
    /\ Store(Signal("rx").key, RawValue("rx"))
    /\ Advance("rx", SubSeq(bytes["rx"], Width(Signal("rx")) + 1, Len(bytes["rx"])))
    /\ UNCHANGED <<syncTodo, frame, intact>>

(* The exception is logged; the signals already written stay written.       *)
DecodeLeave ==
    /\ Finish("rx")
    /\ frame' = <<>> /\ intact' = TRUE
    /\ UNCHANGED <<od, syncTodo, snaps>>

DecodeThrows ==
    /\ pc["rx"] = "decode" /\ HasSignal("rx") /\ Refusal("rx") # "ok"
    /\ DecodeLeave

DecodeEnd ==
    /\ pc["rx"] = "decode" /\ ~HasSignal("rx")
    /\ DecodeLeave

-----------------------------------------------------------------------------
(* SendTpdo: by keyword, by the transmit loop, and for a SYNC.              *)

EncodeBegin(t, n) ==
    /\ pc' = [pc EXCEPT ![t] = "encode"]
    /\ pdo' = [pdo EXCEPT ![t] = Transmit(n)]
    /\ snaps' = [snaps EXCEPT ![t] = {ValuesOf(od, Transmit(n))}]
    /\ UNCHANGED <<od, ordinal, bytes, frame, intact>>

SendTpdo(t) ==
    /\ pc[t] = "idle"
    /\ \E n \in Tpdos : EncodeBegin(t, n)
    /\ UNCHANGED syncTodo

SendSynchronousTpdo ==
    /\ pc["rx"] = "sync"
    /\ \E n \in syncTodo :
         /\ EncodeBegin("rx", n)
         /\ syncTodo' = syncTodo \ {n}

SignalEncodes(t) ==
    /\ Aligned(Signal(t)) /\ Signal(t).key \in Entries
    /\ IsInteger(od[Signal(t).key])

(* Seeded fault: the last signal goes first.                               *)
EncodeSignalPrepends(t) ==
    /\ pc[t] = "encode" /\ HasSignal(t) /\ SignalEncodes(t)
    /\ Advance(t, ToBytes(od[Signal(t).key].n, Width(Signal(t))) \o bytes[t])
    /\ UNCHANGED <<od, syncTodo, frame, intact, snaps>>

EncodeSignal(t) ==
    /\ pc[t] = "encode" /\ HasSignal(t) /\ SignalEncodes(t)
    /\ Advance(t, bytes[t] \o ToBytes(od[Signal(t).key].n, Width(Signal(t))))
    /\ UNCHANGED <<od, syncTodo, frame, intact, snaps>>

EncodeLeave(t) ==
    /\ Finish(t)
    /\ snaps' = [snaps EXCEPT ![t] = {}]
    /\ UNCHANGED <<od, syncTodo, frame, intact>>

EncodeThrows(t) ==
    /\ pc[t] = "encode"
    /\ IF HasSignal(t) THEN ~SignalEncodes(t) ELSE Len(bytes[t]) > MaxDataLen
    /\ EncodeLeave(t)

(* The payload goes to SendRawFrame_.                                      *)
ReadyToSend(t) ==
    pc[t] = "encode" /\ ~HasSignal(t) /\ Len(bytes[t]) <= MaxDataLen

EncodeEnd(t) == ReadyToSend(t) /\ EncodeLeave(t)

-----------------------------------------------------------------------------

RxStep ==
    \/ DecodeSignal \/ DecodeThrows \/ DecodeEnd \/ SendSynchronousTpdo
EncodeStep(t) == EncodeSignal(t) \/ EncodeThrows(t) \/ EncodeEnd(t)

Next ==
    \/ \E id \in Ids : FrameSync(id) \/ FrameRpdo(id)
    \/ RxStep
    \/ \E t \in Senders : SendTpdo(t)
    \/ \E t \in Threads : EncodeStep(t)
    \/ \E k \in Entries : KeywordWrite(k)

Spec == Init /\ [][Next]_vars

-----------------------------------------------------------------------------
(* Properties.                                                             *)

Alternatives == {"none", "bool", "int", "uint", "real", "text"}
Bytes == 0 .. ByteBase - 1

FitsOrOverridden(k, v) == Compatible(TypeOf[k], v) \/ v.alt = "uint"

(* Types; every entry's value fits its declared type or is the unsigned     *)
(* number of a PDO override; an idle thread keeps nothing of its last call. *)
TypeOK ==
    /\ od \in [Entries -> [alt : Alternatives, n : Int]]
    /\ \A k \in Entries : FitsOrOverridden(k, od[k])
    /\ pc \in [Threads -> {"idle", "encode", "decode", "sync"}]
    /\ \A s \in Senders : pc[s] \in {"idle", "encode"}
    /\ pdo \in [Threads -> Pdos \cup {<<>>}]
    /\ ordinal \in [Threads -> Nat \ {0}]
    /\ bytes \in [Threads -> Seq(Bytes)]
    /\ \A t \in Threads :
         IF pc[t] \in {"idle", "sync"}
         THEN pdo[t] = <<>> /\ ordinal[t] = 1 /\ bytes[t] = <<>>
         ELSE pdo[t] \in Pdos /\ ordinal[t] <= Len(Mapping(pdo[t])) + 1
    /\ frame \in Seq(Bytes) /\ intact \in BOOLEAN
    /\ pc["rx"] # "decode" => frame = <<>> /\ intact
    /\ syncTodo \subseteq SyncTpdos
    /\ syncTodo # {} => pc["rx"] \in {"sync", "encode"}
    /\ DOMAIN snaps = Threads

(* Once the server runs no path, keyword or received frame, changes an      *)
(* entry declared ro or const, or leaves a value that does not fit the      *)
(* entry's type: the one an override left there is the only exception.      *)
WritesAreChecked ==
    [][\A k \in Entries : od'[k] # od[k] =>
          Writable(k) /\ Compatible(TypeOf[k], od'[k])]_vars

(* Bytes of the first o signals of a PDO.                                   *)
Offsets(p) ==
    LET total[o \in 0 .. Len(Mapping(p))] ==
          IF o = 0 THEN 0 ELSE total[o - 1] + Width(Mapping(p)[o])
    IN  total

Before(p, o) == Offsets(p)[o]

(* A received frame changes an entry only from bytes that are in it: the    *)
(* signals beyond a short frame keep their values.                          *)
NothingBeyondPayload ==
    [][\A k \in Entries :
         ordinal'["rx"] # ordinal["rx"] /\ od'[k] # od[k] =>
            \E o \in 1 .. Len(Mapping(pdo["rx"])) :
                /\ Mapping(pdo["rx"])[o].key = k
                /\ Before(pdo["rx"], o) <= Len(frame)]_vars

(* Encoding the entries of the first n signals gives back the bytes of the  *)
(* frame, signal by signal; an entry mapped twice has the last of them.     *)
Delivered(n) ==
    LET p == pdo["rx"]
        m == Mapping(p)
    IN  \A o \in 1 .. n :
            (\A q \in o + 1 .. n : m[q].key # m[o].key) =>
                /\ Before(p, o) <= Len(frame)
                /\ ToBytes(od[m[o].key].n, Width(m[o])) =
                     SubSeq(frame, Before(p, o - 1) + 1, Before(p, o))

(* A frame decoded to its end is in the dictionary, unless a keyword wrote  *)
(* meanwhile.                                                               *)
DecodeDelivers ==
    pc["rx"] = "decode" /\ ~HasSignal("rx") /\ intact =>
        Delivered(Len(Mapping(pdo["rx"])))

(* The bytes of the first o of a PDO's values, all taken at once.           *)
Encodings(p, values) ==
    LET cat[o \in 0 .. Len(Mapping(p))] ==
          IF o = 0 THEN <<>>
          ELSE cat[o - 1] \o ToBytes(values[o].n, Width(Mapping(p)[o]))
    IN  cat

EncodesTo(p, values, bs) ==
    /\ \A o \in 1 .. Len(Mapping(p)) : IsInteger(values[o])
    /\ bs = Encodings(p, values)[Len(Mapping(p))]

(* A TPDO whose entries keep their values for the length of the call is     *)
(* sent with exactly them.  Nothing is said of a call that a write met:     *)
(* its payload may mix values from before and after that write.             *)
SnapshotUnlessOverlapped ==
    \A t \in Threads :
        ReadyToSend(t) /\ Cardinality(snaps[t]) = 1 =>
            \A values \in snaps[t] : EncodesTo(pdo[t], values, bytes[t])

(* Half-way through a frame, what is left of it starts where the decoded    *)
(* signals end, and these are in the dictionary unless a keyword wrote.     *)
FrameInv ==
    pc["rx"] = "decode" =>
        LET p == pdo["rx"]
            n == ordinal["rx"] - 1
        IN  /\ \A o \in 1 .. n : Mapping(p)[o].key \in Entries
            /\ Before(p, n) <= Len(frame)
            /\ bytes["rx"] = SubSeq(frame, Before(p, n) + 1, Len(frame))
            /\ intact => Delivered(n)

(* Half-way through a TPDO, the dictionary is the last it has seen, and if  *)
(* it has seen one only, that one's first values are in the payload.        *)
SnapInv ==
    \A t \in Threads : pc[t] = "encode" =>
        LET v == ValuesOf(od, pdo[t])
            n == ordinal[t] - 1
        IN  /\ IsFiniteSet(snaps[t]) /\ v \in snaps[t]
            /\ Cardinality(snaps[t]) = 1 =>
                 /\ \A o \in 1 .. n : IsInteger(v[o])
                 /\ bytes[t] = Encodings(pdo[t], v)[n]

(* What DecodeDelivers and SnapshotUnlessOverlapped rest on while a call is *)
(* under way: every step keeps it.                                          *)
ExchangeInv == FrameInv /\ SnapInv

(* "RPDO decode to OD": no signal of an integer or Boolean entry is refused *)
(* for its type.  It fails: every signal is written as an unsigned value,   *)
(* which value_is_compatible refuses for signed and Boolean entries.        *)
IntegerRpdoDecodes ==
    pc["rx"] = "decode" /\ HasSignal("rx") /\ Refusal("rx") = "type" =>
        TypeOf[Signal("rx").key] \notin {"uint", "int", "bool"}

=============================================================================
