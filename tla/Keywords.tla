------------------------------ MODULE Keywords ------------------------------
(***************************************************************************)
(* A keyword from the arguments of the remote server to its answer: the    *)
(* conversions of build_keyword_specs, RobotKeywords, CanNodeSimulator.    *)
(*                                                                         *)
(* Each worker of the server handles one request at a time.  A writing     *)
(* keyword locks the simulator twice, for the entry's type and for the     *)
(* write; other workers and the receive thread come in between.            *)
(*                                                                         *)
(* An XML-RPC value is its kind with the number in it (the whole part of a *)
(* double) and the text that is in it or that std::to_string gives.        *)
(***************************************************************************)
EXTENDS Values

CONSTANTS
    Workers,
    ByteSize,   \* 256 in the code
    WordSize,   \* 65536 in the code
    Requests,   \* calls: the keyword's name and its arguments
    Entries,    \* keys of the object dictionary
    TypeOf,     \* an entry's data_type
    AccessOf,   \* an entry's access_type
    Initial,    \* the values an entry may have after start-up
    SignalsOf,  \* per PDO <<direction, number>>: the keys it maps
    ToString_(_), \* std::to_string of an integer
    FrameNumbers \* what received frames carry

(* No request, no answer.                                                   *)
None == [none |-> TRUE]

Error == [ok |-> FALSE, text |-> <<>>]
Ok(text) == [ok |-> TRUE, text |-> text]

Longs == -(LongSize \div 2) .. LongSize \div 2 - 1

(* A value of the type in 64 bits: no code compares one with the width of   *)
(* the entry's own type.                                                    *)
Fits(type, v) ==
    /\ Compatible(type, v)
    /\ v.alt = "none" => v = NoValue
    /\ v.alt = "bool" => v.n \in {0, 1} /\ v = Number("bool", v.n)
    /\ v.alt = "int"  => v.n \in Longs /\ v = Number("int", v.n)
    /\ v.alt = "uint" => v.n \in 0 .. LongSize - 1 /\ v = Number("uint", v.n)

(* What apply_single_pdo_override leaves in an entry of any type: a number  *)
(* of 32 bits at most, as an unsigned one.                                  *)
Overrides == {Number("uint", n) : n \in 0 .. LongSize \div 2 - 1}

(* What std::to_string prints, std::stoull and std::stoll read back; they   *)
(* read no number in the words for Boolean values.                          *)
ASSUME KeywordsAssumption ==
    /\ None \notin Requests
    /\ LongSize \in Nat \ {0}
    /\ \A k \in Entries :
         /\ TypeOf[k] \in {"bool", "int", "uint", "real", "text", "unknown"}
         /\ \A v \in Initial[k] : Fits(TypeOf[k], v) \/ v \in Overrides
    /\ FrameNumbers \subseteq 0 .. LongSize - 1
    /\ \A n \in -(LongSize \div 2) .. LongSize - 1 :
         ToString_(n) \in DOMAIN IntegerOf /\ IntegerOf[ToString_(n)] = n
    /\ ToString_(0) = "0" /\ ToString_(1) = "1"
    /\ {"true", "TRUE", "false", "FALSE"} \cap DOMAIN IntegerOf = {}

VARIABLES
    od,       \* dictionary_: the value of each entry
    pc,       \* where each worker is
    request,  \* the call it handles
    call,     \* the call with its arguments converted
    value,    \* the value it is about to write
    answer    \* the KeywordResult

vars == <<od, pc, request, call, value, answer>>

NoCall == [pdo |-> <<>>, ordinal |-> 0, key |-> <<>>, text |-> <<>>]

Init ==
    /\ od \in {d \in [Entries -> UNION {Initial[k] : k \in Entries}] :
                 \A k \in Entries : d[k] \in Initial[k]}
    /\ pc = [w \in Workers |-> "idle"]
    /\ request = [w \in Workers |-> None]
    /\ call = [w \in Workers |-> NoCall]
    /\ value = [w \in Workers |-> NoValue]
    /\ answer = [w \in Workers |-> None]

-----------------------------------------------------------------------------
(* Arguments.                                                              *)

(* xmlrpc_to_i64.  The cast of a double out of range is undefined: the      *)
(* processors give one end of the range or the other.                       *)
ToI64(v) ==
    CASE v.kind = "int"    -> {v.n}
      [] v.kind = "double" -> IF v.n \in Longs THEN {v.n} ELSE {Min(Longs), Max(Longs)}
      [] v.kind = "string" -> Signed(v.text)
      [] OTHER             -> {}

(* xmlrpc_to_string.                                                       *)
ToText(v) == IF v.kind \in {"string", "int", "double", "bool"} THEN {v.text} ELSE {}

(* parse_direction.                                                        *)
DirectionOf(text) ==
    CASE text \in {<<"rx">>, <<"rpdo">>, <<"receive">>}  -> {"receive"}
      [] text \in {<<"tx">>, <<"tpdo">>, <<"transmit">>} -> {"transmit"}
      [] OTHER -> {}

Writing == {"Write OD", "Write PDO Signal"}

Arity(keyword) ==
    CASE keyword \in {"Start CAN", "Send TPDO", "Send Heartbeat"} -> 1
      [] keyword \in {"Read OD", "List PDO Signals", "Send NMT Command"} -> 2
      [] keyword \in {"Write OD", "Read PDO Signal"} -> 3
      [] keyword = "Write PDO Signal" -> 4

(* The lambdas of build_keyword_specs up to the call, with their casts, per  *)
(* kind of keyword; empty where they answer keyword_error, or throw and do   *)
(* so.                                                                       *)
OdCalls(keyword, a) ==
    LET Keys == {<<i % WordSize, s % ByteSize>> : i \in ToI64(a[1]), s \in ToI64(a[2])}
    IN  IF keyword = "Read OD" THEN {[NoCall EXCEPT !.key = k] : k \in Keys}
        ELSE {[NoCall EXCEPT !.key = k, !.text = t] : k \in Keys, t \in ToText(a[3])}

PdoCalls(keyword, a) ==
    LET Pdos == {<<d, n % WordSize>> :
                   d \in UNION {DirectionOf(t) : t \in ToText(a[1])}, n \in ToI64(a[2])}
    IN  CASE keyword = "List PDO Signals" -> {[NoCall EXCEPT !.pdo = p] : p \in Pdos}
          [] keyword = "Read PDO Signal" ->
               {[NoCall EXCEPT !.pdo = p, !.ordinal = o] : p \in Pdos, o \in ToI64(a[3])}
          [] keyword = "Write PDO Signal" ->
               {[NoCall EXCEPT !.pdo = p, !.ordinal = o, !.text = t] :
                   p \in Pdos, o \in ToI64(a[3]), t \in ToText(a[4])}

(* Of what goes to the transport only that it could be converted matters.    *)
TransportCalls(keyword, a) ==
    CASE keyword = "Stop CAN"  -> {NoCall}
      [] keyword = "Start CAN" -> {NoCall : t \in ToText(a[1])}
      [] keyword = "Send NMT Command" -> {NoCall : m \in ToI64(a[1]) \X ToI64(a[2])}
      [] OTHER -> {NoCall : n \in ToI64(a[1])}

Converted(r) ==
    CASE r.keyword # "Stop CAN" /\ Len(r.args) # Arity(r.keyword) -> {}
      [] OTHER ->
           CASE r.keyword \in {"Read OD", "Write OD"} -> OdCalls(r.keyword, r.args)
             [] r.keyword \in {"Read PDO Signal", "Write PDO Signal", "List PDO Signals"} ->
                  PdoCalls(r.keyword, r.args)
             [] OTHER -> TransportCalls(r.keyword, r.args)

(* The entry a call is about, if there is one: RequirePdo_, the ordinal     *)
(* (a negative one is beyond every list), RequireEntry_.                    *)
Target(c) ==
    IF c.pdo = <<>> THEN {c.key} \cap Entries
    ELSE IF c.pdo \in DOMAIN SignalsOf /\ c.ordinal + 1 \in DOMAIN SignalsOf[c.pdo]
    THEN {SignalsOf[c.pdo][c.ordinal + 1]} \cap Entries
    ELSE {}

(* Seeded fault: a signed number printed as an unsigned one.               *)
FormatValueUnsigned(v) ==
    CASE v.alt = "bool" -> <<IF v.n = 1 THEN "true" ELSE "false">>
      [] v.alt \in {"int", "uint"} -> <<ToString_(v.n % LongSize)>>
      [] OTHER -> v.text

(* FormatValue_.  Reals print as some text, here the empty one.            *)
FormatValue(v) ==
    CASE v.alt = "bool" -> <<IF v.n = 1 THEN "true" ELSE "false">>
      [] v.alt \in {"int", "uint"} -> <<ToString_(v.n)>>
      [] OTHER -> v.text

Readable(keyword, k) == keyword # "Read OD" \/ AccessOf[k] # "wo"

(* Seeded fault: a constant is taken for writable.                         *)
WritableUnlessReadOnly(k) == AccessOf[k] # "ro"

Writable(k) == AccessOf[k] \notin {"ro", "const"}

-----------------------------------------------------------------------------
(* The steps of a worker.                                                  *)

Goto(w, l) == pc' = [pc EXCEPT ![w] = l]
Answer(w, a) == answer' = [answer EXCEPT ![w] = a] /\ Goto(w, "answered")

Receive(w) ==
    /\ pc[w] = "idle"
    /\ \E r \in Requests : request' = [request EXCEPT ![w] = r]
    /\ Goto(w, "convert")
    /\ UNCHANGED <<od, call, value, answer>>

(* Seeded fault: an exception of a conversion is not caught.               *)
RefuseSilently(w) ==
    /\ pc[w] = "convert" /\ Converted(request[w]) = {}
    /\ Goto(w, "gone")
    /\ UNCHANGED <<od, request, call, value, answer>>

Refuse(w) ==
    /\ pc[w] = "convert" /\ Converted(request[w]) = {}
    /\ Answer(w, Error)
    /\ UNCHANGED <<od, request, call, value>>

(* Where a keyword's method begins.                                         *)
Stage(keyword) ==
    CASE keyword \in {"Read OD", "Read PDO Signal"} -> "read"
      [] keyword \in Writing -> "entry"
      [] keyword = "List PDO Signals" -> "list"
      [] OTHER -> "transport"

Convert(w) ==
    /\ pc[w] = "convert"
    /\ \E c \in Converted(request[w]) : call' = [call EXCEPT ![w] = c]
    /\ Goto(w, Stage(request[w].keyword))
    /\ UNCHANGED <<od, request, value, answer>>

(* CanNodeSimulator::ReadOd and ReadPdoSignal, then FormatValue_.          *)
Read(w) ==
    /\ pc[w] = "read"
    /\ LET readable == {k \in Target(call[w]) : Readable(request[w].keyword, k)}
       IN  IF readable = {} THEN Answer(w, Error)
           ELSE \E k \in readable : Answer(w, Ok(FormatValue(od[k])))
    /\ UNCHANGED <<od, request, call, value>>

(* Seeded fault: every number is parsed as an unsigned one.                *)
ReadEntryUnsigned(w) ==
    /\ pc[w] = "entry"
    /\ LET values == UNION {ValueForType(call[w].text, "uint") : k \in Target(call[w])}
       IN  IF values = {} THEN Answer(w, Error) /\ UNCHANGED value
           ELSE /\ \E v \in values : value' = [value EXCEPT ![w] = v]
                /\ Goto(w, "write") /\ UNCHANGED answer
    /\ UNCHANGED <<od, request, call>>

(* ReadOdEntry, then ParseValue_ for the entry's type.                     *)
ReadEntry(w) ==
    /\ pc[w] = "entry"
    /\ LET values == UNION {ValueForType(call[w].text, TypeOf[k]) : k \in Target(call[w])}
       IN  IF values = {} THEN Answer(w, Error) /\ UNCHANGED value
           ELSE /\ \E v \in values : value' = [value EXCEPT ![w] = v]
                /\ Goto(w, "write") /\ UNCHANGED answer
    /\ UNCHANGED <<od, request, call>>

(* Seeded fault: the value is stored before it is checked.                 *)
WriteBeforeCheck(w) ==
    /\ pc[w] = "write"
    /\ \E k \in Target(call[w]) :
         /\ od' = [od EXCEPT ![k] = value[w]]
         /\ Answer(w, IF Writable(k) /\ Compatible(TypeOf[k], value[w]) THEN Ok(<<>>) ELSE Error)
    /\ value' = [value EXCEPT ![w] = NoValue]
    /\ UNCHANGED <<request, call>>

(* CanNodeSimulator::WriteOd and WritePdoSignal.                           *)
Write(w) ==
    /\ pc[w] = "write"
    /\ \E k \in Target(call[w]) :
         IF Writable(k) /\ Compatible(TypeOf[k], value[w])
         THEN od' = [od EXCEPT ![k] = value[w]] /\ Answer(w, Ok(<<>>))
         ELSE Answer(w, Error) /\ UNCHANGED od
    /\ value' = [value EXCEPT ![w] = NoValue]
    /\ UNCHANGED <<request, call>>

List(w) ==
    /\ pc[w] = "list"
    /\ Answer(w, IF call[w].pdo \in DOMAIN SignalsOf THEN Ok(SignalsOf[call[w].pdo]) ELSE Error)
    /\ UNCHANGED <<od, request, call, value>>

(* What the transport does is the matter of the other modules; it may throw. *)
Transport(w) ==
    /\ pc[w] = "transport"
    /\ \E a \in {Ok(<<>>), Error} : Answer(w, a)
    /\ UNCHANGED <<od, request, call, value>>

Return(w) ==
    /\ pc[w] = "answered"
    /\ request' = [request EXCEPT ![w] = None]
    /\ answer' = [answer EXCEPT ![w] = None]
    /\ call' = [call EXCEPT ![w] = NoCall]
    /\ Goto(w, "idle")
    /\ UNCHANGED <<od, value>>

(* The receive thread writes a signal of a receive PDO.                    *)
Received == {k \in Entries : \E p \in DOMAIN SignalsOf :
                p[1] = "receive" /\ \E o \in DOMAIN SignalsOf[p] : SignalsOf[p][o] = k}

FrameStores(d) ==
    {[d EXCEPT ![k] = Number("uint", n)] :
        k \in {k \in Received : Writable(k) /\ Compatible(TypeOf[k], Number("uint", 0))},
        n \in FrameNumbers}

FrameWrite ==
    /\ od' \in FrameStores(od)
    /\ UNCHANGED <<pc, request, call, value, answer>>

Handle(w) ==
    \/ Refuse(w) \/ Convert(w) \/ Read(w) \/ ReadEntry(w) \/ Write(w)
    \/ List(w) \/ Transport(w) \/ Return(w)

Next == FrameWrite \/ \E w \in Workers : Receive(w) \/ Handle(w)

(* A worker goes on with what it has begun: the mutex is held for one entry *)
(* only, and by threads that do other things in between.                    *)
Spec == Init /\ [][Next]_vars /\ \A w \in Workers : WF_vars(Handle(w))

-----------------------------------------------------------------------------
(* Properties.                                                             *)

(* Types; a value that does not fit its entry can only be one an override   *)
(* left there before the server ran; a constant keeps what it started with; *)
(* and a worker is about to write only a value.                             *)
TypeOK ==
    /\ DOMAIN od = Entries
    /\ \A k \in Entries :
         /\ Fits(TypeOf[k], od[k]) \/ od[k] \in Initial[k]
         /\ AccessOf[k] = "const" => od[k] \in Initial[k]
    /\ pc \in [Workers -> {"idle", "convert", "read", "entry", "write", "list",
                           "transport", "answered"}]
    /\ DOMAIN request = Workers /\ DOMAIN call = Workers
    /\ DOMAIN value = Workers /\ DOMAIN answer = Workers
    /\ \A w \in Workers :
         /\ request[w] \in Requests \cup {None}
         /\ request[w] = None <=> pc[w] = "idle"
         /\ answer[w] # None <=> pc[w] = "answered"
         /\ pc[w] = "write" <=> value[w] # NoValue

(* Between the two locks of a writing keyword its call is still the one its *)
(* request was converted to, and its value one the text has for the type of *)
(* the entry, which is there: whatever the others do, the second lock finds *)
(* what the first one found.                                                *)
CallInv ==
    \A w \in Workers :
        /\ pc[w] \notin {"idle", "convert", "answered"} =>
             /\ call[w] \in Converted(request[w])
             /\ \/ pc[w] = Stage(request[w].keyword)
                \/ pc[w] = "write" /\ request[w].keyword \in Writing
        /\ pc[w] = "write" =>
             \E k \in Target(call[w]) :
                 value[w] \in ValueForType(call[w].text, TypeOf[k])

(* A script that writes back what it has just read never changes a number:  *)
(* the text of any value an entry of integer or Boolean type can have, an   *)
(* override's included, is parsed to the same number, in the alternative of *)
(* the entry's type; only a number that no Boolean is, left by an override  *)
(* in a Boolean entry, is refused.                                          *)
WriteBackKeepsNumber ==
    \A k \in Entries :
        TypeOf[k] \in {"bool", "int", "uint"} /\ od[k] # NoValue =>
            ValueForType(FormatValue(od[k]), TypeOf[k]) =
                {Number(TypeOf[k], n) :
                    n \in IF TypeOf[k] = "bool" THEN {od[k].n} \cap {0, 1} ELSE {od[k].n}}

(* What a converted call does when it has the dictionary to itself.        *)
Outcome(a, d) == [answer |-> a, store |-> d]
OrFailed(d, outcomes) == IF outcomes = {} THEN {Outcome(Error, d)} ELSE outcomes

Written(d, c) ==
    UNION {{Outcome(Ok(<<>>), [d EXCEPT ![k] = v]) : v \in ValueForType(c.text, TypeOf[k])}
             : k \in {l \in Target(c) : AccessOf[l] \notin {"ro", "const"}}}

ReadOut(d, keyword, c) ==
    {Outcome(Ok(FormatValue(d[k])), d) : k \in {l \in Target(c) : Readable(keyword, l)}}

Listed(d, c) == {Outcome(Ok(SignalsOf[p]), d) : p \in {c.pdo} \cap DOMAIN SignalsOf}

OutcomesOf(d, keyword, c) ==
    CASE keyword \in Writing -> OrFailed(d, Written(d, c))
      [] keyword \in {"Read OD", "Read PDO Signal"} -> OrFailed(d, ReadOut(d, keyword, c))
      [] keyword = "List PDO Signals" -> OrFailed(d, Listed(d, c))
      [] OTHER -> {Outcome(Ok(<<>>), d), Outcome(Error, d)}

Alone(d, r) ==
    IF Converted(r) = {} THEN {Outcome(Error, d)}
    ELSE UNION {OutcomesOf(d, r.keyword, c) : c \in Converted(r)}

Store == INSTANCE OdStore WITH
    Clients <- Workers, Stores <- [Entries -> UNION {Initial[k] : k \in Entries}],
    Outcomes <- Alone, Changes <- FrameStores, store <- od

(* Whatever workers and receive thread do to each other, each keyword is    *)
(* one atomic operation on the dictionary, though a writing one takes the   *)
(* lock twice; and every request is answered.                               *)
ImplementsStore == Store!Spec

(* Every request gets its answer and the worker is free for the next.       *)
EveryRequestAnswered ==
    \A w \in Workers : pc[w] = "convert" ~> answer[w] # None

=============================================================================
