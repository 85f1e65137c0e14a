--------------------------- MODULE Keywords_proofs ---------------------------
(***************************************************************************)
(* Proofs about Keywords: values fit their entries, what is read can be    *)
(* written back, and each keyword is one atomic operation on the store.    *)
(***************************************************************************)
EXTENDS Keywords, TLAPS

-----------------------------------------------------------------------------
(* Values.                                                                   *)

(* What a text is parsed into fits the type it was parsed for.               *)
LEMMA ParsedFits ==
    ASSUME NEW words, NEW k \in Entries, NEW v \in ValueForType(words, TypeOf[k])
    PROVE  Fits(TypeOf[k], v) /\ v # NoValue
<1> DEFINE type == TypeOf[k]
<1>1. type \in {"bool", "int", "uint", "real", "text", "unknown"} /\ LongSize \in Nat \ {0}
  BY KeywordsAssumption
<1>2. v \in ValueForType(words, type)
  OBVIOUS
<1> HIDE DEF type
<1>3. CASE type = "bool"
  <2>1. v \in {Number("bool", 1) : w \in {words} \cap {<<"1">>, <<"true">>, <<"TRUE">>}} \cup
              {Number("bool", 0) : w \in {words} \cap {<<"0">>, <<"false">>, <<"FALSE">>}}
    BY <1>2, <1>3, Zenon DEF ValueForType
  <2>2. v = Number("bool", 0) \/ v = Number("bool", 1)
    BY <2>1
  <2> QED
    BY <1>3, <2>2 DEF Fits, Compatible, Number, NoValue, type
<1>4. CASE type = "int"
  <2>1. v \in {Number("int", n) : n \in Signed(words)}
    BY <1>2, <1>4 DEF ValueForType
  <2>2. PICK n \in Longs : v = Number("int", n)
    BY <2>1 DEF Signed, Longs
  <2> HIDE DEF Longs
  <2> QED
    BY <1>4, <2>2 DEF Fits, Compatible, Number, NoValue, type
<1>5. CASE type = "uint"
  <2>1. v \in {Number("uint", n) : n \in Unsigned(words)}
    BY <1>2, <1>5 DEF ValueForType
  <2>2. PICK n \in 1 - LongSize .. LongSize - 1 : v = Number("uint", n % LongSize)
    BY <2>1 DEF Unsigned
  <2>3. n % LongSize \in 0 .. LongSize - 1
    BY <1>1
  <2> QED
    BY <1>5, <2>2, <2>3 DEF Fits, Compatible, Number, NoValue, type
<1>6. CASE type = "real"
  <2>1. v = Number("real", 0)
    BY <1>2, <1>6 DEF ValueForType
  <2> QED
    BY <1>6, <2>1 DEF Fits, Compatible, Number, NoValue, type
<1>7. CASE type \in {"text", "unknown"}
  <2>1. v = Text(words)
    BY <1>2, <1>7 DEF ValueForType
  <2> QED
    BY <1>7, <2>1 DEF Fits, Compatible, Text, NoValue, type
<1> QED
  BY <1>1, <1>3, <1>4, <1>5, <1>6, <1>7

LEMMA StoredFrameFits ==
    ASSUME NEW k \in Entries, NEW n \in FrameNumbers,
           Compatible(TypeOf[k], Number("uint", 0))
    PROVE  Fits(TypeOf[k], Number("uint", n))
<1>1. n \in 0 .. LongSize - 1
  BY KeywordsAssumption
<1> QED
  BY <1>1 DEF Fits, Compatible, Number

(* A call is about one entry at most.                                        *)
LEMMA TargetUnique ==
    ASSUME NEW c, NEW k \in Target(c), NEW l \in Target(c)
    PROVE  k = l /\ k \in Entries
BY DEF Target

-----------------------------------------------------------------------------
(* The invariants, worker by worker.                                         *)

Labels ==
    {"idle", "convert", "read", "entry", "write", "list", "transport", "answered"}

StoreOK(d) ==
    /\ DOMAIN d = Entries
    /\ \A k \in Entries :
         /\ Fits(TypeOf[k], d[k]) \/ d[k] \in Initial[k]
         /\ AccessOf[k] = "const" => d[k] \in Initial[k]

(* A worker at p, with request r, call c, value v and answer a.              *)
WorkerOK(p, r, c, v, a) ==
    /\ p \in Labels /\ r \in Requests \cup {None}
    /\ r = None <=> p = "idle"
    /\ a # None <=> p = "answered"
    /\ p = "write" <=> v # NoValue
    /\ p \notin {"idle", "convert", "answered"} =>
         /\ c \in Converted(r)
         /\ \/ p = Stage(r.keyword)
            \/ p = "write" /\ r.keyword \in Writing
    /\ p = "write" => \E k \in Target(c) : v \in ValueForType(c.text, TypeOf[k])

Shape ==
    /\ DOMAIN pc = Workers /\ DOMAIN request = Workers /\ DOMAIN call = Workers
    /\ DOMAIN value = Workers /\ DOMAIN answer = Workers

LEMMA InvariantsAre ==
    TypeOK /\ CallInv =>
      /\ StoreOK(od) /\ Shape
      /\ \A w \in Workers : WorkerOK(pc[w], request[w], call[w], value[w], answer[w])
BY Zenon DEF TypeOK, CallInv, StoreOK, Shape, WorkerOK, Labels

LEMMA InvariantsWillBe ==
    ASSUME pc' \in [Workers -> Labels], StoreOK(od'), Shape',
           \A w \in Workers : WorkerOK(pc'[w], request'[w], call'[w], value'[w], answer'[w])
    PROVE  TypeOK' /\ CallInv'
<1>1. TypeOK'
  BY Zenon DEF TypeOK, StoreOK, Shape, WorkerOK, Labels, Fits, Compatible
<1>2. CallInv'
  BY Zenon DEF CallInv, WorkerOK
<1> QED
  BY <1>1, <1>2

(* What a worker's step may do: it changes the worker's own variables and    *)
(* leaves the worker, and the store, in order.                               *)
LEMMA StepKeeps ==
    ASSUME TypeOK, CallInv, NEW w \in Workers, NEW p \in Labels, NEW r, NEW c, NEW v, NEW a,
           pc' = [pc EXCEPT ![w] = p],
           (request' = request /\ r = request[w]) \/ request' = [request EXCEPT ![w] = r],
           (call' = call /\ c = call[w]) \/ call' = [call EXCEPT ![w] = c],
           (value' = value /\ v = value[w]) \/ value' = [value EXCEPT ![w] = v],
           (answer' = answer /\ a = answer[w]) \/ answer' = [answer EXCEPT ![w] = a],
           StoreOK(od'), WorkerOK(p, r, c, v, a)
    PROVE  TypeOK' /\ CallInv'
<1>1. /\ Shape /\ pc \in [Workers -> Labels]
      /\ \A u \in Workers : WorkerOK(pc[u], request[u], call[u], value[u], answer[u])
  BY InvariantsAre DEF TypeOK, Labels
<1>2. pc' \in [Workers -> Labels] /\ Shape'
  BY <1>1 DEF Shape
<1>3. /\ pc'[w] = p /\ request'[w] = r /\ call'[w] = c /\ value'[w] = v /\ answer'[w] = a
      /\ \A u \in Workers : u # w =>
           /\ pc'[u] = pc[u] /\ request'[u] = request[u] /\ call'[u] = call[u]
           /\ value'[u] = value[u] /\ answer'[u] = answer[u]
  BY <1>1 DEF Shape
<1>4. ASSUME NEW u \in Workers
      PROVE  WorkerOK(pc'[u], request'[u], call'[u], value'[u], answer'[u])
  <2>1. CASE u = w
    BY <1>3, <2>1
  <2>2. CASE u # w
    BY <1>1, <1>3, <2>2
  <2> QED
    BY <2>1, <2>2
<1> QED
  BY <1>2, <1>4, InvariantsWillBe

LEMMA NoneIsApart ==
    /\ None # Error /\ None \notin Requests
    /\ \A text : None # Ok(text)
BY KeywordsAssumption DEF None, Error, Ok

LEMMA StageIs ==
    ASSUME NEW keyword
    PROVE  /\ Stage(keyword) \in {"read", "entry", "list", "transport"}
           /\ Stage(keyword) = "read" <=> keyword \in {"Read OD", "Read PDO Signal"}
           /\ Stage(keyword) = "entry" <=> keyword \in Writing
           /\ Stage(keyword) = "list" <=> keyword = "List PDO Signals"
BY DEF Stage, Writing

LEMMA InitialInvariants == Init => TypeOK /\ CallInv
<1> SUFFICES ASSUME Init PROVE TypeOK /\ CallInv
  OBVIOUS
<1>1. DOMAIN od = Entries /\ \A k \in Entries : od[k] \in Initial[k]
  BY DEF Init
<1> QED
  BY <1>1 DEF Init, TypeOK, CallInv

LEMMA InvariantStep == TypeOK /\ CallInv /\ [Next]_vars => TypeOK' /\ CallInv'
<1> SUFFICES ASSUME TypeOK, CallInv, [Next]_vars PROVE TypeOK' /\ CallInv'
  OBVIOUS
<1>1. /\ StoreOK(od) /\ Shape /\ pc \in [Workers -> Labels]
      /\ \A w \in Workers : WorkerOK(pc[w], request[w], call[w], value[w], answer[w])
  BY InvariantsAre DEF TypeOK, Labels
<1>2. ASSUME NEW k \in Entries, NEW v, Fits(TypeOf[k], v), Writable(k),
             od' = [od EXCEPT ![k] = v]
      PROVE  StoreOK(od')
  <2>1. DOMAIN od' = Entries
    BY <1>1, <1>2 DEF StoreOK
  <2>2. ASSUME NEW l \in Entries
        PROVE  /\ Fits(TypeOf[l], od'[l]) \/ od'[l] \in Initial[l]
               /\ AccessOf[l] = "const" => od'[l] \in Initial[l]
    <3>1. CASE l = k
      BY <1>1, <1>2, <3>1 DEF StoreOK, Writable
    <3>2. CASE l # k
      BY <1>1, <1>2, <3>2 DEF StoreOK
    <3> QED
      BY <3>1, <3>2
  <2> QED
    BY <2>1, <2>2 DEF StoreOK
<1>3. CASE FrameWrite
  <2>1. PICK k \in Entries, n \in FrameNumbers :
            /\ od' = [od EXCEPT ![k] = Number("uint", n)]
            /\ Writable(k) /\ Compatible(TypeOf[k], Number("uint", 0))
    BY <1>3 DEF FrameWrite, FrameStores, Received
  <2>2. StoreOK(od')
    BY <1>2, <2>1, StoredFrameFits
  <2>3. UNCHANGED <<pc, request, call, value, answer>>
    BY <1>3 DEF FrameWrite
  <2> QED
    BY <1>1, <2>2, <2>3, InvariantsWillBe DEF Shape
<1>4. ASSUME NEW w \in Workers, Receive(w) PROVE TypeOK' /\ CallInv'
  <2>1. PICK r \in Requests : request' = [request EXCEPT ![w] = r]
    BY <1>4 DEF Receive
  <2>2. /\ pc[w] = "idle" /\ pc' = [pc EXCEPT ![w] = "convert"]
        /\ UNCHANGED <<od, call, value, answer>>
    BY <1>4 DEF Receive, Goto
  <2>3. WorkerOK("convert", r, call[w], value[w], answer[w])
    BY <1>1, <2>2, NoneIsApart DEF WorkerOK, Labels
  <2>4. StoreOK(od') /\ "convert" \in Labels
    BY <1>1, <2>2 DEF Labels
  <2> QED
    BY <2>1, <2>2, <2>3, <2>4, StepKeeps, Zenon
<1>5. ASSUME NEW w \in Workers, NEW a, pc[w] \notin {"idle", "answered"}, a # None,
             Answer(w, a), UNCHANGED <<request, call>>, StoreOK(od'),
             (value' = value /\ pc[w] # "write") \/ value' = [value EXCEPT ![w] = NoValue]
      PROVE  TypeOK' /\ CallInv'
  <2>1. pc' = [pc EXCEPT ![w] = "answered"] /\ answer' = [answer EXCEPT ![w] = a]
    BY <1>5 DEF Answer, Goto
  <2>2. "answered" \in Labels
    BY DEF Labels
  <2>3. CASE value' = value /\ pc[w] # "write"
    <3>1. WorkerOK("answered", request[w], call[w], value[w], a)
      BY <1>1, <1>5, <2>3 DEF WorkerOK, Labels
    <3> QED
      BY <1>5, <2>1, <2>2, <2>3, <3>1, StepKeeps, Zenon
  <2>4. CASE value' = [value EXCEPT ![w] = NoValue]
    <3>1. WorkerOK("answered", request[w], call[w], NoValue, a)
      BY <1>1, <1>5 DEF WorkerOK, Labels
    <3> QED
      BY <1>5, <2>1, <2>2, <2>4, <3>1, StepKeeps, Zenon
  <2> QED
    BY <1>5, <2>3, <2>4
<1>6. ASSUME NEW w \in Workers, Refuse(w) PROVE TypeOK' /\ CallInv'
  BY <1>1, <1>5, <1>6, NoneIsApart DEF Refuse
<1>7. ASSUME NEW w \in Workers, Convert(w) PROVE TypeOK' /\ CallInv'
  <2> DEFINE p == Stage(request[w].keyword)
  <2>1. PICK c \in Converted(request[w]) : call' = [call EXCEPT ![w] = c]
    BY <1>7 DEF Convert
  <2>2. /\ pc[w] = "convert" /\ pc' = [pc EXCEPT ![w] = p]
        /\ UNCHANGED <<od, request, value, answer>>
    BY <1>7 DEF Convert, Goto
  <2>3. p \in {"read", "entry", "list", "transport"}
    BY StageIs
  <2>4. p \in Labels /\ WorkerOK(p, request[w], c, value[w], answer[w])
    BY <1>1, <2>2, <2>3 DEF WorkerOK, Labels
  <2>5. StoreOK(od')
    BY <1>1, <2>2
  <2> HIDE DEF p
  <2> QED
    BY <2>1, <2>2, <2>4, <2>5, StepKeeps, Zenon
<1>8. ASSUME NEW w \in Workers, Read(w) PROVE TypeOK' /\ CallInv'
  <2>1. /\ pc[w] = "read" /\ UNCHANGED <<od, request, call, value>>
        /\ Answer(w, Error) \/ \E text : Answer(w, Ok(text))
    BY <1>8 DEF Read
  <2> QED
    BY <1>1, <1>5, <2>1, NoneIsApart
<1>9. ASSUME NEW w \in Workers, ReadEntry(w) PROVE TypeOK' /\ CallInv'
  <2>1. pc[w] = "entry" /\ UNCHANGED <<od, request, call>>
    BY <1>9 DEF ReadEntry
  <2>2. CASE Answer(w, Error) /\ UNCHANGED value
    BY <1>1, <1>5, <2>1, <2>2, NoneIsApart
  <2>3. CASE ~(Answer(w, Error) /\ UNCHANGED value)
    <3>1. PICK k \in Target(call[w]) : \E v \in ValueForType(call[w].text, TypeOf[k]) :
              value' = [value EXCEPT ![w] = v]
      BY <1>9, <2>3 DEF ReadEntry
    <3>2. PICK v \in ValueForType(call[w].text, TypeOf[k]) : value' = [value EXCEPT ![w] = v]
      BY <3>1
    <3>3. pc' = [pc EXCEPT ![w] = "write"] /\ UNCHANGED answer
      BY <1>9, <2>3 DEF ReadEntry, Goto
    <3>4. v # NoValue
      BY TargetUnique, ParsedFits
    <3>5. /\ call[w] \in Converted(request[w]) /\ request[w].keyword \in Writing
          /\ request[w] \in Requests \cup {None} /\ request[w] # None /\ answer[w] = None
      BY <1>1, <2>1, StageIs DEF WorkerOK
    <3>6. "write" \in Labels /\ WorkerOK("write", request[w], call[w], v, answer[w])
      BY <3>4, <3>5 DEF WorkerOK, Labels
    <3> QED
      BY <1>1, <2>1, <3>2, <3>3, <3>6, StepKeeps, Zenon
  <2> QED
    BY <2>2, <2>3
<1>10. ASSUME NEW w \in Workers, Write(w) PROVE TypeOK' /\ CallInv'
  <2>1. /\ pc[w] = "write" /\ value' = [value EXCEPT ![w] = NoValue]
        /\ UNCHANGED <<request, call>>
    BY <1>10 DEF Write
  <2>2. PICK k \in Target(call[w]) :
            IF Writable(k) /\ Compatible(TypeOf[k], value[w])
            THEN od' = [od EXCEPT ![k] = value[w]] /\ Answer(w, Ok(<<>>))
            ELSE Answer(w, Error) /\ UNCHANGED od
    BY <1>10 DEF Write
  <2>3. PICK l \in Target(call[w]) : value[w] \in ValueForType(call[w].text, TypeOf[l])
    BY <1>1, <2>1 DEF WorkerOK
  <2>4. k = l /\ k \in Entries
    BY TargetUnique
  <2>5. Fits(TypeOf[k], value[w])
    BY <2>3, <2>4, ParsedFits
  <2>6. StoreOK(od')
    BY <1>1, <1>2, <2>2, <2>4, <2>5
  <2>7. PICK a : a # None /\ Answer(w, a)
    BY <2>2, NoneIsApart
  <2> QED
    BY <1>5, <2>1, <2>6, <2>7
<1>11. ASSUME NEW w \in Workers, List(w) PROVE TypeOK' /\ CallInv'
  <2>1. /\ pc[w] = "list" /\ UNCHANGED <<od, request, call, value>>
        /\ Answer(w, Error) \/ \E text : Answer(w, Ok(text))
    BY <1>11 DEF List
  <2> QED
    BY <1>1, <1>5, <2>1, NoneIsApart
<1>12. ASSUME NEW w \in Workers, Transport(w) PROVE TypeOK' /\ CallInv'
  <2>1. /\ pc[w] = "transport" /\ UNCHANGED <<od, request, call, value>>
        /\ Answer(w, Error) \/ Answer(w, Ok(<<>>))
    BY <1>12 DEF Transport
  <2> QED
    BY <1>1, <1>5, <2>1, NoneIsApart
<1>13. ASSUME NEW w \in Workers, Return(w) PROVE TypeOK' /\ CallInv'
  <2>1. /\ pc[w] = "answered" /\ pc' = [pc EXCEPT ![w] = "idle"]
        /\ request' = [request EXCEPT ![w] = None] /\ answer' = [answer EXCEPT ![w] = None]
        /\ call' = [call EXCEPT ![w] = NoCall] /\ UNCHANGED <<od, value>>
    BY <1>13 DEF Return, Goto
  <2>2. "idle" \in Labels /\ WorkerOK("idle", None, NoCall, value[w], None)
    BY <1>1, <2>1 DEF WorkerOK, Labels
  <2>3. StoreOK(od')
    BY <1>1, <2>1
  <2> QED
    BY <2>1, <2>2, <2>3, StepKeeps, Zenon
<1>14. CASE UNCHANGED vars
  BY <1>1, <1>14, InvariantsWillBe DEF vars, Shape
<1> QED
  BY <1>3, <1>4, <1>6, <1>7, <1>8, <1>9, <1>10, <1>11, <1>12, <1>13, <1>14
  DEF Next, Handle

(* Whoever writes an entry, keyword or received frame, its value then fits   *)
(* its type in 64 bits: one that does not was there at the start, where an   *)
(* override may have left it.  A const entry keeps its first value, and a    *)
(* worker is about to write only when it has something to write.             *)
THEOREM TypeCorrect == Spec => []TypeOK
<1>1. Init => TypeOK /\ CallInv
  BY InitialInvariants
<1>2. TypeOK /\ CallInv /\ [Next]_vars => TypeOK' /\ CallInv'
  BY InvariantStep
<1> QED
  BY <1>1, <1>2, PTL DEF Spec

(* Between its two locks a writing keyword holds a value that the text of    *)
(* its own request has for the type of the entry it is about.                *)
THEOREM CallInvariant == Spec => []CallInv
<1>1. Init => TypeOK /\ CallInv
  BY InitialInvariants
<1>2. TypeOK /\ CallInv /\ [Next]_vars => TypeOK' /\ CallInv'
  BY InvariantStep
<1> QED
  BY <1>1, <1>2, PTL DEF Spec

-----------------------------------------------------------------------------
(* Reading and writing back.                                                 *)

LEMMA PrintedIsRead ==
    ASSUME NEW n \in -(LongSize \div 2) .. LongSize - 1
    PROVE  IntegerAt(<<ToString_(n)>>) = {n}
<1>1. ToString_(n) \in DOMAIN IntegerOf /\ IntegerOf[ToString_(n)] = n
  BY KeywordsAssumption
<1>2. <<ToString_(n)>> # <<>> /\ Head(<<ToString_(n)>>) = ToString_(n)
  OBVIOUS
<1> QED
  BY <1>1, <1>2 DEF IntegerAt

LEMMA IntegerText ==
    ASSUME NEW n \in Longs
    PROVE  ValueForType(<<ToString_(n)>>, "int") = {Number("int", n)}
<1>1. LongSize \in Nat \ {0}
  BY KeywordsAssumption
<1>2. n \in -(LongSize \div 2) .. LongSize - 1
  BY <1>1 DEF Longs
<1>3. Signed(<<ToString_(n)>>) = {n}
  BY <1>2, PrintedIsRead DEF Signed, Longs
<1> QED
  BY <1>3 DEF ValueForType

LEMMA UnsignedText ==
    ASSUME NEW n \in 0 .. LongSize - 1
    PROVE  ValueForType(<<ToString_(n)>>, "uint") = {Number("uint", n)}
<1>1. LongSize \in Nat \ {0}
  BY KeywordsAssumption
<1>2. /\ n \in -(LongSize \div 2) .. LongSize - 1 /\ n % LongSize = n
      /\ n \in 1 - LongSize .. LongSize - 1
  BY <1>1
<1>3. Unsigned(<<ToString_(n)>>) = {n}
  BY <1>2, PrintedIsRead DEF Unsigned
<1> QED
  BY <1>3 DEF ValueForType

(* Of the numbers an override leaves, "0" and "1" are read as Boolean.       *)
LEMMA BooleanText ==
    ASSUME NEW n \in 0 .. LongSize \div 2 - 1
    PROVE  ValueForType(<<ToString_(n)>>, "bool") = {Number("bool", m) : m \in {n} \cap {0, 1}}
<1> DEFINE words == <<ToString_(n)>>
<1>1. ValueForType(words, "bool") =
        {Number("bool", 1) : w \in {words} \cap {<<"1">>, <<"true">>, <<"TRUE">>}} \cup
        {Number("bool", 0) : w \in {words} \cap {<<"0">>, <<"false">>, <<"FALSE">>}}
  BY Zenon DEF ValueForType
<1>2. LongSize \in Nat \ {0} /\ n \in 0 .. LongSize - 1 /\ 1 \in 0 .. LongSize - 1
  BY KeywordsAssumption
<1>3. ToString_(n) \in DOMAIN IntegerOf /\ IntegerOf[ToString_(n)] = n
  BY <1>2, KeywordsAssumption
<1>4. IntegerOf["0"] = 0 /\ IntegerOf["1"] = 1
  BY <1>2, KeywordsAssumption
<1>5. ToString_(n) \notin {"true", "TRUE", "false", "FALSE"}
  BY <1>3, KeywordsAssumption
<1>6. CASE n = 1
  <2>1. words = <<"1">>
    BY <1>6, KeywordsAssumption
  <2>2. /\ {words} \cap {<<"1">>, <<"true">>, <<"TRUE">>} = {words}
        /\ {words} \cap {<<"0">>, <<"false">>, <<"FALSE">>} = {}
    BY <2>1
  <2>3. ValueForType(words, "bool") = {Number("bool", 1)}
    BY <1>1, <2>2
  <2>4. {n} \cap {0, 1} = {1}
    BY <1>6
  <2> QED
    BY <2>3, <2>4
<1>7. CASE n = 0
  <2>1. words = <<"0">>
    BY <1>7, KeywordsAssumption
  <2>2. /\ {words} \cap {<<"1">>, <<"true">>, <<"TRUE">>} = {}
        /\ {words} \cap {<<"0">>, <<"false">>, <<"FALSE">>} = {words}
    BY <2>1
  <2>3. ValueForType(words, "bool") = {Number("bool", 0)}
    BY <1>1, <2>2
  <2>4. {n} \cap {0, 1} = {0}
    BY <1>7
  <2> QED
    BY <2>3, <2>4
<1>8. CASE n \notin {0, 1}
  <2>1. ToString_(n) \notin {"0", "1"}
    BY <1>3, <1>4, <1>8
  <2> QED
    BY <1>1, <1>5, <1>8, <2>1
<1> QED
  BY <1>6, <1>7, <1>8

(* A script that writes back what it has just read never changes a number:   *)
(* ParseValue_ reads what FormatValue_ prints as the number it was, of every *)
(* 64-bit value and of what an override leaves in an entry of another type;  *)
(* it refuses only the latter, in a Boolean entry and beyond 1.              *)
THEOREM WriteBackKeepsNumberHolds == Spec => []WriteBackKeepsNumber
<1>1. TypeOK => WriteBackKeepsNumber
  <2> SUFFICES ASSUME TypeOK, NEW k \in Entries, TypeOf[k] \in {"bool", "int", "uint"},
                      od[k] # NoValue
               PROVE  ValueForType(FormatValue(od[k]), TypeOf[k]) =
                        {Number(TypeOf[k], n) :
                            n \in IF TypeOf[k] = "bool" THEN {od[k].n} \cap {0, 1}
                                  ELSE {od[k].n}}
    BY DEF WriteBackKeepsNumber
  <2> DEFINE v == od[k]
             type == TypeOf[k]
             Numbers == IF type = "bool" THEN {v.n} \cap {0, 1} ELSE {v.n}
  <2>1. /\ Fits(type, v) \/ v \in Overrides
        /\ v # NoValue /\ type \in {"bool", "int", "uint"} /\ LongSize \in Nat \ {0}
    BY KeywordsAssumption DEF TypeOK
  <2> SUFFICES ValueForType(FormatValue(v), type) = {Number(type, n) : n \in Numbers}
    OBVIOUS
  <2> HIDE DEF v, type
  <2>2. CASE v \in Overrides
    <3>1. PICK n \in 0 .. LongSize \div 2 - 1 : v = Number("uint", n)
      BY <2>2 DEF Overrides
    <3>2. v.n = n /\ FormatValue(v) = <<ToString_(n)>>
      BY <3>1 DEF Number, FormatValue
    <3>3. n \in Longs /\ n \in 0 .. LongSize - 1
      BY <2>1, <3>1 DEF Longs
    <3>4. CASE type = "bool"
      BY <3>2, <3>4, BooleanText
    <3>5. CASE type = "int"
      BY <3>2, <3>3, <3>5, IntegerText
    <3>6. CASE type = "uint"
      BY <3>2, <3>3, <3>6, UnsignedText
    <3> QED
      BY <2>1, <3>4, <3>5, <3>6
  <2>3. CASE Fits(type, v)
    <3>1. v.alt = type
      BY <2>1, <2>3 DEF Fits, Compatible
    <3>2. CASE type = "bool"
      <4>1. v.n \in {0, 1}
        BY <2>3, <3>1, <3>2 DEF Fits
      <4>2. FormatValue(v) = <<IF v.n = 1 THEN "true" ELSE "false">>
        BY <3>1, <3>2 DEF FormatValue
      <4>3. /\ ValueForType(<<"true">>, "bool") = {Number("bool", 1)}
            /\ ValueForType(<<"false">>, "bool") = {Number("bool", 0)}
        BY DEF ValueForType
      <4> QED
        BY <3>2, <4>1, <4>2, <4>3
    <3>3. CASE type = "int"
      <4>1. v.n \in Longs
        BY <2>3, <3>1, <3>3 DEF Fits
      <4>2. FormatValue(v) = <<ToString_(v.n)>>
        BY <3>1, <3>3 DEF FormatValue
      <4> QED
        BY <3>3, <4>1, <4>2, IntegerText
    <3>4. CASE type = "uint"
      <4>1. v.n \in 0 .. LongSize - 1
        BY <2>3, <3>1, <3>4 DEF Fits
      <4>2. FormatValue(v) = <<ToString_(v.n)>>
        BY <3>1, <3>4 DEF FormatValue
      <4> QED
        BY <3>4, <4>1, <4>2, UnsignedText
    <3> QED
      BY <2>1, <3>2, <3>3, <3>4
  <2> QED
    BY <2>1, <2>2, <2>3
<1> QED
  BY <1>1, TypeCorrect, PTL

-----------------------------------------------------------------------------
(* Each keyword is one atomic operation.                                     *)

(* What a keyword's outcome may be, case by case.                            *)
LEMMA AloneHas ==
    ASSUME NEW d, NEW r, NEW c \in Converted(r), NEW o \in OutcomesOf(d, r.keyword, c)
    PROVE  o \in Alone(d, r)
BY DEF Alone

LEMMA OutcomesAre ==
    ASSUME NEW d, NEW keyword, NEW c
    PROVE  /\ keyword \in Writing => OutcomesOf(d, keyword, c) = OrFailed(d, Written(d, c))
           /\ keyword \in {"Read OD", "Read PDO Signal"} =>
                OutcomesOf(d, keyword, c) = OrFailed(d, ReadOut(d, keyword, c))
           /\ keyword = "List PDO Signals" =>
                OutcomesOf(d, keyword, c) = OrFailed(d, Listed(d, c))
           /\ Stage(keyword) = "transport" =>
                OutcomesOf(d, keyword, c) = {Outcome(Ok(<<>>), d), Outcome(Error, d)}
BY StageIs DEF OutcomesOf, Writing

LEMMA WritingOutcomes ==
    ASSUME NEW d, NEW keyword \in Writing, NEW c
    PROVE  /\ \A k \in Target(c) : \A v \in ValueForType(c.text, TypeOf[k]) :
                Writable(k) =>
                  Outcome(Ok(<<>>), [d EXCEPT ![k] = v]) \in OutcomesOf(d, keyword, c)
           /\ (\A k \in Target(c) : ~Writable(k) \/ ValueForType(c.text, TypeOf[k]) = {}) =>
                Outcome(Error, d) \in OutcomesOf(d, keyword, c)
<1>1. OutcomesOf(d, keyword, c) = OrFailed(d, Written(d, c))
  BY OutcomesAre
<1>2. ASSUME NEW k \in Target(c), NEW v \in ValueForType(c.text, TypeOf[k]), Writable(k)
      PROVE  Outcome(Ok(<<>>), [d EXCEPT ![k] = v]) \in Written(d, c)
  <2> DEFINE One(l) == {Outcome(Ok(<<>>), [d EXCEPT ![l] = x]) :
                          x \in ValueForType(c.text, TypeOf[l])}
  <2>1. Outcome(Ok(<<>>), [d EXCEPT ![k] = v]) \in One(k)
    OBVIOUS
  <2>2. Written(d, c) = UNION {One(l) : l \in {l \in Target(c) : Writable(l)}}
    BY Zenon DEF Written, Writable
  <2> HIDE DEF One
  <2> QED
    BY <1>2, <2>1, <2>2
<1>3. ASSUME \A k \in Target(c) : ~Writable(k) \/ ValueForType(c.text, TypeOf[k]) = {}
      PROVE  Written(d, c) = {}
  BY <1>3 DEF Written, Writable
<1> QED
  BY <1>1, <1>2, <1>3 DEF OrFailed

LEMMA ReadingOutcomes ==
    ASSUME NEW d, NEW keyword \in {"Read OD", "Read PDO Signal"}, NEW c
    PROVE  /\ \A k \in Target(c) : Readable(keyword, k) =>
                Outcome(Ok(FormatValue(d[k])), d) \in OutcomesOf(d, keyword, c)
           /\ (\A k \in Target(c) : ~Readable(keyword, k)) =>
                Outcome(Error, d) \in OutcomesOf(d, keyword, c)
<1>1. OutcomesOf(d, keyword, c) = OrFailed(d, ReadOut(d, keyword, c))
  BY OutcomesAre
<1>2. ASSUME NEW k \in Target(c), Readable(keyword, k)
      PROVE  Outcome(Ok(FormatValue(d[k])), d) \in ReadOut(d, keyword, c)
  BY <1>2 DEF ReadOut
<1>3. ASSUME \A k \in Target(c) : ~Readable(keyword, k)
      PROVE  ReadOut(d, keyword, c) = {}
  BY <1>3 DEF ReadOut
<1> QED
  BY <1>1, <1>2, <1>3 DEF OrFailed

LEMMA ListingOutcome ==
    ASSUME NEW d, NEW c
    PROVE  Outcome(IF c.pdo \in DOMAIN SignalsOf THEN Ok(SignalsOf[c.pdo]) ELSE Error, d)
             \in OutcomesOf(d, "List PDO Signals", c)
<1>1. OutcomesOf(d, "List PDO Signals", c) = OrFailed(d, Listed(d, c))
  BY OutcomesAre
<1>2. CASE c.pdo \in DOMAIN SignalsOf
  BY <1>1, <1>2 DEF Listed, OrFailed
<1>3. CASE c.pdo \notin DOMAIN SignalsOf
  BY <1>1, <1>3 DEF Listed, OrFailed
<1> QED
  BY <1>2, <1>3

LEMMA TransportOutcomes ==
    ASSUME NEW d, NEW keyword, Stage(keyword) = "transport", NEW c,
           NEW a \in {Ok(<<>>), Error}
    PROVE  Outcome(a, d) \in OutcomesOf(d, keyword, c)
<1>1. OutcomesOf(d, keyword, c) = {Outcome(Ok(<<>>), d), Outcome(Error, d)}
  BY OutcomesAre
<1>2. a = Ok(<<>>) \/ a = Error
  OBVIOUS
<1> QED
  BY <1>1, <1>2, Zenon

(* The state of the store is that of the dictionary, and a worker's request  *)
(* and answer are a client's.  A keyword takes effect at the step that       *)
(* answers it: for a writing one at its second lock.                         *)
THEOREM ImplementsStoreSteps == Spec => Store!Init /\ [][Store!Next]_Store!storeVars
<1>1. Init => Store!Init
  BY DEF Init, Store!Init
<1>2. TypeOK /\ CallInv /\ [Next]_vars => [Store!Next]_Store!storeVars
  <2> SUFFICES ASSUME TypeOK, CallInv, [Next]_vars
               PROVE  Store!Next \/ UNCHANGED <<od, request, answer>>
    BY DEF Store!storeVars
  <2>1. \A w \in Workers : WorkerOK(pc[w], request[w], call[w], value[w], answer[w])
    BY InvariantsAre
  <2>2. ASSUME NEW w \in Workers, pc[w] \notin {"idle", "answered"}, request' = request,
               NEW a, NEW d, od' = d, answer' = [answer EXCEPT ![w] = a],
               Outcome(a, d) \in Alone(od, request[w])
        PROVE  Store!Next
    <3>1. request[w] # None /\ answer[w] = None
      BY <2>1, <2>2 DEF WorkerOK
    <3>2. Store!Do(w)
      BY <2>2, <3>1 DEF Store!Do, Outcome
    <3> QED
      BY <3>2 DEF Store!Next
  <2>3. CASE FrameWrite
    BY <2>3 DEF FrameWrite, Store!Next, Store!Change
  <2>4. ASSUME NEW w \in Workers, Receive(w) PROVE Store!Next
    <3>1. request[w] = None
      BY <2>1, <2>4 DEF Receive, WorkerOK
    <3> QED
      BY <2>4, <3>1 DEF Receive, Store!Next, Store!Call
  <2>5. ASSUME NEW w \in Workers, Refuse(w) PROVE Store!Next
    <3>1. Outcome(Error, od) \in Alone(od, request[w])
      BY <2>5 DEF Refuse, Alone
    <3> QED
      BY <2>2, <2>5, <3>1 DEF Refuse, Answer
  <2>6. ASSUME NEW w \in Workers, Convert(w) PROVE UNCHANGED <<od, request, answer>>
    BY <2>6 DEF Convert
  <2>7. ASSUME NEW w \in Workers, Read(w) PROVE Store!Next
    <3>1. /\ pc[w] = "read" /\ call[w] \in Converted(request[w])
          /\ request[w].keyword \in {"Read OD", "Read PDO Signal"}
      BY <2>1, <2>7, StageIs DEF Read, WorkerOK
    <3>2. CASE \E k \in Target(call[w]) : Readable(request[w].keyword, k)
      <4>1. PICK k \in Target(call[w]) :
                Readable(request[w].keyword, k) /\ Answer(w, Ok(FormatValue(od[k])))
        BY <2>7, <3>2 DEF Read
      <4>2. Outcome(Ok(FormatValue(od[k])), od) \in Alone(od, request[w])
        BY <3>1, <4>1, ReadingOutcomes, AloneHas
      <4> QED
        BY <2>2, <2>7, <3>1, <4>1, <4>2 DEF Read, Answer
    <3>3. CASE \A k \in Target(call[w]) : ~Readable(request[w].keyword, k)
      <4>1. Answer(w, Error)
        BY <2>7, <3>3 DEF Read
      <4>2. Outcome(Error, od) \in Alone(od, request[w])
        BY <3>1, <3>3, ReadingOutcomes, AloneHas
      <4> QED
        BY <2>2, <2>7, <3>1, <4>1, <4>2 DEF Read, Answer
    <3> QED
      BY <3>2, <3>3
  <2>8. ASSUME NEW w \in Workers, ReadEntry(w)
        PROVE  Store!Next \/ UNCHANGED <<od, request, answer>>
    <3> DEFINE values == UNION {ValueForType(call[w].text, TypeOf[k]) : k \in Target(call[w])}
    <3>1. /\ pc[w] = "entry" /\ call[w] \in Converted(request[w])
          /\ request[w].keyword \in Writing
      BY <2>1, <2>8, StageIs DEF ReadEntry, WorkerOK
    <3>2. CASE values # {}
      BY <2>8, <3>2 DEF ReadEntry
    <3>3. CASE values = {}
      <4>1. Answer(w, Error) /\ UNCHANGED <<od, request>>
        BY <2>8, <3>3 DEF ReadEntry
      <4>2. \A k \in Target(call[w]) : ValueForType(call[w].text, TypeOf[k]) = {}
        BY <3>3
      <4>3. Outcome(Error, od) \in OutcomesOf(od, request[w].keyword, call[w])
        BY <3>1, <4>2, WritingOutcomes
      <4>4. Outcome(Error, od) \in Alone(od, request[w])
        BY <3>1, <4>3, AloneHas
      <4> QED
        BY <2>2, <3>1, <4>1, <4>4 DEF Answer
    <3> QED
      BY <3>2, <3>3
  <2>9. ASSUME NEW w \in Workers, Write(w) PROVE Store!Next
    <3>1. /\ pc[w] = "write" /\ call[w] \in Converted(request[w])
          /\ request[w].keyword \in Writing /\ request' = request
      BY <2>1, <2>9, StageIs DEF Write, WorkerOK
    <3>2. PICK k \in Target(call[w]) :
              IF Writable(k) /\ Compatible(TypeOf[k], value[w])
              THEN od' = [od EXCEPT ![k] = value[w]] /\ Answer(w, Ok(<<>>))
              ELSE Answer(w, Error) /\ UNCHANGED od
      BY <2>9 DEF Write
    <3>3. value[w] \in ValueForType(call[w].text, TypeOf[k]) /\ k \in Entries
      BY <2>1, <3>1, TargetUnique DEF WorkerOK
    <3>4. Compatible(TypeOf[k], value[w])
      BY <3>3, ParsedFits DEF Fits
    <3>5. CASE Writable(k)
      <4>1. Outcome(Ok(<<>>), [od EXCEPT ![k] = value[w]]) \in Alone(od, request[w])
        BY <3>1, <3>3, <3>5, WritingOutcomes, AloneHas
      <4> QED
        BY <2>2, <3>1, <3>2, <3>4, <3>5, <4>1 DEF Answer
    <3>6. CASE ~Writable(k)
      <4>1. \A l \in Target(call[w]) : ~Writable(l)
        BY <3>6, TargetUnique
      <4>2. Outcome(Error, od) \in OutcomesOf(od, request[w].keyword, call[w])
        BY <3>1, <4>1, WritingOutcomes
      <4>3. Outcome(Error, od) \in Alone(od, request[w])
        BY <3>1, <4>2, AloneHas
      <4> QED
        BY <2>2, <3>1, <3>2, <3>6, <4>3 DEF Answer
    <3> QED
      BY <3>5, <3>6
  <2>10. ASSUME NEW w \in Workers, List(w) PROVE Store!Next
    <3> DEFINE a == IF call[w].pdo \in DOMAIN SignalsOf THEN Ok(SignalsOf[call[w].pdo]) ELSE Error
    <3>1. /\ pc[w] = "list" /\ call[w] \in Converted(request[w])
          /\ request[w].keyword = "List PDO Signals"
      BY <2>1, <2>10, StageIs DEF List, WorkerOK
    <3>2. Outcome(a, od) \in OutcomesOf(od, request[w].keyword, call[w])
      BY <3>1, ListingOutcome
    <3>3. Outcome(a, od) \in Alone(od, request[w])
      <4> HIDE DEF a
      <4> QED
        BY <3>1, <3>2, AloneHas
    <3> QED
      BY <2>2, <2>10, <3>1, <3>3 DEF List, Answer
  <2>11. ASSUME NEW w \in Workers, Transport(w) PROVE Store!Next
    <3>1. /\ pc[w] = "transport" /\ call[w] \in Converted(request[w])
          /\ Stage(request[w].keyword) = "transport"
      BY <2>1, <2>11 DEF Transport, WorkerOK
    <3>2. PICK a \in {Ok(<<>>), Error} : Answer(w, a) /\ UNCHANGED <<od, request>>
      BY <2>11 DEF Transport
    <3>3. Outcome(a, od) \in OutcomesOf(od, request[w].keyword, call[w])
      BY <3>1, <3>2, TransportOutcomes
    <3>4. Outcome(a, od) \in Alone(od, request[w])
      BY <3>1, <3>3, AloneHas
    <3> QED
      BY <2>2, <3>1, <3>2, <3>4 DEF Answer
  <2>12. ASSUME NEW w \in Workers, Return(w) PROVE Store!Next
    <3>1. answer[w] # None
      BY <2>1, <2>12 DEF Return, WorkerOK
    <3> QED
      BY <2>12, <3>1 DEF Return, Store!Next, Store!Return
  <2>13. CASE UNCHANGED vars
    BY <2>13 DEF vars
  <2> QED
    BY <2>3, <2>4, <2>5, <2>6, <2>7, <2>8, <2>9, <2>10, <2>11, <2>12, <2>13 DEF Next, Handle
<1> QED
  BY <1>1, <1>2, TypeCorrect, CallInvariant, PTL DEF Spec

=============================================================================
