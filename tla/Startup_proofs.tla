--------------------------- MODULE Startup_proofs ---------------------------
(***************************************************************************)
(* Proofs about Startup, for every width, range of PDO objects, command    *)
(* line, EDS file and configuration that SetupAssumption allows.           *)
(***************************************************************************)
EXTENDS Startup, Recursion, SequenceTheorems, TLAPS

(* The widths, as the arithmetic below needs them.                         *)
LEMMA Widths ==
    /\ ByteSize \in Nat \ {0} /\ WordSize \in Nat \ {0}
    /\ DwordSize \in Nat \ {0} /\ LongSize \in Nat \ {0}
    /\ ByteSize > 5 /\ ByteSize <= LongSize /\ WordSize <= LongSize /\ DwordSize <= LongSize
    /\ Base \in Nat /\ Count \in Nat /\ Base + 4 * Count <= WordSize
    /\ MaxSignals \in Nat /\ MaxSignals >= ByteSize
BY SetupAssumption DEF TimerSub

LEMMA Remainder ==
    ASSUME NEW n \in Int, NEW d \in Nat \ {0}
    PROVE  n % d \in 0 .. d - 1
OBVIOUS

(* The largest of some positions is one of them.                           *)
LEMMA MaxIsMember ==
    ASSUME NEW n \in Nat, NEW T \in SUBSET (1 .. n), T # {}
    PROVE  Max(T) \in T /\ \A t \in T : t <= Max(T)
<1> DEFINE D == {n - t : t \in T}
<1>1. D \in SUBSET Nat /\ D # {}
  <2>1. \A t \in T : n - t \in Nat
    OBVIOUS
  <2>2. PICK t \in T : TRUE
    OBVIOUS
  <2> QED
    BY <2>1, <2>2
<1>2. PICK x \in D : \A y \in D : x <= y
  BY <1>1, LeastElement
<1>3. PICK t \in T : x = n - t
  BY <1>2
<1>4. \A u \in T : t >= u
  <2> TAKE u \in T
  <2>1. n - u \in D /\ n - t <= n - u
    BY <1>2, <1>3
  <2> QED
    BY <2>1
<1>5. Max(T) \in T /\ \A u \in T : Max(T) >= u
  BY <1>4 DEF Max
<1> QED
  BY <1>5

LEMMA SoleIsOne ==
    ASSUME NEW values, NEW default
    PROVE  Sole(values, default) \in values \cup {default}
BY DEF Sole

LEMMA SoleOfSome ==
    ASSUME NEW values, NEW default, values # {}
    PROVE  Sole(values, default) \in values
BY DEF Sole

-----------------------------------------------------------------------------
(* What the parsers return.                                                *)

LEMMA UnsignedType ==
    ASSUME NEW words
    PROVE  /\ Unsigned(words) \subseteq 0 .. LongSize - 1
           /\ \A m, n \in Unsigned(words) : m = n
<1>1. \A n \in (1 - LongSize) .. (LongSize - 1) : n % LongSize \in 0 .. LongSize - 1
  BY Widths, Remainder
<1>2. \A m, n \in IntegerAt(words) : m = n
  BY Zenon DEF IntegerAt
<1> QED
  BY <1>1, <1>2 DEF Unsigned

LEMMA SignedType ==
    ASSUME NEW words
    PROVE  Signed(words) \subseteq Int
BY Widths DEF Signed

LEMMA EvaluateType ==
    ASSUME NEW words, NEW node \in Subs
    PROVE  Evaluate(words, node) \subseteq 0 .. LongSize - 1
<1> DEFINE plus  == Find(words, "+")
           left  == Upto(words, plus)
           right == Beyond(words, plus)
           Plus(side) == {(node + n) % LongSize : n \in Unsigned(side)}
<1>1. node \in Nat /\ node \in 0 .. LongSize - 1
  BY Widths DEF Subs
<1>2. \A side : Plus(side) \subseteq 0 .. LongSize - 1
  <2> SUFFICES ASSUME NEW side, NEW n \in Unsigned(side)
               PROVE  (node + n) % LongSize \in 0 .. LongSize - 1
    OBVIOUS
  <2>1. n \in Nat
    BY UnsignedType, Widths
  <2> QED
    BY <1>1, <2>1, Widths, Remainder
<1>3. Unsigned(words) \subseteq 0 .. LongSize - 1
  BY UnsignedType
<1>4. Evaluate(words, node) \in {{}, {node}, Unsigned(words), Plus(right), Plus(left)}
  <2>1. CASE Quoted(words)
    <3>1. Evaluate(words, node) = {} \/ Evaluate(words, node) = {node}
      BY <2>1 DEF Evaluate
    <3> QED
      BY <3>1
  <2>2. CASE ~Quoted(words) /\ IsNodeId(words)
    BY <2>2, Zenon DEF Evaluate
  <2>3. CASE ~Quoted(words) /\ ~IsNodeId(words) /\ plus = 0
    BY <2>3, Zenon DEF Evaluate
  <2>4. CASE ~Quoted(words) /\ ~IsNodeId(words) /\ plus # 0
    BY <2>4, Zenon DEF Evaluate
  <2> QED
    BY <2>1, <2>2, <2>3, <2>4
<1> QED
  BY <1>1, <1>2, <1>3, <1>4

LEMMA NumberType ==
    ASSUME NEW alt, NEW n
    PROVE  Number(alt, n).alt = alt /\ Number(alt, n).n = n
BY DEF Number

LEMMA AsSignedType ==
    ASSUME NEW n \in 0 .. LongSize - 1
    PROVE  AsSigned(n) \in Int
BY Widths DEF AsSigned

LEMMA DefaultValueType ==
    ASSUME NEW words, NEW type \in Types, NEW node \in Subs, NEW v \in DefaultValue(words, type, node)
    PROVE  IsValue(v) /\ Compatible(type, v)
<1> DEFINE values == Evaluate(words, node)
<1>1. values \subseteq 0 .. LongSize - 1 /\ \A n \in values : n \in Int
  BY EvaluateType
<1>2. CASE type = "text"
  <2>1. DefaultValue(words, type, node) = {Text(IF Quoted(words) THEN Inner(words) ELSE words)}
    BY <1>2 DEF DefaultValue
  <2> QED
    BY <1>2, <2>1 DEF IsValue, Compatible, Text
<1>3. CASE type = "real"
  <2>1. v = Number("real", 0)
    BY <1>3 DEF DefaultValue
  <2> QED
    BY <1>3, <2>1, NumberType DEF IsValue, Compatible
<1>4. CASE type = "bool"
  <2>1. \E n \in values : v = Number("bool", IF n = 0 THEN 0 ELSE 1)
    BY <1>4 DEF DefaultValue
  <2> QED
    BY <1>4, <2>1, NumberType DEF IsValue, Compatible
<1>5. CASE type = "int"
  <2>1. \E n \in values : v = Number("int", AsSigned(n))
    BY <1>5 DEF DefaultValue
  <2> QED
    BY <1>1, <1>5, <2>1, NumberType, AsSignedType DEF IsValue, Compatible
<1>6. CASE type \in {"uint", "unknown"}
  <2>1. DefaultValue(words, type, node) = {Number("uint", n) : n \in values}
    BY <1>6 DEF DefaultValue
  <2>2. PICK n \in values : v = Number("uint", n)
    BY <2>1
  <2> QED
    BY <1>1, <1>6, <2>2, NumberType DEF IsValue, Compatible
<1> QED
  BY <1>2, <1>3, <1>4, <1>5, <1>6 DEF Types

LEMMA ValueForTypeType ==
    ASSUME NEW words, NEW type \in Types, NEW v \in ValueForType(words, type)
    PROVE  IsValue(v) /\ Compatible(type, v)
<1>2. CASE type = "bool"
  <2>1. v = Number("bool", 1) \/ v = Number("bool", 0)
    BY <1>2 DEF ValueForType
  <2> QED
    BY <1>2, <2>1, NumberType DEF IsValue, Compatible
<1>3. CASE type = "int"
  <2>1. \E n \in Signed(words) : v = Number("int", n)
    BY <1>3 DEF ValueForType
  <2> QED
    BY <1>3, <2>1, NumberType, SignedType DEF IsValue, Compatible
<1>4. CASE type = "uint"
  <2>1. PICK n \in Unsigned(words) : v = Number("uint", n)
    BY <1>4 DEF ValueForType
  <2>2. n \in 0 .. LongSize - 1 /\ n \in Int
    BY UnsignedType
  <2> QED
    BY <1>4, <2>1, <2>2, NumberType DEF IsValue, Compatible
<1>5. CASE type = "real"
  <2>1. v = Number("real", 0)
    BY <1>5 DEF ValueForType
  <2> QED
    BY <1>5, <2>1, NumberType DEF IsValue, Compatible
<1>6. CASE type \in {"text", "unknown"}
  <2>1. ValueForType(words, type) = {Text(words)}
    BY <1>6 DEF ValueForType
  <2> QED
    BY <1>6, <2>1 DEF IsValue, Compatible, Text
<1> QED
  BY <1>2, <1>3, <1>4, <1>5, <1>6 DEF Types

LEMMA NoValueType == IsValue(NoValue) /\ \A type : Compatible(type, NoValue)
BY DEF IsValue, Compatible, NoValue

(* What a section of the EDS file gives, whatever its fields say.           *)
LEMMA EntryOfType ==
    ASSUME NEW pairs, NEW node \in Subs
    PROVE  LET entry == EntryOf(pairs, node)
           IN  \A stage : IsEntry(entry, stage)
<1> DEFINE codes  == UNION {Unsigned(words) : words \in Given(pairs, "datatype")}
           type   == Sole({TypeOfCode(c % DwordSize) : c \in codes}, "unknown")
           values == UNION {DefaultValue(words, type, node) : words \in Given(pairs, "defaultvalue")}
<1>1. \A c : TypeOfCode(c) \in Types
  BY DEF TypeOfCode, Types
<1>2. type \in Types
  <2>1. type \in {TypeOfCode(c % DwordSize) : c \in codes} \cup {"unknown"}
    BY SoleIsOne, Zenon
  <2> QED
    BY <1>1, <2>1 DEF Types
<1>3. \A v \in values : IsValue(v) /\ Compatible(type, v)
  <2> HIDE DEF type
  <2> QED
    BY <1>2, DefaultValueType, Zenon
<1>4. IsValue(Sole(values, NoValue)) /\ Compatible(type, Sole(values, NoValue))
  <2>1. Sole(values, NoValue) \in values \cup {NoValue}
    BY SoleIsOne, Zenon
  <2> HIDE DEF type, values
  <2> QED
    BY <1>3, <2>1, NoValueType
<1> DEFINE access == Sole({AccessOfText(words) : words \in Given(pairs, "accesstype")}, "unknown")
<1>5. EntryOf(pairs, node) = [type |-> type, access |-> access, value |-> Sole(values, NoValue)]
  BY Zenon DEF EntryOf
<1> HIDE DEF type, values, access
<1> QED
  BY <1>2, <1>4, <1>5 DEF IsEntry

LEMMA ReadSectionType ==
    ASSUME NEW d, NEW section, NEW node \in Subs, NEW late, IsDictionary(d, late)
    PROVE  IsDictionary(ReadSection(d, section, node), late)
<1> DEFINE key   == KeyOf(section.name)
           entry == EntryOf(section.pairs, node)
<1>1. CASE ~IsObject(section.name)
  BY <1>1 DEF ReadSection
<1>2. CASE IsObject(section.name)
  <2>1. key \in Indices \X Subs
    <3>1. section.name[1] \in DOMAIN IndexOf
          /\ (Len(section.name) = 3 => section.name[3] \in DOMAIN SubOf)
      BY <1>2 DEF IsObject
    <3>2. IndexOf[section.name[1]] \in Indices
          /\ (Len(section.name) = 3 => SubOf[section.name[3]] \in Subs)
      BY <3>1, SetupAssumption
    <3> QED
      BY <3>2, Widths DEF KeyOf, Subs
  <2>2. IsEntry(entry, late)
    BY EntryOfType
  <2>3. ReadSection(d, section, node) =
          [k \in DOMAIN d \cup {key} |-> IF k = key THEN entry ELSE d[k]]
    BY <1>2 DEF ReadSection, With
  <2> HIDE DEF key, entry
  <2> QED
    BY <2>1, <2>2, <2>3 DEF IsDictionary
<1> QED
  BY <1>1, <1>2

(* A key text names one object at most.                                     *)
LEMMA ParseKeyIsOne ==
    ASSUME NEW words, NEW k \in ParseKey(words), NEW h \in ParseKey(words)
    PROVE  k = h
<1> DEFINE colon == Find(words, ":")
<1>1. colon # 0
  BY DEF ParseKey
<1>2. \E i \in Unsigned(Upto(words, colon)) : \E s \in Unsigned(Beyond(words, colon)) :
        k = <<i % WordSize, s % ByteSize>>
  BY <1>1 DEF ParseKey
<1>3. \E i \in Unsigned(Upto(words, colon)) : \E s \in Unsigned(Beyond(words, colon)) :
        h = <<i % WordSize, s % ByteSize>>
  BY <1>1 DEF ParseKey
<1> QED
  BY <1>2, <1>3, UnsignedType

(* ApplyToDictionary.                                                       *)
LEMMA DefaultType ==
    ASSUME NEW d, NEW late, IsDictionary(d, late), NEW k \in DOMAIN d,
           NEW words, NEW v \in ValueForType(words, d[k].type)
    PROVE  IsDictionary([d EXCEPT ![k].value = v], late)
<1> DEFINE e == [d[k] EXCEPT !.value = v]
<1>1. IsEntry(d[k], late)
  BY DEF IsDictionary
<1>2. IsValue(v) /\ Compatible(d[k].type, v)
  BY <1>1, ValueForTypeType DEF IsEntry
<1>3. IsEntry(e, late)
  <2>1. DOMAIN e = DOMAIN d[k] /\ e.type = d[k].type /\ e.value = v
    BY <1>1 DEF IsEntry
  <2> HIDE DEF e
  <2> QED
    BY <1>1, <1>2, <2>1 DEF IsEntry
<1>4. [d EXCEPT ![k].value = v] = [d EXCEPT ![k] = e]
  OBVIOUS
<1> HIDE DEF e
<1> QED
  BY <1>3, <1>4 DEF IsDictionary

(* A section of overrides, once accepted.                                   *)
IsSection(section) ==
    \A n \in DOMAIN section :
       /\ n \in Indices \ {0} /\ DOMAIN section[n] \subseteq OverrideSubs
       /\ \A s \in DOMAIN section[n] : section[n][s] \in 0 .. WidthOf(s) - 1

LEMMA TouchedType ==
    ASSUME NEW start, NEW section, NEW t \in Touched(start, section)
    PROVE  \E n \in DOMAIN section : \E s \in DOMAIN section[n] :
              t.key = <<CommIndex(start, n), s>> /\ t.n = section[n][s]
BY DEF Touched

LEMMA OverriddenType ==
    ASSUME NEW d, NEW late, IsDictionary(d, late),
           NEW start \in Nat, NEW section, IsSection(section),
           NEW stage \in OverriddenPhases
    PROVE  IsDictionary(Overridden(d, start, section), stage)
<1> DEFINE touched == Touched(start, section)
           New(k) == {EntryWith(d, k, t.n) : t \in {t \in touched : t.key = k}}
           Old(k) == IF k \in DOMAIN d THEN d[k] ELSE NewEntry
           keys == DOMAIN d \cup {t.key : t \in touched}
<1>1. Overridden(d, start, section) = [k \in keys |-> Sole(New(k), Old(k))]
  BY Zenon DEF Overridden
<1>2. ASSUME NEW t \in touched
      PROVE  t.key \in Indices \X Subs /\ t.n \in 0 .. LongSize - 1
  <2>1. PICK n \in DOMAIN section : \E s \in DOMAIN section[n] :
              t.key = <<CommIndex(start, n), s>> /\ t.n = section[n][s]
    BY TouchedType
  <2>2. PICK s \in DOMAIN section[n] : t.key = <<CommIndex(start, n), s>> /\ t.n = section[n][s]
    BY <2>1
  <2>3. n \in Int /\ s \in OverrideSubs /\ section[n][s] \in 0 .. WidthOf(s) - 1
    BY Widths DEF IsSection, Indices
  <2>4. CommIndex(start, n) \in Indices
    <3>1. start + n - 1 \in Int
      BY <2>3
    <3>2. (start + n - 1) % WordSize \in 0 .. WordSize - 1
      BY <3>1, Widths, Remainder
    <3> QED
      BY <3>2 DEF CommIndex, Indices
  <2>5. s \in Subs
    BY <2>3, Widths DEF OverrideSubs, Subs, CobIdSub, TypeSub, InhibitSub, TimerSub
  <2>6. WidthOf(s) \in Nat /\ WidthOf(s) <= LongSize
    BY <2>3, Widths DEF WidthOf, OverrideSubs
  <2> QED
    BY <2>2, <2>3, <2>4, <2>5, <2>6, Widths
<1>3. ASSUME NEW k \in keys PROVE Old(k) \in {NewEntry} \/ IsEntry(Old(k), stage)
  BY DEF IsDictionary, IsEntry
<1>4. IsEntry(NewEntry, stage)
  BY NoValueType DEF NewEntry, IsEntry, Types
<1>5. ASSUME NEW k \in keys PROVE IsEntry(Old(k), stage)
  BY <1>3, <1>4
<1>6. ASSUME NEW k \in keys, NEW t \in touched PROVE IsEntry(EntryWith(d, k, t.n), stage)
  <2> DEFINE e == EntryWith(d, k, t.n)
             v == Number("uint", t.n)
  <2> SUFFICES IsEntry(e, stage)
    OBVIOUS
  <2>1. e = [Old(k) EXCEPT !.value = v]
    BY Zenon DEF EntryWith
  <2>2. IsEntry(Old(k), stage)
    BY <1>5
  <2>3. v.alt = "uint" /\ v.n = t.n /\ t.n \in 0 .. LongSize - 1
    BY <1>2, NumberType
  <2>4. IsValue(v)
    BY <2>3 DEF IsValue
  <2> HIDE DEF Old, v, e
  <2>5. DOMAIN e = DOMAIN Old(k) /\ e.type = Old(k).type /\ e.value = v
    BY <2>1, <2>2 DEF IsEntry
  <2> QED
    BY <2>2, <2>3, <2>4, <2>5 DEF IsEntry
<1>7. ASSUME NEW k \in keys PROVE IsEntry(Sole(New(k), Old(k)), stage)
  <2>1. \A e \in New(k) : IsEntry(e, stage)
    BY <1>6
  <2>2. Sole(New(k), Old(k)) \in New(k) \cup {Old(k)}
    BY SoleIsOne, Zenon
  <2> HIDE DEF New, Old
  <2> QED
    BY <1>5, <2>1, <2>2
<1>8. ASSUME NEW k \in keys PROVE k \in Indices \X Subs
  BY <1>2 DEF IsDictionary
<1> HIDE DEF keys, New, Old
<1> QED
  BY <1>1, <1>7, <1>8 DEF IsDictionary

-----------------------------------------------------------------------------
(* The configuration.                                                       *)

(* The sections LoadText makes of the items of an accepted configuration.   *)
LEMMA SectionOfType ==
    ASSUME NEW path \in DOMAIN ConfigFiles, Loads(ConfigFiles[path]),
           NEW items \in {ConfigFiles[path].rpdo, ConfigFiles[path].tpdo}
    PROVE  IsSection(SectionOf(items))
<1>1. items \in Seq({items[i] : i \in DOMAIN items})
      /\ \A i \in DOMAIN items : DOMAIN items[i].says \subseteq OverrideSubs
  BY SetupAssumption
<1>2. DOMAIN items = 1 .. Len(items) /\ Len(items) \in Nat
  BY <1>1
<1>3. \A i \in DOMAIN items :
        /\ items[i].number \in Indices \ {0}
        /\ \A s \in DOMAIN items[i].says : items[i].says[s] \in 0 .. WidthOf(s) - 1
  BY <1>2 DEF Loads, ToSet
<1> DEFINE numbers == {items[i].number : i \in DOMAIN items}
           At(n) == {i \in DOMAIN items : items[i].number = n}
<1>4. SectionOf(items) = [n \in numbers |-> items[Max(At(n))].says]
  BY DEF SectionOf
<1>5. ASSUME NEW n \in numbers PROVE Max(At(n)) \in DOMAIN items /\ items[Max(At(n))].number = n
  <2>1. At(n) \in SUBSET (1 .. Len(items)) /\ At(n) # {}
    BY <1>2
  <2>2. Max(At(n)) \in At(n)
    <3> HIDE DEF At
    <3> QED
      BY <1>2, <2>1, MaxIsMember
  <2> QED
    BY <2>2
<1>6. ASSUME NEW n \in numbers
      PROVE  LET says == SectionOf(items)[n]
             IN  /\ n \in Indices \ {0} /\ DOMAIN says \subseteq OverrideSubs
                 /\ \A s \in DOMAIN says : says[s] \in 0 .. WidthOf(s) - 1
  <2>1. SectionOf(items)[n] = items[Max(At(n))].says
    BY <1>4
  <2> HIDE DEF At
  <2> QED
    BY <1>1, <1>3, <1>5, <2>1
<1>7. DOMAIN SectionOf(items) = numbers
  BY <1>4
<1> HIDE DEF numbers
<1> QED
  BY <1>6, <1>7 DEF IsSection

LEMMA ConfigInvSections ==
    ConfigInv <=> /\ DOMAIN config = {"defaults", "rpdo", "tpdo"}
                  /\ IsSection(config.rpdo) /\ IsSection(config.tpdo)
BY DEF ConfigInv, IsSection

LEMMA ConfigInit == Init => ConfigInv
<1> SUFFICES ASSUME Init PROVE ConfigInv
  OBVIOUS
<1>1. config = [defaults |-> <<>>, rpdo |-> <<>>, tpdo |-> <<>>]
  BY DEF Init, NoConfig
<1> QED
  BY <1>1 DEF ConfigInv

LEMMA ConfigStep ==
    ASSUME ConfigInv, [Next]_vars
    PROVE  ConfigInv'
<1>1. CASE UNCHANGED config
  BY <1>1 DEF ConfigInv
<1>2. CASE LoadConfig /\ config' # config
  <2> DEFINE yaml == ConfigFiles[options.config]
  <2>1. /\ options.config \in DOMAIN ConfigFiles /\ Loads(yaml)
        /\ config' = [defaults |-> yaml.defaults,
                      rpdo |-> SectionOf(yaml.rpdo), tpdo |-> SectionOf(yaml.tpdo)]
    BY <1>2 DEF LoadConfig
  <2>2. IsSection(SectionOf(yaml.rpdo)) /\ IsSection(SectionOf(yaml.tpdo))
    BY <2>1, SectionOfType
  <2> HIDE DEF yaml
  <2>3. /\ DOMAIN config' = {"defaults", "rpdo", "tpdo"}
        /\ config'.rpdo = SectionOf(yaml.rpdo) /\ config'.tpdo = SectionOf(yaml.tpdo)
    BY <2>1
  <2> QED
    BY <2>2, <2>3 DEF ConfigInv, IsSection
<1>3. CASE ApplyDefault
  <2>1. PICK text : config' = [config EXCEPT !.defaults = Restrict(@, DOMAIN @ \ {text})]
    BY <1>3 DEF ApplyDefault
  <2>2. DOMAIN config' = DOMAIN config /\ config'.rpdo = config.rpdo /\ config'.tpdo = config.tpdo
    BY <2>1
  <2> QED
    BY <2>2 DEF ConfigInv
<1>4. UNCHANGED config \/ LoadConfig \/ ApplyDefault
  BY DEF Next, vars, PathOption, NodeIdOption, OtherOption, IgnoredWord, ArgsDone, OpenEds,
         ParseLine, ParseSection, Parsed, DefaultsDone, ApplyRpdoOverrides, ApplyTpdoOverrides,
         SkipPdo, BeginPdo, MapSignal, EndPdo, RangeDone
<1> QED
  BY <1>1, <1>2, <1>3, <1>4

(* Whatever configuration is accepted, its overrides name PDO numbers from  *)
(* 1 and hold numbers that fit the entries they are written to.             *)
THEOREM ConfigInvariant == Spec => []ConfigInv
BY ConfigInit, ConfigStep, PTL DEF Spec

-----------------------------------------------------------------------------
(* Types.                                                                   *)

LEMMA TypeInit == Init => TypeOK
<1> SUFFICES ASSUME Init PROVE TypeOK
  OBVIOUS
<1>1. /\ dictionary = <<>> /\ phase = "args" /\ range = "receive" /\ offset = 0 /\ sub = 1
      /\ pdo = [dir |-> "none"]
      /\ options = [eds |-> "", node |-> 1, fromCli |-> FALSE, config |-> "", iface |-> "", log |-> ""]
  BY Zenon DEF Init, NoPdo
<1>2. DOMAIN dictionary = {}
  <2>1. DOMAIN <<>> = {}
    OBVIOUS
  <2> QED
    BY <1>1, <2>1, Zenon
<1>3. IsDictionary(dictionary, phase)
  BY <1>2 DEF IsDictionary
<1>4. 1 \in Subs /\ 0 \in 0 .. Count
  BY Widths DEF Subs
<1>5. options.node \in Subs /\ DOMAIN options = {"eds", "node", "fromCli", "config", "iface", "log"}
  BY <1>1, <1>4
<1>6. pdo.dir = "none" /\ phase # "mapping" /\ phase \in Phases
  BY <1>1 DEF Phases
<1> QED
  BY <1>1, <1>3, <1>4, <1>5, <1>6 DEF TypeOK

LEMMA LaterIsDictionary ==
    ASSUME NEW d, NEW early, NEW late,
           IsDictionary(d, early), early \notin OverriddenPhases \/ late \in OverriddenPhases
    PROVE  IsDictionary(d, late)
BY DEF IsDictionary, IsEntry

(* The command line: the options keep their shape, the node id its width.   *)
LEMMA ArgsTypeStep ==
    ASSUME TypeOK, PathOption \/ NodeIdOption \/ OtherOption \/ IgnoredWord \/ ArgsDone
    PROVE  TypeOK'
<1>1. /\ phase = "args" /\ phase' \in {"args", "config", "failed"}
      /\ UNCHANGED <<dictionary, range, offset, sub, pdo>>
  BY DEF PathOption, NodeIdOption, OtherOption, IgnoredWord, ArgsDone, HasOption, buildVars
<1>2. options'.node \in Subs /\ DOMAIN options' = DOMAIN options
  <2>1. CASE NodeIdOption /\ options' # options
    <3>1. PICK n \in Int : options' = [options EXCEPT !.node = n % ByteSize, !.fromCli = TRUE]
      BY <2>1, SetupAssumption DEF NodeIdOption
    <3>2. n % ByteSize \in Subs
      BY Widths, Remainder DEF Subs
    <3> QED
      BY <3>1, <3>2 DEF TypeOK
  <2>2. CASE PathOption
    BY <2>2 DEF PathOption, TypeOK
  <2> QED
    BY <2>1, <2>2 DEF TypeOK, NodeIdOption, OtherOption, IgnoredWord, ArgsDone, lineVars
<1>3. IsDictionary(dictionary', phase')
  <2>1. IsDictionary(dictionary, phase)
    BY DEF TypeOK
  <2> QED
    BY <1>1, <2>1, LaterIsDictionary DEF OverriddenPhases
<1> QED
  BY <1>1, <1>2, <1>3 DEF TypeOK, Phases

(* Reading the files.                                                       *)
LEMMA FilesTypeStep ==
    ASSUME TypeOK, LoadConfig \/ OpenEds \/ ParseLine \/ ParseSection \/ Parsed
    PROVE  TypeOK'
<1>1. UNCHANGED <<range, offset, sub, pdo>>
  BY DEF LoadConfig, OpenEds, ParseLine, ParseSection, Parsed, buildVars
<1>2. /\ phase \notin {"tpdo", "build", "mapping", "done"}
      /\ phase' \in Phases /\ phase' # "mapping" /\ phase # "mapping"
  BY DEF LoadConfig, OpenEds, ParseLine, ParseSection, Parsed, Phases
<1>3. options'.node \in Subs /\ DOMAIN options' = DOMAIN options
  <2>1. CASE LoadConfig /\ options' # options
    <3> DEFINE yaml == ConfigFiles[options.config]
               node == IF yaml.node = NoNumber \/ options.fromCli THEN options.node ELSE yaml.node
    <3>1. Loads(yaml) /\ options' = [options EXCEPT !.node = node]
      BY <2>1 DEF LoadConfig
    <3>2. node \in Subs
      BY <3>1 DEF Loads, TypeOK
    <3> HIDE DEF node
    <3> QED
      BY <3>1, <3>2 DEF TypeOK
  <2> QED
    BY <2>1 DEF TypeOK, LoadConfig, OpenEds, ParseLine, ParseSection, Parsed, lineVars
<1>4. IsDictionary(dictionary', phase)
  <2>1. dictionary' = dictionary
          \/ dictionary' = ReadSection(dictionary, Head(sections), options.node)
    BY DEF LoadConfig, OpenEds, ParseLine, ParseSection, Parsed
  <2>2. options.node \in Subs /\ IsDictionary(dictionary, phase)
    BY DEF TypeOK
  <2> QED
    BY <2>1, <2>2, ReadSectionType
<1>5. IsDictionary(dictionary', phase')
  BY <1>2, <1>4, LaterIsDictionary DEF OverriddenPhases
<1> QED
  BY <1>1, <1>2, <1>3, <1>5 DEF TypeOK

(* The configuration's defaults and overrides.                              *)
LEMMA ApplyTypeStep ==
    ASSUME TypeOK, ConfigInv,
           ApplyDefault \/ DefaultsDone \/ ApplyRpdoOverrides \/ ApplyTpdoOverrides
    PROVE  TypeOK'
<1>1. UNCHANGED <<options, range, offset, sub, pdo>>
  BY DEF ApplyDefault, DefaultsDone, ApplyRpdoOverrides, ApplyTpdoOverrides, buildVars, lineVars
<1>2. /\ phase \in {"defaults", "rpdo", "tpdo"}
      /\ phase' \in {"defaults", "rpdo", "tpdo", "build", "failed"}
  BY DEF ApplyDefault, DefaultsDone, ApplyRpdoOverrides, ApplyTpdoOverrides
<1>3. IsSection(config.rpdo) /\ IsSection(config.tpdo)
  BY ConfigInvSections
<1>4. CommStart("receive") \in Nat /\ CommStart("transmit") \in Nat
  BY Widths DEF CommStart
<1>5. IsDictionary(dictionary, phase)
  BY DEF TypeOK
<1>6. IsDictionary(dictionary', phase')
  <2>1. CASE ApplyDefault /\ dictionary' # dictionary
    <3> DEFINE Values(text, k) == ValueForType(config.defaults[text], dictionary[k].type)
    <3>1. PICK text : \E k \in ParseKey(text) \cap DOMAIN dictionary :
                        \E v \in UNION {Values(text, h) : h \in ParseKey(text) \cap DOMAIN dictionary} :
                           dictionary' = [dictionary EXCEPT ![k].value = v]
      BY <2>1 DEF ApplyDefault
    <3>2. PICK k \in ParseKey(text) \cap DOMAIN dictionary :
            \E v \in UNION {Values(text, h) : h \in ParseKey(text) \cap DOMAIN dictionary} :
                           dictionary' = [dictionary EXCEPT ![k].value = v]
      BY <3>1
    <3>3. PICK v \in UNION {Values(text, h) : h \in ParseKey(text) \cap DOMAIN dictionary} :
            dictionary' = [dictionary EXCEPT ![k].value = v]
      BY <3>2
    <3>4. v \in Values(text, k)
      <4>1. \A h \in ParseKey(text) : h = k
        BY ParseKeyIsOne
      <4> HIDE DEF Values
      <4> QED
        BY <4>1
    <3>5. phase' = phase
      BY <2>1 DEF ApplyDefault
    <3> QED
      BY <1>5, <3>3, <3>4, <3>5, DefaultType
  <2>2. CASE ApplyRpdoOverrides
    <3>1. /\ dictionary' = Overridden(dictionary, CommStart("receive"), config.rpdo)
          /\ phase' \in OverriddenPhases
      BY <2>2 DEF ApplyRpdoOverrides, OverriddenPhases
    <3> QED
      BY <1>3, <1>4, <1>5, <3>1, OverriddenType
  <2>3. CASE ApplyTpdoOverrides
    <3>1. /\ dictionary' = Overridden(dictionary, CommStart("transmit"), config.tpdo)
          /\ phase' \in OverriddenPhases
      BY <2>3 DEF ApplyTpdoOverrides, OverriddenPhases
    <3> QED
      BY <1>3, <1>4, <1>5, <3>1, OverriddenType
  <2>4. CASE dictionary' = dictionary /\ (ApplyDefault \/ DefaultsDone)
    <3>1. phase \notin OverriddenPhases
      BY <2>4 DEF ApplyDefault, DefaultsDone, OverriddenPhases
    <3> QED
      BY <1>5, <2>4, <3>1, LaterIsDictionary
  <2>5. DefaultsDone => dictionary' = dictionary
    BY DEF DefaultsDone
  <2> QED
    BY <2>1, <2>2, <2>3, <2>4, <2>5
<1> QED
  BY <1>1, <1>2, <1>6 DEF TypeOK, Phases

(* The builder's loops: what they read is a number or NoNumber.             *)
LEMMA ReadU64Type ==
    ASSUME NEW d, NEW stage, IsDictionary(d, stage), NEW index, NEW s
    PROVE  ReadU64(d, index, s) \in Nat \cup {NoNumber}
<1>1. CASE <<index, s>> \in DOMAIN d
  <2> DEFINE v == d[<<index, s>>].value
  <2>1. IsValue(v)
    BY <1>1 DEF IsDictionary, IsEntry
  <2>2. ReadU64(d, index, s) =
          IF v.alt \in {"uint", "bool"} \/ (v.alt = "int" /\ v.n >= 0) THEN v.n ELSE NoNumber
    BY <1>1 DEF ReadU64
  <2> HIDE DEF v
  <2> QED
    BY <2>1, <2>2, Widths DEF IsValue
<1>2. CASE <<index, s>> \notin DOMAIN d
  BY <1>2, Zenon DEF ReadU64
<1> QED
  BY <1>1, <1>2

LEMMA SignalCountType == TypeOK => SignalCount \in Subs
<1> SUFFICES ASSUME TypeOK PROVE SignalCount \in Subs
  OBVIOUS
<1>1. ReadU64(dictionary, MapIndex, 0) \in Int
  BY ReadU64Type DEF TypeOK, NoNumber
<1> QED
  BY <1>1, Widths, Remainder DEF SignalCount, Subs

LEMMA BuildTypeStep ==
    ASSUME TypeOK, SkipPdo \/ BeginPdo \/ MapSignal \/ EndPdo \/ RangeDone
    PROVE  TypeOK'
<1>1. UNCHANGED <<options, dictionary>> /\ phase \in OverriddenPhases /\ phase' \in OverriddenPhases
  BY DEF SkipPdo, BeginPdo, MapSignal, EndPdo, RangeDone, lineVars, OverriddenPhases
<1>2. IsDictionary(dictionary', phase')
  <2>1. IsDictionary(dictionary, phase)
    BY DEF TypeOK
  <2> QED
    BY <1>1, <2>1, LaterIsDictionary
<1>3. /\ range' \in {"receive", "transmit"} /\ offset' \in 0 .. Count
      /\ phase' = "mapping" => offset' < Count
  <2>1. offset \in 0 .. Count /\ range \in {"receive", "transmit"}
    BY DEF TypeOK
  <2>2. phase = "mapping" => offset < Count
    BY DEF TypeOK
  <2> QED
    BY <2>1, <2>2, Widths DEF SkipPdo, BeginPdo, MapSignal, EndPdo, RangeDone
<1>4. sub' \in Subs
  <2>1. sub \in Nat /\ sub \in Subs /\ 1 \in Subs
    BY Widths DEF TypeOK, Subs
  <2>2. (sub + 1) % ByteSize \in Subs
    BY <2>1, Widths, Remainder DEF Subs
  <2> QED
    BY <2>1, <2>2 DEF SkipPdo, BeginPdo, MapSignal, EndPdo, RangeDone, NextSub
<1>5. pdo'.dir = IF phase' = "mapping" THEN range' ELSE "none"
  <2>1. pdo.dir = IF phase = "mapping" THEN range ELSE "none"
    BY DEF TypeOK
  <2>2. CASE SkipPdo \/ RangeDone
    BY <2>1, <2>2 DEF SkipPdo, RangeDone
  <2>3. CASE BeginPdo
    BY <2>3 DEF BeginPdo
  <2>4. CASE MapSignal
    BY <2>1, <2>4 DEF MapSignal
  <2>5. CASE EndPdo
    BY <2>5 DEF EndPdo, NoPdo
  <2> QED
    BY <2>2, <2>3, <2>4, <2>5
<1> QED
  BY <1>1, <1>2, <1>3, <1>4, <1>5 DEF TypeOK, OverriddenPhases, Phases

LEMMA TypeStep ==
    ASSUME TypeOK, ConfigInv, [Next]_vars
    PROVE  TypeOK'
<1>1. CASE UNCHANGED vars
  BY <1>1 DEF TypeOK, vars, lineVars, buildVars
<1>2. CASE Next
  BY <1>2, ArgsTypeStep, FilesTypeStep, ApplyTypeStep, BuildTypeStep, Zenon DEF Next
<1> QED
  BY <1>1, <1>2

(* Types: in particular the values of the dictionary stay in the width and  *)
(* the range of their types, until an override writes its own.              *)
THEOREM TypeCorrect == Spec => []TypeOK
BY TypeInit, TypeStep, ConfigInvariant, PTL DEF Spec

-----------------------------------------------------------------------------
(* Overrides and mapping objects.                                           *)

LEMMA MappingUntouched ==
    ASSUME NEW dir \in {"receive", "transmit"}, NEW section,
           \A n \in DOMAIN section : n \in Nat \ {0} /\ n <= Count,
           NEW t \in Touched(CommStart(dir), section), NEW index \in MappingIndices, NEW s
    PROVE  t.key # <<index, s>>
<1>1. PICK n \in DOMAIN section : \E x \in DOMAIN section[n] :
              t.key = <<CommIndex(CommStart(dir), n), x>> /\ t.n = section[n][x]
  BY TouchedType
<1>2. CommIndex(CommStart(dir), n) \in CommStart(dir) .. CommStart(dir) + Count - 1
  <2>1. n \in Nat /\ CommStart(dir) \in Nat /\ CommStart(dir) + n - 1 \in 0 .. WordSize - 1
    BY Widths DEF CommStart
  <2>2. CommIndex(CommStart(dir), n) = CommStart(dir) + n - 1
    BY <2>1, Widths DEF CommIndex
  <2> QED
    BY <2>1, <2>2, Widths
<1>3. index \notin CommStart(dir) .. CommStart(dir) + Count - 1
  BY Widths DEF MappingIndices, MapStart, CommStart
<1> QED
  BY <1>1, <1>2, <1>3

LEMMA OverriddenKeepsMappings ==
    ASSUME NEW dir \in {"receive", "transmit"}, NEW section, NEW d,
           \A n \in DOMAIN section : n \in Nat \ {0} /\ n <= Count,
           NEW index \in MappingIndices, NEW s
    PROVE  ReadU64(Overridden(d, CommStart(dir), section), index, s) = ReadU64(d, index, s)
<1> DEFINE start == CommStart(dir)
           touched == Touched(start, section)
           New(k) == {EntryWith(d, k, t.n) : t \in {t \in touched : t.key = k}}
           Old(k) == IF k \in DOMAIN d THEN d[k] ELSE NewEntry
           keys == DOMAIN d \cup {t.key : t \in touched}
           key == <<index, s>>
           e == Overridden(d, start, section)
<1> SUFFICES ReadU64(e, index, s) = ReadU64(d, index, s)
  OBVIOUS
<1>1. e = [k \in keys |-> Sole(New(k), Old(k))]
  BY Zenon DEF Overridden
<1>2. \A t \in touched : t.key # key
  BY MappingUntouched
<1>3. DOMAIN e = keys /\ (key \in keys <=> key \in DOMAIN d)
  <2>1. DOMAIN e = keys
    BY <1>1
  <2> QED
    BY <1>2, <2>1
<1>4. key \in DOMAIN d => e[key] = d[key]
  <2>1. New(key) = {}
    BY <1>2
  <2>2. Sole(New(key), Old(key)) = Old(key)
    BY <2>1, Zenon DEF Sole
  <2> HIDE DEF New
  <2> QED
    BY <1>1, <1>3, <2>2
<1> HIDE DEF e, keys
<1> QED
  BY <1>3, <1>4, Zenon DEF ReadU64

(* Overrides of PDO numbers up to the size of a range never reach a mapping *)
(* object, so what the builder maps is what the EDS file and the defaults   *)
(* say.                                                                     *)
THEOREM MappingsKeptHolds == Spec => MappingsKept
<1>1. ASSUME ConfigInv, [Next]_vars, NumbersInRange, phase \in {"rpdo", "tpdo"},
             NEW index \in MappingIndices, NEW s \in Subs
      PROVE  ReadU64(dictionary, index, s) = ReadU64(dictionary', index, s)
  <2>1. \/ dictionary' = dictionary
        \/ dictionary' = Overridden(dictionary, CommStart("receive"), config.rpdo)
        \/ dictionary' = Overridden(dictionary, CommStart("transmit"), config.tpdo)
    BY <1>1 DEF Next, vars, PathOption, NodeIdOption, OtherOption, IgnoredWord, ArgsDone, LoadConfig,
                OpenEds, ParseLine, ParseSection, Parsed, ApplyDefault, DefaultsDone,
                ApplyRpdoOverrides, ApplyTpdoOverrides, SkipPdo, BeginPdo, MapSignal, EndPdo,
                RangeDone, HasOption
  <2>2. \A section \in {config.rpdo, config.tpdo} : \A n \in DOMAIN section :
           n \in Nat \ {0} /\ n <= Count
    BY <1>1, Widths DEF ConfigInv, NumbersInRange, Indices
  <2> QED
    BY <2>1, <2>2, OverriddenKeepsMappings
<1>2. ConfigInv /\ [Next]_vars =>
        [NumbersInRange /\ phase \in {"rpdo", "tpdo"} =>
            \A index \in MappingIndices, s \in Subs :
                ReadU64(dictionary, index, s) = ReadU64(dictionary', index, s)]_vars
  BY <1>1
<1> QED
  BY <1>2, ConfigInvariant, PTL DEF Spec, MappingsKept

-----------------------------------------------------------------------------
(* What PdoBuilder builds.                                                  *)

LEMMA CountType ==
    ASSUME NEW d, NEW stage, IsDictionary(d, stage), NEW index
    PROVE  ReadU64(d, index, 0) % ByteSize \in Nat /\ ReadU64(d, index, 0) % ByteSize \in Subs
<1> DEFINE count == ReadU64(d, index, 0)
<1>1. count \in Int
  BY ReadU64Type DEF NoNumber
<1> HIDE DEF count
<1>2. count % ByteSize \in 0 .. ByteSize - 1
  BY <1>1, Widths, Remainder
<1> QED
  BY <1>2, Widths DEF Subs, count

(* The words of a mapping object, one after the other.                      *)
LEMMA SignalsUnfold ==
    ASSUME NEW d, NEW stage, IsDictionary(d, stage), NEW index,
           ReadU64(d, index, 0) # NoNumber
    PROVE  LET upto  == SignalsUpto(d, index)
               count == ReadU64(d, index, 0) % ByteSize
           IN  /\ upto[0] = <<>>
               /\ \A s \in 1 .. count :
                     upto[s] = IF ReadU64(d, index, s) = NoNumber THEN upto[s - 1]
                               ELSE Append(upto[s - 1], Unpack(ReadU64(d, index, s)))
<1> DEFINE n == ReadU64(d, index, 0) % ByteSize
           R(s) == ReadU64(d, index, s)
           S == Seq({Unpack(R(s)) : s \in 1 .. n})
           step == [s \in 1 .. n |-> [x \in S |-> IF R(s) = NoNumber THEN x ELSE Append(x, Unpack(R(s)))]]
           upto == SignalsUpto(d, index)
           Step(s, x) == IF R(s) = NoNumber THEN x ELSE Append(x, Unpack(R(s)))
<1>1. n \in Nat
  BY CountType
<1>2. step \in [1 .. n -> [S -> S]] /\ <<>> \in S
  <2> SUFFICES ASSUME NEW s \in 1 .. n, NEW x \in S PROVE Step(s, x) \in S
    OBVIOUS
  <2>1. Unpack(R(s)) \in {Unpack(R(i)) : i \in 1 .. n}
    OBVIOUS
  <2> HIDE DEF n, R
  <2> QED
    BY <2>1
<1>3. PICK f \in [0 .. n -> S] : Recurs(f, <<>>, step, n)
  <2> HIDE DEF S, step, n
  <2> QED
    BY <1>1, <1>2, RecursiveFunctionExists
<1>4. ASSUME NEW s \in 1 .. n PROVE f[s] = Step(s, f[s - 1])
  <2>1. f[s] = step[s][f[s - 1]]
    <3> HIDE DEF S, step, n, R
    <3> QED
      BY <1>3 DEF Recurs
  <2>2. f[s - 1] \in S
    <3> HIDE DEF S, n
    <3> QED
      BY <1>1
  <2> HIDE DEF S, n, R, Step
  <2>3. step[s][f[s - 1]] = Step(s, f[s - 1])
    BY <2>2 DEF Step
  <2> QED
    BY <2>1, <2>3
<1>5. f = [s \in 0 .. n |-> IF s = 0 THEN <<>> ELSE Step(s, f[s - 1])]
  <2> HIDE DEF S, n, R, step, Step
  <2> QED
    BY <1>3, <1>4 DEF Recurs
<1>6. upto = [s \in 0 .. n |-> IF s = 0 THEN <<>> ELSE Step(s, upto[s - 1])]
  BY <1>5, Zenon DEF SignalsUpto
<1>7. ASSUME NEW s \in 1 .. n
      PROVE  upto[s] = Step(s, upto[s - 1])
  <2>1. s \in 0 .. n /\ s # 0
    <3> HIDE DEF n
    <3> QED
      BY <1>1
  <2> HIDE DEF upto, n, R, Step
  <2> QED
    BY <1>6, <2>1, Zenon
<1>8. upto[0] = <<>>
  <2>1. 0 \in 0 .. n
    <3> HIDE DEF n
    <3> QED
      BY <1>1
  <2> HIDE DEF upto, n, R, Step
  <2> QED
    BY <1>6, <2>1, Zenon
<1> QED
  BY <1>7, <1>8

(* They are no more than the words.                                         *)
LEMMA SignalsBound ==
    ASSUME NEW d, NEW stage, IsDictionary(d, stage), NEW index,
           ReadU64(d, index, 0) # NoNumber,
           NEW s \in 0 .. ReadU64(d, index, 0) % ByteSize
    PROVE  /\ SignalsUpto(d, index)[s] \in Seq({Unpack(ReadU64(d, index, i)) : i \in Nat})
           /\ Len(SignalsUpto(d, index)[s]) <= s
<1> DEFINE n == ReadU64(d, index, 0) % ByteSize
           R(i) == ReadU64(d, index, i)
           words == {Unpack(R(i)) : i \in Nat}
           upto == SignalsUpto(d, index)
           T == {i \in Nat : i <= n => upto[i] \in Seq(words) /\ Len(upto[i]) <= i}
<1>1. n \in Nat
  BY CountType
<1>2. upto[0] = <<>> /\ \A i \in 1 .. n :
        upto[i] = IF R(i) = NoNumber THEN upto[i - 1] ELSE Append(upto[i - 1], Unpack(R(i)))
  BY SignalsUnfold
<1>3. 0 \in T
  <2> HIDE DEF upto, n, R, words
  <2> SUFFICES upto[0] \in Seq(words) /\ Len(upto[0]) <= 0
    OBVIOUS
  <2>1. upto[0] = <<>>
    BY <1>2
  <2> QED
    BY <2>1, EmptySeq
<1>4. ASSUME NEW i \in Nat, i \in T PROVE i + 1 \in T
  <2> SUFFICES ASSUME i + 1 <= n PROVE upto[i + 1] \in Seq(words) /\ Len(upto[i + 1]) <= i + 1
    OBVIOUS
  <2>1. Unpack(R(i + 1)) \in words
    OBVIOUS
  <2>2. upto[i] \in Seq(words) /\ Len(upto[i]) <= i /\ (i + 1) - 1 = i /\ i + 1 \in 1 .. n
    <3> HIDE DEF upto, n, words
    <3> QED
      BY <1>1, <1>4
  <2> HIDE DEF upto, n, R, words
  <2>3. upto[i + 1] = IF R(i + 1) = NoNumber THEN upto[i] ELSE Append(upto[i], Unpack(R(i + 1)))
    BY <1>2, <2>2
  <2> QED
    BY <2>1, <2>2, <2>3
<1>5. Nat \subseteq T
  <2> HIDE DEF T
  <2> QED
    BY <1>3, <1>4, SetInduction
<1>6. s \in Nat /\ s <= n
  <2> HIDE DEF n
  <2> SUFFICES ASSUME s \in 0 .. n PROVE s \in Nat /\ s <= n
    BY DEF n
  <2> QED
    BY <1>1
<1> QED
  BY <1>5, <1>6

(* Up to the builder nothing is built.                                      *)
LEMMA UnstartedBuilds == range = "receive" /\ offset = 0 /\ pdos = <<>> => BuiltInv
<1> SUFFICES ASSUME range = "receive", offset = 0, pdos = <<>> PROVE BuiltInv
  OBVIOUS
<1>1. Len(pdos) = 0 /\ ToSet(pdos) = {} /\ pdos \in Seq({})
  BY EmptySeq DEF ToSet
<1>2. \A dir \in {"receive", "transmit"}, number \in 1 .. Count : ~Passed(dir, number)
  BY DEF Passed
<1> QED
  BY <1>1, <1>2 DEF BuiltInv

LEMMA BuildInit == Init => BuildInv
<1> SUFFICES ASSUME Init PROVE BuildInv
  OBVIOUS
<1>1. phase = "args" /\ range = "receive" /\ offset = 0 /\ pdos = <<>>
  BY Zenon DEF Init
<1> QED
  BY <1>1, UnstartedBuilds DEF BuildInv, FillingInv, Unstarted, AllPassed

LEMMA UnstartedStep ==
    ASSUME BuildInv, phase \notin {"build", "mapping", "done"}, [Next]_vars
    PROVE  BuildInv'
<1>1. UNCHANGED <<range, offset, pdos>> /\ phase' \notin {"mapping", "done"}
  BY DEF Next, vars, buildVars, PathOption, NodeIdOption, OtherOption, IgnoredWord, ArgsDone,
         LoadConfig, OpenEds, ParseLine, ParseSection, Parsed, ApplyDefault, DefaultsDone,
         ApplyRpdoOverrides, ApplyTpdoOverrides, SkipPdo, BeginPdo, MapSignal, EndPdo,
         RangeDone, HasOption
<1>2. (range = "receive" /\ offset = 0 /\ pdos = <<>>)'
  BY <1>1 DEF BuildInv, Unstarted
<1>3. BuiltInv'
  BY <1>2, UnstartedBuilds, PTL
<1> QED
  BY <1>1, <1>2, <1>3 DEF BuildInv, FillingInv, Unstarted, AllPassed

(* A PDO that is passed over has no count.                                  *)
LEMMA SkipStep ==
    ASSUME TypeOK, BuildInv, SkipPdo
    PROVE  BuildInv'
<1>1. /\ phase = "build" /\ offset < Count /\ ReadU64(dictionary, MapIndex, 0) = NoNumber
      /\ offset' = offset + 1 /\ UNCHANGED <<dictionary, phase, range, pdos>>
  BY DEF SkipPdo
<1>2. offset \in Nat /\ range \in {"receive", "transmit"}
  BY Widths DEF TypeOK
<1>3. BuiltInv
  BY DEF BuildInv
<1>4. \A dir \in {"receive", "transmit"}, number \in 1 .. Count :
        Passed(dir, number)' <=> Passed(dir, number) \/ (dir = range /\ number = offset + 1)
  BY <1>1, <1>2 DEF Passed
<1>5. ASSUME NEW n \in 1 .. Len(pdos) PROVE ~(pdos[n].dir = range /\ pdos[n].number = offset + 1)
  BY <1>2, <1>3 DEF BuiltInv, Passed
<1>6. MapIndex = MapStart(range) + (offset + 1) - 1
  BY <1>2, Widths DEF MapIndex, MapStart, CommStart
<1>7. BuiltInv'
  <2>1. pdos' \in Seq(ToSet(pdos'))
    BY <1>1, <1>3 DEF BuiltInv
  <2>2. ASSUME NEW n \in 1 .. Len(pdos')
        PROVE  /\ pdos'[n].dir \in {"receive", "transmit"} /\ pdos'[n].number \in 1 .. Count
               /\ Passed(pdos[n].dir, pdos[n].number)' /\ Complete(dictionary', pdos'[n])
               /\ \A m \in 1 .. n - 1 : Precedes(pdos'[m], pdos'[n])
    BY <1>1, <1>3, <1>4 DEF BuiltInv
  <2>3. ASSUME NEW dir \in {"receive", "transmit"}, NEW number \in 1 .. Count, Passed(dir, number)'
        PROVE  (\E n \in 1 .. Len(pdos') : pdos'[n].dir = dir /\ pdos'[n].number = number)
               <=> ReadU64(dictionary', MapStart(dir) + number - 1, 0) # NoNumber
    <3>1. CASE Passed(dir, number)
      BY <1>1, <1>3, <3>1 DEF BuiltInv
    <3>2. CASE dir = range /\ number = offset + 1
      BY <1>1, <1>5, <1>6, <3>2
    <3> QED
      BY <1>4, <2>3, <3>1, <3>2
  <2> QED
    BY <2>1, <2>2, <2>3 DEF BuiltInv
<1> QED
  BY <1>1, <1>7 DEF BuildInv, FillingInv, Unstarted, AllPassed

LEMMA BuiltUnchanged ==
    ASSUME BuiltInv, UNCHANGED <<dictionary, range, offset, pdos>>
    PROVE  BuiltInv'
BY DEF BuiltInv, Passed

(* A PDO begins with no signals, at the first word.                         *)
LEMMA BeginStep ==
    ASSUME TypeOK, BuildInv, BeginPdo
    PROVE  BuildInv'
<1>1. /\ phase = "build" /\ ReadU64(dictionary, MapIndex, 0) # NoNumber
      /\ pdo' = [dir |-> range, number |-> offset + 1, signals |-> <<>>,
                 communication |-> Communication(dictionary, CommIndexOf)]
      /\ sub' = 1 /\ phase' = "mapping" /\ UNCHANGED <<dictionary, range, offset, pdos>>
  BY DEF BeginPdo
<1>2. MapIndex' = MapIndex /\ SignalCount' = SignalCount /\ CommIndexOf' = CommIndexOf
  BY <1>1 DEF MapIndex, SignalCount, CommIndexOf
<1>3. SignalCount \in Nat
  BY SignalCountType, Widths DEF Subs
<1>4. SignalsUpto(dictionary, MapIndex)[0] = <<>>
  BY <1>1, SignalsUnfold DEF TypeOK
<1> DEFINE c == Communication(dictionary, CommIndexOf)
<1>5. /\ pdo' = [dir |-> range', number |-> offset' + 1, signals |-> pdo'.signals,
                 communication |-> Communication(dictionary', CommIndexOf')]
      /\ pdo'.signals = <<>>
  <2> HIDE DEF c
  <2>1. pdo' = [dir |-> range, number |-> offset + 1, signals |-> <<>>, communication |-> c]
    BY <1>1 DEF c
  <2>2. pdo'.signals = <<>>
    BY <2>1
  <2>3. Communication(dictionary', CommIndexOf') = c
    BY <1>1, <1>2 DEF c
  <2> QED
    BY <1>1, <2>1, <2>2, <2>3
<1>6. sub' \in 1 .. SignalCount + 1 /\ sub' - 1 = 0
  BY <1>1, <1>3
<1>7. FillingInv'
  BY <1>1, <1>2, <1>4, <1>5, <1>6 DEF FillingInv
<1> QED
  BY <1>1, <1>7, BuiltUnchanged DEF BuildInv, Unstarted, AllPassed

LEMMA SuccessorFits ==
    ASSUME NEW b \in Nat, NEW c \in Nat, NEW s \in Nat, s <= c, c < b - 1
    PROVE  (s + 1) % b = s + 1
OBVIOUS

LEMMA BelowBound ==
    ASSUME NEW b \in Nat, NEW c \in Nat, NEW s \in Nat, NEW l \in Nat, NEW m \in Nat,
           s <= c, c < b - 1, l <= s - 1, m >= b
    PROVE  l # m
OBVIOUS

(* Each word adds its signal; below ByteSize - 1 of them the loop variable  *)
(* does not wrap.                                                           *)
LEMMA MapStep ==
    ASSUME TypeOK, BuildInv, MapSignal
    PROVE  BuildInv'
<1> DEFINE word == ReadU64(dictionary, MapIndex, sub)
           upto == SignalsUpto(dictionary, MapIndex)
<1>1. /\ phase = "mapping" /\ sub <= SignalCount
      /\ pdo' = IF word = NoNumber \/ Len(pdo.signals) = MaxSignals THEN pdo
                ELSE [pdo EXCEPT !.signals = Append(@, Unpack(word))]
      /\ sub' = (sub + 1) % ByteSize /\ UNCHANGED <<dictionary, phase, range, offset, pdos>>
  BY DEF MapSignal, NextSub
<1>2. MapIndex' = MapIndex /\ SignalCount' = SignalCount /\ CommIndexOf' = CommIndexOf
  BY <1>1 DEF MapIndex, SignalCount, CommIndexOf
<1>3. SignalCount \in Nat /\ SignalCount < ByteSize /\ sub \in Nat
  BY SignalCountType, Widths DEF Subs, TypeOK
<1> DEFINE c == Communication(dictionary, CommIndexOf)
<1>4. /\ ReadU64(dictionary, MapIndex, 0) # NoNumber
      /\ pdo = [dir |-> range, number |-> offset + 1, signals |-> pdo.signals, communication |-> c]
  BY <1>1 DEF BuildInv, FillingInv
<1>5. pdo' = [dir |-> range', number |-> offset' + 1, signals |-> pdo'.signals,
              communication |-> Communication(dictionary', CommIndexOf')]
  <2> HIDE DEF c, word
  <2>1. Communication(dictionary', CommIndexOf') = c
    BY <1>1, <1>2 DEF c
  <2>2. CASE pdo' = pdo
    BY <1>1, <1>4, <2>1, <2>2
  <2>3. CASE pdo' # pdo
    <3>1. pdo' = [pdo EXCEPT !.signals = Append(pdo.signals, Unpack(word))]
      BY <1>1, <2>3
    <3>2. pdo' = [dir |-> range, number |-> offset + 1,
                  signals |-> Append(pdo.signals, Unpack(word)), communication |-> c]
      BY <1>4, <3>1
    <3>3. pdo'.signals = Append(pdo.signals, Unpack(word))
      BY <3>2
    <3> QED
      BY <1>1, <2>1, <3>2, <3>3
  <2> QED
    BY <2>2, <2>3
<1>6. ASSUME SignalCount < ByteSize - 1
      PROVE  sub' \in 1 .. SignalCount + 1 /\ pdo'.signals = upto[sub' - 1]
  <2>1. sub \in 1 .. SignalCount + 1 /\ pdo.signals = upto[sub - 1]
    BY <1>1, <1>6 DEF BuildInv, FillingInv
  <2>2. sub' = sub + 1
    <3>1. (sub + 1) % ByteSize = sub + 1
      BY <1>1, <1>3, <1>6, Widths, SuccessorFits
    <3> QED
      BY <1>1, <3>1, Zenon
  <2>3. sub \in 1 .. SignalCount /\ sub - 1 \in 0 .. SignalCount
    BY <1>1, <1>3, <2>1
  <2>4. Len(upto[sub - 1]) <= sub - 1 /\ Len(upto[sub - 1]) \in Nat
    BY <1>4, <2>3, SignalsBound, LenProperties DEF TypeOK, SignalCount
  <2>5. Len(pdo.signals) # MaxSignals
    <3>1. Len(pdo.signals) \in Nat /\ Len(pdo.signals) <= sub - 1
      BY <2>1, <2>4, Zenon
    <3> QED
      BY <1>1, <1>3, <1>6, <3>1, Widths, BelowBound
  <2>6. upto[sub] = IF word = NoNumber THEN upto[sub - 1] ELSE Append(upto[sub - 1], Unpack(word))
    BY <1>4, <2>3, SignalsUnfold DEF TypeOK, SignalCount
  <2>7. pdo'.signals = IF word = NoNumber THEN pdo.signals ELSE Append(pdo.signals, Unpack(word))
    <3> HIDE DEF word, c
    <3>1. CASE word = NoNumber
      BY <1>1, <3>1
    <3>2. CASE word # NoNumber
      <4>1. pdo' = [pdo EXCEPT !.signals = Append(pdo.signals, Unpack(word))]
        BY <1>1, <2>5, <3>2
      <4> QED
        BY <1>4, <3>2, <4>1
    <3> QED
      BY <3>1, <3>2
  <2>8. pdo'.signals = upto[sub]
    <3> HIDE DEF word, upto
    <3> QED
      BY <2>1, <2>6, <2>7
  <2>9. sub' - 1 = sub /\ sub' \in 1 .. SignalCount + 1
    BY <1>3, <2>2, <2>3
  <2> QED
    BY <2>8, <2>9
<1>7. FillingInv'
  <2>1. SignalCount' < ByteSize - 1 =>
          /\ sub' \in 1 .. SignalCount' + 1
          /\ pdo'.signals = SignalsUpto(dictionary', MapIndex')[sub' - 1]
    BY <1>1, <1>2, <1>6
  <2>2. ReadU64(dictionary', MapIndex', 0) # NoNumber
    BY <1>1, <1>2, <1>4
  <2> QED
    BY <1>5, <2>1, <2>2 DEF FillingInv
<1> QED
  BY <1>1, <1>7, BuiltUnchanged DEF BuildInv, Unstarted, AllPassed

(* The loop variable passes the count only below ByteSize - 1 entries.      *)
LEMMA EndedCount ==
    ASSUME TypeOK, BuildInv, phase = "mapping", sub > SignalCount
    PROVE  Complete(dictionary, pdo) /\ pdo.dir = range /\ pdo.number = offset + 1
<1> DEFINE c == Communication(dictionary, CommIndexOf)
<1>1. SignalCount \in Nat /\ sub \in Nat /\ sub < ByteSize
  BY SignalCountType, Widths DEF Subs, TypeOK
<1>2. SignalCount < ByteSize - 1
  BY <1>1, Widths
<1>3. /\ pdo = [dir |-> range, number |-> offset + 1, signals |-> pdo.signals, communication |-> c]
      /\ sub \in 1 .. SignalCount + 1 /\ pdo.signals = SignalsUpto(dictionary, MapIndex)[sub - 1]
  BY <1>2 DEF BuildInv, FillingInv
<1>4. sub - 1 = SignalCount
  BY <1>1, <1>3
<1>5. pdo.signals = SignalsFor(dictionary, MapIndex)
  BY <1>3, <1>4 DEF SignalsFor, SignalCount
<1>6. pdo.dir = range /\ pdo.number = offset + 1 /\ pdo.communication = c
  <2> HIDE DEF c
  <2> QED
    BY <1>3
<1>7. offset \in Nat /\ range \in {"receive", "transmit"}
  BY Widths DEF TypeOK
<1>8. MapStart(range) + (offset + 1) - 1 = MapIndex /\ MapIndex - Count = CommIndexOf
  BY <1>7, Widths DEF MapIndex, CommIndexOf, MapStart, CommStart
<1> QED
  BY <1>5, <1>6, <1>8 DEF Complete

LEMMA EndStep ==
    ASSUME TypeOK, BuildInv, EndPdo
    PROVE  BuildInv'
<1>1. /\ phase = "mapping" /\ sub > SignalCount
      /\ pdos' = Append(pdos, pdo) /\ offset' = offset + 1 /\ phase' = "build"
      /\ UNCHANGED <<dictionary, range>>
  BY DEF EndPdo
<1>2. offset \in Nat /\ offset < Count /\ range \in {"receive", "transmit"}
  BY <1>1, Widths DEF TypeOK
<1>3. BuiltInv /\ ReadU64(dictionary, MapIndex, 0) # NoNumber
  BY <1>1 DEF BuildInv, FillingInv
<1>4. Complete(dictionary, pdo) /\ pdo.dir = range /\ pdo.number = offset + 1
  BY <1>1, EndedCount
<1>5. \A dir \in {"receive", "transmit"}, number \in 1 .. Count :
        Passed(dir, number)' <=> Passed(dir, number) \/ (dir = range /\ number = offset + 1)
  BY <1>1, <1>2 DEF Passed
<1>6. MapIndex = MapStart(range) + (offset + 1) - 1
  BY <1>2, Widths DEF MapIndex, MapStart, CommStart
<1> DEFINE len == Len(pdos)
<1>7. /\ len \in Nat /\ Len(pdos') = len + 1 /\ pdos' \in Seq(ToSet(pdos'))
      /\ \A n \in 1 .. len : pdos'[n] = pdos[n]
      /\ pdos'[len + 1] = pdo
  <2>1. pdos \in Seq(ToSet(pdos) \cup {pdo}) /\ pdo \in ToSet(pdos) \cup {pdo}
    BY <1>3 DEF BuiltInv
  <2>2. /\ pdos' \in Seq(ToSet(pdos) \cup {pdo}) /\ len \in Nat /\ Len(pdos') = len + 1
        /\ \A n \in 1 .. len : pdos'[n] = pdos[n]
        /\ pdos'[len + 1] = pdo
    BY <1>1, <2>1, AppendProperties, LenProperties
  <2>3. \A n \in 1 .. Len(pdos') : pdos'[n] \in ToSet(pdos')
    BY <2>2, LenProperties DEF ToSet
  <2>4. pdos' \in Seq(ToSet(pdos'))
    BY <2>2, <2>3, LenProperties
  <2> QED
    BY <2>2, <2>4
<1>8. ASSUME NEW n \in 1 .. len PROVE ~(pdos[n].dir = range /\ pdos[n].number = offset + 1)
  BY <1>2, <1>3 DEF BuiltInv, Passed
<1>9. ASSUME NEW n \in 1 .. len PROVE Precedes(pdos[n], pdo)
  BY <1>2, <1>3, <1>4 DEF BuiltInv, Passed, Precedes
<1>10. BuiltInv'
  <2>1. ASSUME NEW n \in 1 .. Len(pdos')
        PROVE  /\ pdos'[n].dir \in {"receive", "transmit"} /\ pdos'[n].number \in 1 .. Count
               /\ Passed(pdos[n].dir, pdos[n].number)' /\ Complete(dictionary', pdos'[n])
               /\ \A m \in 1 .. n - 1 : Precedes(pdos'[m], pdos'[n])
    <3>1. CASE n = len + 1
      <4>1. offset + 1 \in 1 .. Count
        BY <1>2, Widths
      <4>2. Passed(pdos[n].dir, pdos[n].number)'
        BY <1>1, <1>2, <1>4, <1>7, <3>1 DEF Passed
      <4>3. \A m \in 1 .. n - 1 : Precedes(pdos'[m], pdos'[n])
        BY <1>7, <1>9, <3>1
      <4> QED
        BY <1>1, <1>2, <1>4, <1>7, <3>1, <4>1, <4>2, <4>3
    <3>2. CASE n \in 1 .. len
      <4>1. /\ pdos[n].dir \in {"receive", "transmit"} /\ pdos[n].number \in 1 .. Count
            /\ Passed(pdos[n].dir, pdos[n].number) /\ Complete(dictionary, pdos[n])
            /\ \A m \in 1 .. n - 1 : Precedes(pdos[m], pdos[n])
        BY <1>3, <3>2 DEF BuiltInv
      <4>2. Passed(pdos[n].dir, pdos[n].number)'
        BY <1>1, <1>2, <1>7, <3>2, <4>1 DEF Passed
      <4>3. \A m \in 1 .. n - 1 : pdos'[m] = pdos[m]
        BY <1>7, <3>2
      <4> QED
        BY <1>1, <1>7, <3>2, <4>1, <4>2, <4>3
    <3> QED
      BY <1>7, <3>1, <3>2
  <2>2. ASSUME NEW dir \in {"receive", "transmit"}, NEW number \in 1 .. Count, Passed(dir, number)'
        PROVE  (\E n \in 1 .. Len(pdos') : pdos'[n].dir = dir /\ pdos'[n].number = number)
               <=> ReadU64(dictionary', MapStart(dir) + number - 1, 0) # NoNumber
    <3>1. CASE dir = range /\ number = offset + 1
      <4>1. pdos'[len + 1].dir = dir /\ pdos'[len + 1].number = number /\ len + 1 \in 1 .. Len(pdos')
        BY <1>4, <1>7, <3>1
      <4> QED
        BY <1>1, <1>3, <1>6, <3>1, <4>1
    <3>2. CASE ~(dir = range /\ number = offset + 1)
      <4>1. Passed(dir, number)
        BY <1>5, <2>2, <3>2
      <4>2. (\E n \in 1 .. len : pdos[n].dir = dir /\ pdos[n].number = number)
               <=> ReadU64(dictionary, MapStart(dir) + number - 1, 0) # NoNumber
        BY <1>3, <4>1 DEF BuiltInv
      <4>3. (\E n \in 1 .. Len(pdos') : pdos'[n].dir = dir /\ pdos'[n].number = number)
               <=> (\E n \in 1 .. len : pdos[n].dir = dir /\ pdos[n].number = number)
        BY <1>4, <1>7, <3>2
      <4> QED
        BY <1>1, <4>2, <4>3
    <3> QED
      BY <3>1, <3>2
  <2> QED
    BY <1>7, <2>1, <2>2 DEF BuiltInv
<1> QED
  BY <1>1, <1>10 DEF BuildInv, FillingInv, Unstarted, AllPassed

(* A range is done when all its objects are passed.                         *)
LEMMA RangeStep ==
    ASSUME TypeOK, BuildInv, RangeDone
    PROVE  BuildInv'
<1>1. /\ phase = "build" /\ offset = Count /\ UNCHANGED <<dictionary, pdos>>
      /\ \/ range = "receive" /\ range' = "transmit" /\ offset' = 0 /\ phase' = phase
         \/ range # "receive" /\ phase' = "done" /\ UNCHANGED <<range, offset>>
  BY DEF RangeDone
<1>2. BuiltInv /\ range \in {"receive", "transmit"}
  BY DEF BuildInv, TypeOK
<1>3. CASE range = "transmit"
  <2>1. BuiltInv'
    BY <1>1, <1>2, <1>3, BuiltUnchanged
  <2> QED
    BY <1>1, <1>3, <2>1 DEF BuildInv, FillingInv, Unstarted, AllPassed
<1>4. CASE range = "receive"
  <2>1. range' = "transmit" /\ offset' = 0 /\ phase' = "build"
    BY <1>1, <1>4
  <2>2. \A dir \in {"receive", "transmit"}, number \in 1 .. Count :
          Passed(dir, number)' <=> Passed(dir, number)
    BY <1>1, <1>4, <2>1, Widths DEF Passed
  <2>3. BuiltInv'
    <3>1. ASSUME NEW n \in 1 .. Len(pdos')
          PROVE  /\ pdos'[n].dir \in {"receive", "transmit"} /\ pdos'[n].number \in 1 .. Count
                 /\ Passed(pdos[n].dir, pdos[n].number)' /\ Complete(dictionary', pdos'[n])
                 /\ \A m \in 1 .. n - 1 : Precedes(pdos'[m], pdos'[n])
      <4>1. /\ pdos[n].dir \in {"receive", "transmit"} /\ pdos[n].number \in 1 .. Count
            /\ Passed(pdos[n].dir, pdos[n].number) /\ Complete(dictionary, pdos[n])
            /\ \A m \in 1 .. n - 1 : Precedes(pdos[m], pdos[n])
        BY <1>1, <1>2 DEF BuiltInv
      <4>2. Passed(pdos[n].dir, pdos[n].number)'
        BY <1>1, <1>4, <2>1, <4>1 DEF Passed
      <4> QED
        BY <1>1, <4>1, <4>2
    <3>2. ASSUME NEW dir \in {"receive", "transmit"}, NEW number \in 1 .. Count, Passed(dir, number)'
          PROVE  (\E n \in 1 .. Len(pdos') : pdos'[n].dir = dir /\ pdos'[n].number = number)
                 <=> ReadU64(dictionary', MapStart(dir) + number - 1, 0) # NoNumber
      <4>1. Passed(dir, number)
        BY <2>2, <3>2
      <4> QED
        BY <1>1, <1>2, <4>1 DEF BuiltInv
    <3>3. pdos' \in Seq(ToSet(pdos'))
      BY <1>1, <1>2 DEF BuiltInv
    <3> QED
      BY <3>1, <3>2, <3>3 DEF BuiltInv
  <2> QED
    BY <1>1, <2>1, <2>3 DEF BuildInv, FillingInv, Unstarted, AllPassed
<1> QED
  BY <1>2, <1>3, <1>4

LEMMA BuildStep ==
    ASSUME TypeOK, BuildInv, [Next]_vars
    PROVE  BuildInv'
<1>1. CASE UNCHANGED vars
  <2>1. BuiltInv'
    BY <1>1, BuiltUnchanged DEF vars, buildVars, BuildInv
  <2> QED
    BY <1>1, <2>1 DEF vars, buildVars, BuildInv, FillingInv, Unstarted, AllPassed, MapIndex,
                      SignalCount, CommIndexOf
<1>2. CASE phase \notin {"build", "mapping", "done"}
  BY <1>2, UnstartedStep
<1>3. CASE phase \in {"build", "mapping", "done"} /\ Next
  <2>1. SkipPdo \/ BeginPdo \/ MapSignal \/ EndPdo \/ RangeDone
    BY <1>3 DEF Next, PathOption, NodeIdOption, OtherOption, IgnoredWord, ArgsDone, LoadConfig,
                OpenEds, ParseLine, ParseSection, Parsed, ApplyDefault, DefaultsDone,
                ApplyRpdoOverrides, ApplyTpdoOverrides, HasOption
  <2> QED
    BY <2>1, SkipStep, BeginStep, MapStep, EndStep, RangeStep
<1> QED
  BY <1>1, <1>2, <1>3

(* Half-way through the builder's loops, the definitions built are those of *)
(* the mapping objects passed, and the one being filled has the signals of  *)
(* the words passed.                                                        *)
THEOREM BuildInvariant == Spec => []BuildInv
BY BuildInit, BuildStep, TypeCorrect, PTL DEF Spec

(* When start-up ends there is exactly one definition per mapping object    *)
(* with a count, in order, with its own communication object and signals.   *)
THEOREM BuildMatchesDictionaryHolds == Spec => []BuildMatchesDictionary
<1>1. ASSUME BuildInv, phase = "done" PROVE BuildMatchesDictionary
  <2>1. BuiltInv /\ range = "transmit" /\ offset = Count
    BY <1>1 DEF BuildInv, AllPassed
  <2>2. DOMAIN pdos = 1 .. Len(pdos) /\ Len(pdos) \in Nat
    BY <2>1, LenProperties DEF BuiltInv
  <2>3. ASSUME NEW dir \in {"receive", "transmit"}, NEW number \in 1 .. Count
        PROVE  LET index == MapStart(dir) + number - 1
                   built == {p \in ToSet(pdos) : p.dir = dir /\ p.number = number}
               IN  /\ built # {} <=> ReadU64(dictionary, index, 0) # NoNumber
                   /\ \A p \in built :
                        /\ p.signals = SignalsFor(dictionary, index)
                        /\ p.communication = Communication(dictionary, index - Count)
    <3> DEFINE index == MapStart(dir) + number - 1
               built == {p \in ToSet(pdos) : p.dir = dir /\ p.number = number}
    <3>1. Passed(dir, number)
      BY <2>1, Widths DEF Passed
    <3>2. (\E n \in 1 .. Len(pdos) : pdos[n].dir = dir /\ pdos[n].number = number)
             <=> ReadU64(dictionary, index, 0) # NoNumber
      BY <2>1, <3>1 DEF BuiltInv
    <3>3. built # {} <=> \E n \in 1 .. Len(pdos) : pdos[n].dir = dir /\ pdos[n].number = number
      BY <2>2 DEF ToSet
    <3>4. ASSUME NEW p \in built PROVE Complete(dictionary, p) /\ p.dir = dir /\ p.number = number
      BY <2>1, <2>2 DEF BuiltInv, ToSet
    <3> HIDE DEF built
    <3>5. ASSUME NEW p \in built
          PROVE  /\ p.signals = SignalsFor(dictionary, index)
                 /\ p.communication = Communication(dictionary, index - Count)
      BY <3>4 DEF Complete
    <3> QED
      BY <3>2, <3>3, <3>5 DEF built
  <2>4. ASSUME NEW m \in 1 .. Len(pdos), NEW n \in 1 .. Len(pdos), m < n
        PROVE  Precedes(pdos[m], pdos[n])
    <3>1. m \in 1 .. n - 1
      BY <2>2, <2>4
    <3> QED
      BY <2>1, <3>1 DEF BuiltInv
  <2> QED
    BY <2>3, <2>4 DEF BuildMatchesDictionary, Precedes
<1>2. BuildInv => BuildMatchesDictionary
  BY <1>1 DEF BuildMatchesDictionary
<1> QED
  BY <1>2, BuildInvariant, PTL

-----------------------------------------------------------------------------
(* What the dictionary is, from the inputs.                                 *)

(* The section made of some items has the last item of each number.         *)
LEMMA SectionOfLast ==
    ASSUME NEW items, items \in Seq({items[i] : i \in DOMAIN items})
    PROVE  /\ DOMAIN SectionOf(items) = {items[i].number : i \in DOMAIN items}
           /\ \A n \in DOMAIN SectionOf(items) : \E i \in DOMAIN items :
                /\ items[i].number = n /\ SectionOf(items)[n] = items[i].says
                /\ \A j \in i + 1 .. Len(items) : items[j].number # n
<1>1. DOMAIN items = 1 .. Len(items) /\ Len(items) \in Nat
  OBVIOUS
<1> DEFINE numbers == {items[i].number : i \in DOMAIN items}
           At(n) == {i \in DOMAIN items : items[i].number = n}
<1>2. SectionOf(items) = [n \in numbers |-> items[Max(At(n))].says]
  BY DEF SectionOf
<1>3. ASSUME NEW n \in numbers
      PROVE  \E i \in DOMAIN items :
                /\ items[i].number = n /\ SectionOf(items)[n] = items[i].says
                /\ \A j \in i + 1 .. Len(items) : items[j].number # n
  <2>1. At(n) \in SUBSET (1 .. Len(items)) /\ At(n) # {}
    BY <1>1
  <2>2. Max(At(n)) \in At(n) /\ \A j \in At(n) : j <= Max(At(n))
    <3> HIDE DEF At
    <3> QED
      BY <1>1, <2>1, MaxIsMember
  <2>3. SectionOf(items)[n] = items[Max(At(n))].says
    BY <1>2
  <2>4. Max(At(n)) \in DOMAIN items /\ items[Max(At(n))].number = n
    BY <2>2
  <2>5. \A j \in Max(At(n)) + 1 .. Len(items) : items[j].number # n
    <3> SUFFICES ASSUME NEW j \in Max(At(n)) + 1 .. Len(items), items[j].number = n PROVE FALSE
      OBVIOUS
    <3> DEFINE m == Max(At(n))
    <3>1. m \in Nat /\ m \in 1 .. Len(items)
      BY <1>1, <2>4
    <3>2. j \in 1 .. Len(items) /\ m < j
      <4> HIDE DEF m
      <4> SUFFICES ASSUME j \in m + 1 .. Len(items) PROVE j \in 1 .. Len(items) /\ m < j
        BY DEF m
      <4> QED
        BY <1>1, <3>1
    <3>3. j \in At(n)
      BY <1>1, <3>2
    <3>4. j <= m
      BY <2>2, <3>3
    <3> HIDE DEF m
    <3> QED
      BY <3>1, <3>2, <3>4
  <2> HIDE DEF At
  <2> QED
    BY <2>3, <2>4, <2>5
<1> QED
  BY <1>2, <1>3

(* So the keys and numbers it touches are the overrides of the items.       *)
LEMMA TouchedAreOverrides ==
    ASSUME NEW items, items \in Seq({items[i] : i \in DOMAIN items}), NEW start,
           NEW k \in Indices \X Subs
    PROVE  {t.n : t \in {t \in Touched(start, SectionOf(items)) : t.key = k}}
             = Overrides(items, start, k)
<1> DEFINE section == SectionOf(items)
           touched == Touched(start, section)
           Is(i) == /\ (start + items[i].number - 1) % WordSize = k[1] /\ k[2] \in DOMAIN items[i].says
                    /\ \A j \in i + 1 .. Len(items) : items[j].number # items[i].number
<1>1. /\ DOMAIN section = {items[i].number : i \in DOMAIN items}
      /\ \A n \in DOMAIN section : \E i \in DOMAIN items :
            /\ items[i].number = n /\ section[n] = items[i].says
            /\ \A j \in i + 1 .. Len(items) : items[j].number # n
  BY SectionOfLast, Zenon
<1>2. Overrides(items, start, k) = {items[i].says[k[2]] : i \in {i \in DOMAIN items : Is(i)}}
  BY DEF Overrides
<1> HIDE DEF section
<1>3. ASSUME NEW t \in touched, t.key = k PROVE t.n \in Overrides(items, start, k)
  <2>1. PICK n \in DOMAIN section : \E s \in DOMAIN section[n] :
              t.key = <<CommIndex(start, n), s>> /\ t.n = section[n][s]
    BY TouchedType
  <2>2. PICK s \in DOMAIN section[n] : t.key = <<CommIndex(start, n), s>> /\ t.n = section[n][s]
    BY <2>1
  <2>3. PICK i \in DOMAIN items :
            /\ items[i].number = n /\ section[n] = items[i].says
            /\ \A j \in i + 1 .. Len(items) : items[j].number # n
    BY <1>1
  <2>4. k[1] = CommIndex(start, n) /\ k[2] = s
    BY <1>3, <2>2
  <2>5. Is(i)
    BY <2>3, <2>4 DEF CommIndex
  <2> HIDE DEF Is
  <2> QED
    BY <1>2, <2>2, <2>3, <2>4, <2>5
<1>4. ASSUME NEW i \in DOMAIN items, Is(i)
      PROVE  \E t \in touched : t.key = k /\ t.n = items[i].says[k[2]]
  <2> DEFINE n == items[i].number
  <2>1. n \in DOMAIN section
    BY <1>1
  <2>2. PICK m \in DOMAIN items :
            /\ items[m].number = n /\ section[n] = items[m].says
            /\ \A j \in m + 1 .. Len(items) : items[j].number # n
    BY <1>1, <2>1
  <2>3. m = i
    <3>1. m \in 1 .. Len(items) /\ i \in 1 .. Len(items) /\ Len(items) \in Nat
      OBVIOUS
    <3>2. ~(m < i)
      <4>1. m < i => i \in m + 1 .. Len(items)
        BY <3>1
      <4> QED
        BY <2>2, <4>1
    <3>3. ~(i < m)
      <4>1. i < m => m \in i + 1 .. Len(items)
        BY <3>1
      <4>2. \A j \in i + 1 .. Len(items) : items[j].number # n
        BY <1>4
      <4> HIDE DEF n, Is
      <4> QED
        BY <2>2, <4>1, <4>2
    <3> QED
      BY <3>1, <3>2, <3>3
  <2>4. section[n] = items[i].says /\ k[2] \in DOMAIN section[n]
    BY <1>4, <2>2, <2>3
  <2> DEFINE t == [key |-> <<CommIndex(start, n), k[2]>>, n |-> section[n][k[2]]]
  <2>5. t \in touched
    BY <2>1, <2>4 DEF Touched
  <2>6. k = <<k[1], k[2]>> /\ k[1] = CommIndex(start, n)
    BY <1>4 DEF CommIndex
  <2>7. t.key = k /\ t.n = items[i].says[k[2]]
    BY <2>4, <2>6
  <2> QED
    BY <2>5, <2>7
<1>5. Overrides(items, start, k) \subseteq {t.n : t \in {t \in touched : t.key = k}}
  <2> SUFFICES ASSUME NEW i \in DOMAIN items, Is(i)
               PROVE  items[i].says[k[2]] \in {t.n : t \in {t \in touched : t.key = k}}
    BY <1>2
  <2> QED
    BY <1>4
<1> QED
  BY <1>3, <1>5 DEF section

(* An overridden entry has one of the overrides; the others stay.           *)
LEMMA OverriddenIs ==
    ASSUME NEW d, NEW stage, IsDictionary(d, stage), NEW start,
           NEW items, items \in Seq({items[i] : i \in DOMAIN items}), NEW k \in Indices \X Subs
    PROVE  LET e == Overridden(d, start, SectionOf(items))
               numbers == Overrides(items, start, k)
           IN  /\ k \in DOMAIN e <=> k \in DOMAIN d \/ numbers # {}
               /\ numbers # {} => e[k].value.alt = "uint" /\ e[k].value.n \in numbers
               /\ numbers = {} /\ k \in DOMAIN d => e[k] = d[k]
<1> DEFINE touched == Touched(start, SectionOf(items))
           New(h) == {EntryWith(d, h, t.n) : t \in {t \in touched : t.key = h}}
           Old(h) == IF h \in DOMAIN d THEN d[h] ELSE NewEntry
           keys == DOMAIN d \cup {t.key : t \in touched}
           e == Overridden(d, start, SectionOf(items))
           numbers == Overrides(items, start, k)
           named == {t \in touched : t.key = k}
<1>1. e = [h \in keys |-> Sole(New(h), Old(h))]
  BY Zenon DEF Overridden
<1>2. {t.n : t \in named} = numbers
  BY TouchedAreOverrides, Zenon
<1>3. numbers # {} <=> named # {}
  <2> HIDE DEF numbers
  <2> QED
    BY <1>2
<1>4. k \in keys <=> k \in DOMAIN d \/ numbers # {}
  <2> HIDE DEF numbers
  <2> QED
    BY <1>3
<1>5. DOMAIN e = keys
  BY <1>1
<1>6. ASSUME numbers # {}
      PROVE  e[k].value.alt = "uint" /\ e[k].value.n \in numbers
  <2>1. e[k] = Sole(New(k), Old(k))
    BY <1>1, <1>4, <1>6
  <2>2. New(k) # {}
    BY <1>3, <1>6
  <2>3. e[k] \in New(k)
    <3> HIDE DEF New, Old, e
    <3> QED
      BY <2>1, <2>2, SoleOfSome
  <2>4. PICK t \in named : e[k] = EntryWith(d, k, t.n)
    BY <2>3
  <2>5. e[k] = [Old(k) EXCEPT !.value = Number("uint", t.n)]
    BY <2>4, Zenon DEF EntryWith
  <2>6. "value" \in DOMAIN Old(k)
    BY DEF IsDictionary, IsEntry, NewEntry
  <2> HIDE DEF Old, e
  <2>7. e[k].value = Number("uint", t.n)
    BY <2>5, <2>6
  <2>8. t.n \in numbers
    BY <1>2
  <2> QED
    BY <2>7, <2>8, NumberType
<1>7. ASSUME numbers = {}, k \in DOMAIN d PROVE e[k] = d[k]
  <2>1. e[k] = Sole(New(k), Old(k))
    BY <1>1, <1>7
  <2>2. New(k) = {}
    BY <1>3, <1>7
  <2>3. Sole(New(k), Old(k)) = Old(k)
    BY <2>2, Zenon DEF Sole
  <2> HIDE DEF New
  <2> QED
    BY <1>7, <2>1, <2>3
<1> HIDE DEF e, numbers, keys
<1>8. /\ k \in DOMAIN e <=> k \in DOMAIN d \/ numbers # {}
      /\ numbers # {} => e[k].value.alt = "uint" /\ e[k].value.n \in numbers
      /\ numbers = {} /\ k \in DOMAIN d => e[k] = d[k]
  BY <1>4, <1>5, <1>6, <1>7
<1> QED
  BY <1>8 DEF e, numbers

(* DictionaryIs for one key, of any dictionary, parsed entries and defaults. *)
DefaultsOf(e, defaults, texts, k) ==
    UNION {ValueForType(defaults[t], e[k].type) : t \in {t \in texts : k \in ParseKey(t)}}

EntryIs(d, e, defaults, texts, rpdo, tpdo, k) ==
    LET Tpdo    == Overrides(tpdo, Base + 2 * Count, k)
        Rpdo    == Overrides(rpdo, Base, k)
        Default == DefaultsOf(e, defaults, texts, k)
        v       == d[k].value
    IN  /\ k \in DOMAIN d <=> k \in DOMAIN e \/ Tpdo # {} \/ Rpdo # {}
        /\ k \in DOMAIN d =>
             CASE Tpdo # {} -> v.alt = "uint" /\ v.n \in Tpdo
               [] Tpdo = {} /\ Rpdo # {} -> v.alt = "uint" /\ v.n \in Rpdo
               [] OTHER -> IF Default # {} THEN v \in Default ELSE v = e[k].value

AllAre(d, e, defaults, texts, rpdo, tpdo) ==
    \A k \in Indices \X Subs : EntryIs(d, e, defaults, texts, rpdo, tpdo, k)

LEMMA DictionaryIsAll ==
    ASSUME NEW texts, NEW rpdo, NEW tpdo
    PROVE  DictionaryIs(texts, rpdo, tpdo)
             <=> AllAre(dictionary, eds, Yaml.defaults, texts, rpdo, tpdo)
BY Zenon DEF DictionaryIs, AllAre, EntryIs, DefaultsOf

LEMMA NoOverrides ==
    ASSUME NEW base, NEW k
    PROVE  Overrides(<<>>, base, k) = {}
<1>1. DOMAIN <<>> = {}
  OBVIOUS
<1> QED
  BY <1>1, Zenon DEF Overrides

(* The conditions of EntryIs one by one.                                    *)
LEMMA EntryIsCases ==
    ASSUME NEW d, NEW e, NEW defaults, NEW texts, NEW rpdo, NEW tpdo, NEW k
    PROVE  LET Tpdo    == Overrides(tpdo, Base + 2 * Count, k)
               Rpdo    == Overrides(rpdo, Base, k)
               Default == DefaultsOf(e, defaults, texts, k)
               v       == d[k].value
           IN  EntryIs(d, e, defaults, texts, rpdo, tpdo, k) <=>
                 /\ k \in DOMAIN d <=> k \in DOMAIN e \/ Tpdo # {} \/ Rpdo # {}
                 /\ k \in DOMAIN d /\ Tpdo # {} => v.alt = "uint" /\ v.n \in Tpdo
                 /\ k \in DOMAIN d /\ Tpdo = {} /\ Rpdo # {} => v.alt = "uint" /\ v.n \in Rpdo
                 /\ k \in DOMAIN d /\ Tpdo = {} /\ Rpdo = {} /\ Default # {} => v \in Default
                 /\ k \in DOMAIN d /\ Tpdo = {} /\ Rpdo = {} /\ Default = {} => v = e[k].value
<1> DEFINE Tpdo    == Overrides(tpdo, Base + 2 * Count, k)
           Rpdo    == Overrides(rpdo, Base, k)
           Default == DefaultsOf(e, defaults, texts, k)
           v       == d[k].value
           body == CASE Tpdo # {} -> v.alt = "uint" /\ v.n \in Tpdo
               [] Tpdo = {} /\ Rpdo # {} -> v.alt = "uint" /\ v.n \in Rpdo
               [] OTHER -> IF Default # {} THEN v \in Default ELSE v = e[k].value
<1>1. EntryIs(d, e, defaults, texts, rpdo, tpdo, k) <=>
        /\ k \in DOMAIN d <=> k \in DOMAIN e \/ Tpdo # {} \/ Rpdo # {}
        /\ k \in DOMAIN d => body
  BY Zenon DEF EntryIs
<1>2. Tpdo # {} => (body <=> v.alt = "uint" /\ v.n \in Tpdo)
  <2> HIDE DEF Tpdo, Rpdo, Default, v
  <2> QED
    BY Zenon
<1>3. Tpdo = {} /\ Rpdo # {} => (body <=> v.alt = "uint" /\ v.n \in Rpdo)
  <2> HIDE DEF Tpdo, Rpdo, Default, v
  <2> QED
    BY Zenon
<1>4. Tpdo = {} /\ Rpdo = {} => (body <=> IF Default # {} THEN v \in Default ELSE v = e[k].value)
  <2> HIDE DEF Tpdo, Rpdo, Default, v
  <2> QED
    BY Zenon
<1> HIDE DEF Tpdo, Rpdo, Default, v, body
<1>5. EntryIs(d, e, defaults, texts, rpdo, tpdo, k) <=>
        /\ k \in DOMAIN d <=> k \in DOMAIN e \/ Tpdo # {} \/ Rpdo # {}
        /\ k \in DOMAIN d /\ Tpdo # {} => v.alt = "uint" /\ v.n \in Tpdo
        /\ k \in DOMAIN d /\ Tpdo = {} /\ Rpdo # {} => v.alt = "uint" /\ v.n \in Rpdo
        /\ k \in DOMAIN d /\ Tpdo = {} /\ Rpdo = {} /\ Default # {} => v \in Default
        /\ k \in DOMAIN d /\ Tpdo = {} /\ Rpdo = {} /\ Default = {} => v = e[k].value
  BY <1>1, <1>2, <1>3, <1>4, Zenon
<1> QED
  BY <1>5 DEF Tpdo, Rpdo, Default, v

(* As parsed.                                                               *)
LEMMA ParsedIs ==
    ASSUME NEW d, NEW defaults
    PROVE  AllAre(d, d, defaults, {}, <<>>, <<>>)
<1> SUFFICES ASSUME NEW k \in Indices \X Subs PROVE EntryIs(d, d, defaults, {}, <<>>, <<>>, k)
  BY DEF AllAre
<1>1. DefaultsOf(d, defaults, {}, k) = {}
  BY DEF DefaultsOf
<1> QED
  BY <1>1, NoOverrides, EntryIsCases

(* A default.                                                               *)
LEMMA DefaultIs ==
    ASSUME NEW d, NEW e, NEW defaults, NEW texts, AllAre(d, e, defaults, texts, <<>>, <<>>),
           DOMAIN d = DOMAIN e, \A k \in DOMAIN e : d[k].type = e[k].type,
           NEW text, NEW h \in ParseKey(text) \cap DOMAIN d, h \in Indices \X Subs,
           DOMAIN d[h] = {"type", "access", "value"},
           NEW v \in ValueForType(defaults[text], d[h].type)
    PROVE  LET D == [d EXCEPT ![h].value = v]
           IN  /\ AllAre(D, e, defaults, texts \cup {text}, <<>>, <<>>)
               /\ DOMAIN D = DOMAIN e /\ \A k \in DOMAIN e : D[k].type = e[k].type
<1> DEFINE D == [d EXCEPT ![h].value = v]
           more == texts \cup {text}
<1>1. DOMAIN D = DOMAIN d /\ D[h].value = v /\ D[h].type = d[h].type /\ \A k \in DOMAIN d : k # h => D[k] = d[k]
  OBVIOUS
<1>2. ASSUME NEW k \in Indices \X Subs PROVE EntryIs(D, e, defaults, more, <<>>, <<>>, k)
  <2>1. /\ k \in DOMAIN d <=> k \in DOMAIN e
        /\ k \in DOMAIN d /\ DefaultsOf(e, defaults, texts, k) # {} =>
              d[k].value \in DefaultsOf(e, defaults, texts, k)
        /\ k \in DOMAIN d /\ DefaultsOf(e, defaults, texts, k) = {} => d[k].value = e[k].value
    <3>1. EntryIs(d, e, defaults, texts, <<>>, <<>>, k)
      BY DEF AllAre
    <3> QED
      BY <3>1, NoOverrides, EntryIsCases
  <2>2. CASE k = h
    <3>1. h \in DOMAIN e /\ d[h].type = e[h].type
      BY <2>1, <2>2
    <3>2. v \in DefaultsOf(e, defaults, more, h)
      BY <3>1 DEF DefaultsOf
    <3> HIDE DEF D, more
    <3> QED
      BY <1>1, <2>1, <2>2, <3>2, NoOverrides, EntryIsCases
  <2>3. CASE k # h
    <3>1. k \notin ParseKey(text)
      BY <2>3, ParseKeyIsOne
    <3>2. DefaultsOf(e, defaults, more, k) = DefaultsOf(e, defaults, texts, k)
      BY <3>1 DEF DefaultsOf
    <3> HIDE DEF D, more
    <3> QED
      BY <1>1, <2>1, <2>3, <3>2, NoOverrides, EntryIsCases
  <2> QED
    BY <2>2, <2>3
<1>3. \A k \in DOMAIN e : D[k].type = e[k].type
  <2> HIDE DEF D
  <2> QED
    BY <1>1
<1> QED
  BY <1>1, <1>2, <1>3 DEF AllAre

(* The RPDO overrides.                                                      *)
LEMMA RpdoIs ==
    ASSUME NEW d, NEW stage, IsDictionary(d, stage), NEW e, NEW defaults, NEW texts,
           AllAre(d, e, defaults, texts, <<>>, <<>>),
           NEW items, items \in Seq({items[i] : i \in DOMAIN items})
    PROVE  AllAre(Overridden(d, Base, SectionOf(items)), e, defaults, texts, items, <<>>)
<1> DEFINE D == Overridden(d, Base, SectionOf(items))
<1> SUFFICES ASSUME NEW k \in Indices \X Subs PROVE EntryIs(D, e, defaults, texts, items, <<>>, k)
  BY DEF AllAre
<1> DEFINE numbers == Overrides(items, Base, k)
           default == DefaultsOf(e, defaults, texts, k)
<1>1. /\ k \in DOMAIN d <=> k \in DOMAIN e
      /\ k \in DOMAIN d /\ default # {} => d[k].value \in default
      /\ k \in DOMAIN d /\ default = {} => d[k].value = e[k].value
  <2>1. EntryIs(d, e, defaults, texts, <<>>, <<>>, k)
    BY DEF AllAre
  <2> QED
    BY <2>1, NoOverrides, EntryIsCases
<1>2. /\ k \in DOMAIN D <=> k \in DOMAIN d \/ numbers # {}
      /\ numbers # {} => D[k].value.alt = "uint" /\ D[k].value.n \in numbers
      /\ numbers = {} /\ k \in DOMAIN d => D[k] = d[k]
  BY OverriddenIs
<1> HIDE DEF D
<1>3. EntryIs(D, e, defaults, texts, items, <<>>, k) <=>
        /\ k \in DOMAIN D <=> k \in DOMAIN e \/ numbers # {}
        /\ k \in DOMAIN D /\ numbers # {} => D[k].value.alt = "uint" /\ D[k].value.n \in numbers
        /\ k \in DOMAIN D /\ numbers = {} /\ default # {} => D[k].value \in default
        /\ k \in DOMAIN D /\ numbers = {} /\ default = {} => D[k].value = e[k].value
  BY NoOverrides, EntryIsCases
<1> HIDE DEF numbers, default
<1> QED
  BY <1>1, <1>2, <1>3

(* The TPDO overrides, which win.                                           *)
LEMMA TpdoIs ==
    ASSUME NEW d, NEW stage, IsDictionary(d, stage), NEW e, NEW defaults, NEW texts, NEW rpdo,
           AllAre(d, e, defaults, texts, rpdo, <<>>),
           NEW items, items \in Seq({items[i] : i \in DOMAIN items})
    PROVE  AllAre(Overridden(d, Base + 2 * Count, SectionOf(items)), e, defaults, texts, rpdo, items)
<1> DEFINE start == Base + 2 * Count
           D == Overridden(d, start, SectionOf(items))
<1> SUFFICES ASSUME NEW k \in Indices \X Subs PROVE EntryIs(D, e, defaults, texts, rpdo, items, k)
  BY DEF AllAre
<1> DEFINE numbers == Overrides(items, start, k)
           earlier == Overrides(rpdo, Base, k)
           default == DefaultsOf(e, defaults, texts, k)
<1>1. /\ k \in DOMAIN d <=> k \in DOMAIN e \/ earlier # {}
      /\ k \in DOMAIN d /\ earlier # {} => d[k].value.alt = "uint" /\ d[k].value.n \in earlier
      /\ k \in DOMAIN d /\ earlier = {} /\ default # {} => d[k].value \in default
      /\ k \in DOMAIN d /\ earlier = {} /\ default = {} => d[k].value = e[k].value
  <2>1. EntryIs(d, e, defaults, texts, rpdo, <<>>, k)
    BY DEF AllAre
  <2> QED
    BY <2>1, NoOverrides, EntryIsCases
<1>2. /\ k \in DOMAIN D <=> k \in DOMAIN d \/ numbers # {}
      /\ numbers # {} => D[k].value.alt = "uint" /\ D[k].value.n \in numbers
      /\ numbers = {} /\ k \in DOMAIN d => D[k] = d[k]
  BY OverriddenIs
<1> HIDE DEF D
<1>3. EntryIs(D, e, defaults, texts, rpdo, items, k) <=>
        /\ k \in DOMAIN D <=> k \in DOMAIN e \/ numbers # {} \/ earlier # {}
        /\ k \in DOMAIN D /\ numbers # {} => D[k].value.alt = "uint" /\ D[k].value.n \in numbers
        /\ k \in DOMAIN D /\ numbers = {} /\ earlier # {} => D[k].value.alt = "uint" /\ D[k].value.n \in earlier
        /\ k \in DOMAIN D /\ numbers = {} /\ earlier = {} /\ default # {} => D[k].value \in default
        /\ k \in DOMAIN D /\ numbers = {} /\ earlier = {} /\ default = {} => D[k].value = e[k].value
  BY EntryIsCases
<1> HIDE DEF numbers, earlier, default
<1> QED
  BY <1>1, <1>2, <1>3

LEMMA InputsInit == Init => AppliedInv
<1> SUFFICES ASSUME Init PROVE AppliedInv
  OBVIOUS
<1>1. phase = "args"
  BY Zenon DEF Init
<1> QED
  BY <1>1 DEF AppliedInv

(* The options and the configuration that the dictionary is compared with   *)
(* stay what they are from the EDS file on.                                 *)
LEMMA YamlStays ==
    ASSUME TypeOK, phase \notin {"args", "config"}, [Next]_vars
    PROVE  options' = options /\ Yaml' = Yaml
<1>1. options' = options
  BY DEF Next, vars, lineVars, PathOption, NodeIdOption, OtherOption, IgnoredWord, ArgsDone,
         LoadConfig, OpenEds, ParseLine, ParseSection, Parsed, ApplyDefault, DefaultsDone,
         ApplyRpdoOverrides, ApplyTpdoOverrides, SkipPdo, BeginPdo, MapSignal, EndPdo,
         RangeDone, HasOption
<1> QED
  BY <1>1 DEF Yaml

LEMMA DictionaryStays ==
    ASSUME UNCHANGED <<dictionary, eds, config>>, Yaml' = Yaml
    PROVE  /\ DictionaryIs(DOMAIN Yaml.defaults \ DOMAIN config.defaults, <<>>, <<>>)
                => DictionaryIs(DOMAIN Yaml.defaults \ DOMAIN config.defaults, <<>>, <<>>)'
           /\ DictionaryIs(DOMAIN Yaml.defaults, <<>>, <<>>)
                => DictionaryIs(DOMAIN Yaml.defaults, <<>>, <<>>)'
           /\ DictionaryIs(DOMAIN Yaml.defaults, Yaml.rpdo, <<>>)
                => DictionaryIs(DOMAIN Yaml.defaults, Yaml.rpdo, <<>>)'
           /\ DictionaryIs(DOMAIN Yaml.defaults, Yaml.rpdo, Yaml.tpdo)
                => DictionaryIs(DOMAIN Yaml.defaults, Yaml.rpdo, Yaml.tpdo)'
<1>1. ASSUME DictionaryIs(DOMAIN Yaml.defaults \ DOMAIN config.defaults, <<>>, <<>>)
      PROVE  DictionaryIs(DOMAIN Yaml.defaults \ DOMAIN config.defaults, <<>>, <<>>)'
  <2>1. AllAre(dictionary, eds, Yaml.defaults, DOMAIN Yaml.defaults \ DOMAIN config.defaults, <<>>, <<>>)
    BY <1>1, DictionaryIsAll
  <2>2. AllAre(dictionary', eds', Yaml'.defaults, DOMAIN Yaml'.defaults \ DOMAIN config'.defaults, <<>>, <<>>)
    BY <2>1
  <2> QED
    BY <2>2, Zenon DEF DictionaryIs, AllAre, EntryIs, DefaultsOf
<1>2. ASSUME DictionaryIs(DOMAIN Yaml.defaults, <<>>, <<>>)
      PROVE  DictionaryIs(DOMAIN Yaml.defaults, <<>>, <<>>)'
  <2>1. AllAre(dictionary, eds, Yaml.defaults, DOMAIN Yaml.defaults, <<>>, <<>>)
    BY <1>2, DictionaryIsAll
  <2>2. AllAre(dictionary', eds', Yaml'.defaults, DOMAIN Yaml'.defaults, <<>>, <<>>)
    BY <2>1
  <2> QED
    BY <2>2, Zenon DEF DictionaryIs, AllAre, EntryIs, DefaultsOf
<1>3. ASSUME DictionaryIs(DOMAIN Yaml.defaults, Yaml.rpdo, <<>>)
      PROVE  DictionaryIs(DOMAIN Yaml.defaults, Yaml.rpdo, <<>>)'
  <2>1. AllAre(dictionary, eds, Yaml.defaults, DOMAIN Yaml.defaults, Yaml.rpdo, <<>>)
    BY <1>3, DictionaryIsAll
  <2>2. AllAre(dictionary', eds', Yaml'.defaults, DOMAIN Yaml'.defaults, Yaml'.rpdo, <<>>)
    BY <2>1
  <2> QED
    BY <2>2, Zenon DEF DictionaryIs, AllAre, EntryIs, DefaultsOf
<1>4. ASSUME DictionaryIs(DOMAIN Yaml.defaults, Yaml.rpdo, Yaml.tpdo)
      PROVE  DictionaryIs(DOMAIN Yaml.defaults, Yaml.rpdo, Yaml.tpdo)'
  <2>1. AllAre(dictionary, eds, Yaml.defaults, DOMAIN Yaml.defaults, Yaml.rpdo, Yaml.tpdo)
    BY <1>4, DictionaryIsAll
  <2>2. AllAre(dictionary', eds', Yaml'.defaults, DOMAIN Yaml'.defaults, Yaml'.rpdo, Yaml'.tpdo)
    BY <2>1
  <2> QED
    BY <2>2, Zenon DEF DictionaryIs, AllAre, EntryIs, DefaultsOf
<1> QED
  BY <1>1, <1>2, <1>3, <1>4

LEMMA ItemsAreSequences ==
    ASSUME ConfigIsYaml, options.config # ""
    PROVE  \A items \in {Yaml.rpdo, Yaml.tpdo} : items \in Seq({items[i] : i \in DOMAIN items})
BY SetupAssumption DEF ConfigIsYaml, Yaml

(* Up to the EDS file nothing is said of the dictionary.                    *)
LEMMA InputsEarlyStep ==
    ASSUME TypeOK, AppliedInv, phase \in {"args", "config", "eds", "lines", "sections"}, [Next]_vars,
           phase' \in {"args", "config", "eds", "lines", "sections", "failed"}
    PROVE  AppliedInv'
<1>1. CASE phase = "args"
  <2>1. phase' \notin {"eds", "lines", "sections"}
    BY <1>1 DEF Next, vars, PathOption, NodeIdOption, OtherOption, IgnoredWord, ArgsDone,
         LoadConfig, OpenEds, ParseLine, ParseSection, Parsed, ApplyDefault, DefaultsDone,
         ApplyRpdoOverrides, ApplyTpdoOverrides, SkipPdo, BeginPdo, MapSignal, EndPdo,
         RangeDone, HasOption
  <2> QED
    BY <2>1 DEF AppliedInv
<1>2. CASE phase = "config"
  <2>1. LoadConfig \/ UNCHANGED vars
    BY <1>2 DEF Next, PathOption, NodeIdOption, OtherOption, IgnoredWord, ArgsDone,
         LoadConfig, OpenEds, ParseLine, ParseSection, Parsed, ApplyDefault, DefaultsDone,
         ApplyRpdoOverrides, ApplyTpdoOverrides, SkipPdo, BeginPdo, MapSignal, EndPdo,
         RangeDone, HasOption
  <2>2. CASE phase' # "eds"
    <3>1. phase' \in {"config", "failed"}
      BY <1>2, <2>1, <2>2 DEF LoadConfig, vars
    <3> QED
      BY <3>1 DEF AppliedInv
  <2>3. CASE phase' = "eds" /\ options.config = ""
    <3>1. options' = options
      BY <1>2, <2>1, <2>3 DEF LoadConfig, vars
    <3> QED
      BY <2>3, <3>1 DEF AppliedInv
  <2>4. CASE phase' = "eds" /\ options.config # ""
    <3> DEFINE yaml == ConfigFiles[options.config]
               node == IF yaml.node = NoNumber \/ options.fromCli THEN options.node ELSE yaml.node
    <3>1. /\ options.config \in DOMAIN ConfigFiles
          /\ config' = [defaults |-> yaml.defaults,
                        rpdo |-> SectionOf(yaml.rpdo), tpdo |-> SectionOf(yaml.tpdo)]
          /\ options' = [options EXCEPT !.node = node]
      BY <1>2, <2>1, <2>4 DEF LoadConfig, vars
    <3>2. options'.config = options.config
      BY <3>1
    <3>3. Yaml' = yaml
      BY <2>4, <3>2 DEF Yaml
    <3> HIDE DEF yaml
    <3>4. /\ config'.rpdo = SectionOf(yaml.rpdo) /\ config'.tpdo = SectionOf(yaml.tpdo)
          /\ config'.defaults = yaml.defaults
      BY <3>1
    <3>5. ConfigIsYaml'
      BY <3>1, <3>2, <3>3, <3>4 DEF ConfigIsYaml
    <3> QED
      BY <2>4, <3>5 DEF AppliedInv
  <2> QED
    BY <2>2, <2>3, <2>4
<1>3. CASE phase \in {"eds", "lines", "sections"}
  <2>1. options' = options /\ Yaml' = Yaml
    BY <1>3, YamlStays
  <2>2. config' = config
    BY <1>3 DEF Next, vars, PathOption, NodeIdOption, OtherOption, IgnoredWord, ArgsDone,
         LoadConfig, OpenEds, ParseLine, ParseSection, Parsed, ApplyDefault, DefaultsDone,
         ApplyRpdoOverrides, ApplyTpdoOverrides, SkipPdo, BeginPdo, MapSignal, EndPdo,
         RangeDone, HasOption
  <2>3. options.config = "" \/ ConfigIsYaml
    BY <1>3 DEF AppliedInv
  <2>4. options'.config = "" \/ ConfigIsYaml'
    BY <1>3, <2>1, <2>2, <2>3 DEF ConfigIsYaml
  <2> QED
    BY <2>4 DEF AppliedInv
<1> QED
  BY <1>1, <1>2, <1>3

LEMMA ParsedStep ==
    ASSUME TypeOK, AppliedInv, Parsed
    PROVE  AppliedInv'
<1>1. /\ phase = "sections" /\ eds' = dictionary
      /\ phase' = IF options.config = "" THEN "build" ELSE "defaults"
      /\ UNCHANGED <<options, config, dictionary>>
  BY DEF Parsed, lineVars
<1>2. Yaml' = Yaml
  BY <1>1 DEF Yaml
<1>3. AllAre(dictionary', eds', Yaml'.defaults, {}, <<>>, <<>>)
  BY <1>1, ParsedIs
<1>4. CASE options.config = ""
  <2>1. Yaml' = NoConfig
    BY <1>2, <1>4 DEF Yaml
  <2>2. DOMAIN Yaml'.defaults = {} /\ Yaml'.rpdo = <<>> /\ Yaml'.tpdo = <<>>
    <3>1. DOMAIN <<>> = {}
      OBVIOUS
    <3> QED
      BY <2>1, <3>1 DEF NoConfig
  <2>3. DictionaryIs(DOMAIN Yaml.defaults, Yaml.rpdo, Yaml.tpdo)'
    <3>1. AllAre(dictionary', eds', Yaml'.defaults, DOMAIN Yaml'.defaults, Yaml'.rpdo, Yaml'.tpdo)
      BY <1>3, <2>2
    <3> QED
      BY <3>1, Zenon DEF DictionaryIs, AllAre, EntryIs, DefaultsOf
  <2> QED
    BY <1>1, <1>4, <2>3 DEF AppliedInv
<1>5. CASE options.config # ""
  <2>1. ConfigIsYaml
    BY <1>1, <1>5 DEF AppliedInv
  <2>2. ConfigIsYaml'
    BY <1>1, <1>2, <1>5, <2>1 DEF ConfigIsYaml
  <2>3. DOMAIN Yaml'.defaults \ DOMAIN config'.defaults = {}
    BY <1>1, <1>2, <2>1 DEF ConfigIsYaml
  <2>4. DictionaryIs(DOMAIN Yaml.defaults \ DOMAIN config.defaults, <<>>, <<>>)'
    BY <1>3, <2>3, Zenon DEF DictionaryIs, AllAre, EntryIs, DefaultsOf
  <2> QED
    BY <1>1, <1>5, <2>2, <2>4 DEF AppliedInv
<1> QED
  BY <1>4, <1>5

LEMMA ApplyDefaultStep ==
    ASSUME TypeOK, AppliedInv, ApplyDefault
    PROVE  AppliedInv'
<1> DEFINE Values(text, k) == ValueForType(config.defaults[text], dictionary[k].type)
           applied == DOMAIN Yaml.defaults \ DOMAIN config.defaults
<1>1. phase = "defaults" /\ UNCHANGED <<options, eds>>
  BY DEF ApplyDefault, lineVars, edsVars
<1>2. Yaml' = Yaml
  BY <1>1 DEF Yaml
<1>3. CASE phase' = "failed"
  BY <1>3 DEF AppliedInv
<1>4. CASE phase' # "failed"
  <2>1. PICK text \in DOMAIN config.defaults :
          /\ config' = [config EXCEPT !.defaults = Restrict(@, DOMAIN @ \ {text})]
          /\ \E k \in ParseKey(text) \cap DOMAIN dictionary :
                \E v \in UNION {Values(text, h) : h \in ParseKey(text) \cap DOMAIN dictionary} :
                   dictionary' = [dictionary EXCEPT ![k].value = v]
          /\ phase' = phase
    BY <1>4 DEF ApplyDefault
  <2>2. PICK k \in ParseKey(text) \cap DOMAIN dictionary :
          \E v \in UNION {Values(text, h) : h \in ParseKey(text) \cap DOMAIN dictionary} :
              dictionary' = [dictionary EXCEPT ![k].value = v]
    BY <2>1
  <2>3. PICK v \in UNION {Values(text, h) : h \in ParseKey(text) \cap DOMAIN dictionary} :
          dictionary' = [dictionary EXCEPT ![k].value = v]
    BY <2>2
  <2>4. v \in Values(text, k)
    <3>1. \A h \in ParseKey(text) : h = k
      BY ParseKeyIsOne
    <3> HIDE DEF Values
    <3> QED
      BY <3>1
  <2>5. ConfigIsYaml /\ options.config # "" /\ DictionaryIs(applied, <<>>, <<>>)
        /\ DOMAIN dictionary = DOMAIN eds /\ \A h \in DOMAIN eds : dictionary[h].type = eds[h].type
    BY <1>1 DEF AppliedInv
  <2>6. k \in Indices \X Subs /\ DOMAIN dictionary[k] = {"type", "access", "value"}
    BY DEF TypeOK, IsDictionary, IsEntry
  <2>7. v \in ValueForType(Yaml.defaults[text], dictionary[k].type) /\ text \in DOMAIN Yaml.defaults
    BY <2>4, <2>5 DEF ConfigIsYaml
  <2>8. AllAre(dictionary, eds, Yaml.defaults, applied, <<>>, <<>>)
    BY <2>5, DictionaryIsAll
  <2>9. /\ AllAre(dictionary', eds, Yaml.defaults, applied \cup {text}, <<>>, <<>>)
        /\ DOMAIN dictionary' = DOMAIN eds /\ \A h \in DOMAIN eds : dictionary'[h].type = eds[h].type
    <3> HIDE DEF applied, Values
    <3> QED
      BY <2>3, <2>5, <2>6, <2>7, <2>8, DefaultIs
  <2>10. /\ DOMAIN config'.defaults = DOMAIN config.defaults \ {text}
         /\ \A t \in DOMAIN config'.defaults : config'.defaults[t] = config.defaults[t]
         /\ config'.rpdo = config.rpdo /\ config'.tpdo = config.tpdo
    BY <2>1 DEF Restrict
  <2>11. applied \cup {text} = DOMAIN Yaml'.defaults \ DOMAIN config'.defaults
    BY <1>2, <2>7, <2>10
  <2>12. ConfigIsYaml'
    BY <1>1, <1>2, <2>1, <2>5, <2>10 DEF ConfigIsYaml
  <2>13. DictionaryIs(DOMAIN Yaml.defaults \ DOMAIN config.defaults, <<>>, <<>>)'
    <3>1. AllAre(dictionary', eds', Yaml'.defaults, DOMAIN Yaml'.defaults \ DOMAIN config'.defaults, <<>>, <<>>)
      BY <1>1, <1>2, <2>9, <2>11
    <3> QED
      BY <3>1, Zenon DEF DictionaryIs, AllAre, EntryIs, DefaultsOf
  <2> QED
    BY <1>1, <2>1, <2>5, <2>9, <2>12, <2>13 DEF AppliedInv
<1> QED
  BY <1>3, <1>4

LEMMA AppliedStep ==
    ASSUME TypeOK, AppliedInv, DefaultsDone \/ ApplyRpdoOverrides \/ ApplyTpdoOverrides
    PROVE  AppliedInv'
<1>1. phase \in {"defaults", "rpdo", "tpdo"} /\ UNCHANGED <<options, eds, config>>
  BY DEF DefaultsDone, ApplyRpdoOverrides, ApplyTpdoOverrides, lineVars, edsVars
<1>2. Yaml' = Yaml
  BY <1>1 DEF Yaml
<1>3. ConfigIsYaml /\ options.config # ""
  BY <1>1 DEF AppliedInv
<1>4. phase' \notin {"eds", "lines", "sections"} => ConfigIsYaml'
  BY <1>1, <1>2, <1>3 DEF ConfigIsYaml
<1>5. /\ Yaml.rpdo \in Seq({Yaml.rpdo[i] : i \in DOMAIN Yaml.rpdo})
      /\ Yaml.tpdo \in Seq({Yaml.tpdo[i] : i \in DOMAIN Yaml.tpdo})
  BY <1>3, ItemsAreSequences
<1>6. IsDictionary(dictionary, phase)
  BY DEF TypeOK
<1> DEFINE texts == DOMAIN Yaml.defaults
<1>7. CASE DefaultsDone
  <2>1. phase = "defaults" /\ phase' = "rpdo" /\ dictionary' = dictionary /\ DOMAIN config.defaults = {}
    BY <1>7 DEF DefaultsDone
  <2>2. DictionaryIs(texts \ DOMAIN config.defaults, <<>>, <<>>)
    BY <2>1 DEF AppliedInv
  <2>3. texts \ DOMAIN config.defaults = texts
    BY <2>1
  <2>4. AllAre(dictionary, eds, Yaml.defaults, texts, <<>>, <<>>)
    BY <2>2, <2>3, DictionaryIsAll
  <2>5. AllAre(dictionary', eds', Yaml'.defaults, DOMAIN Yaml'.defaults, <<>>, <<>>)
    BY <1>1, <1>2, <2>1, <2>4
  <2>6. DictionaryIs(DOMAIN Yaml.defaults, <<>>, <<>>)'
    BY <2>5, Zenon DEF DictionaryIs, AllAre, EntryIs, DefaultsOf
  <2> QED
    BY <1>1, <1>3, <1>4, <2>1, <2>6 DEF AppliedInv
<1>8. CASE ApplyRpdoOverrides
  <2>1. /\ phase = "rpdo" /\ phase' = "tpdo"
        /\ dictionary' = Overridden(dictionary, Base, SectionOf(Yaml.rpdo))
    BY <1>3, <1>8 DEF ApplyRpdoOverrides, CommStart, ConfigIsYaml
  <2>2. AllAre(dictionary, eds, Yaml.defaults, texts, <<>>, <<>>)
    BY <2>1, DictionaryIsAll DEF AppliedInv
  <2>3. AllAre(dictionary', eds, Yaml.defaults, texts, Yaml.rpdo, <<>>)
    <3> HIDE DEF texts
    <3> QED
      BY <1>5, <1>6, <2>1, <2>2, RpdoIs
  <2>4. AllAre(dictionary', eds', Yaml'.defaults, DOMAIN Yaml'.defaults, Yaml'.rpdo, <<>>)
    BY <1>1, <1>2, <2>3
  <2>5. DictionaryIs(DOMAIN Yaml.defaults, Yaml.rpdo, <<>>)'
    BY <2>4, Zenon DEF DictionaryIs, AllAre, EntryIs, DefaultsOf
  <2> QED
    BY <1>1, <1>3, <1>4, <2>1, <2>5 DEF AppliedInv
<1>9. CASE ApplyTpdoOverrides
  <2>1. /\ phase = "tpdo" /\ phase' = "build"
        /\ dictionary' = Overridden(dictionary, Base + 2 * Count, SectionOf(Yaml.tpdo))
    BY <1>3, <1>9 DEF ApplyTpdoOverrides, CommStart, ConfigIsYaml
  <2>2. AllAre(dictionary, eds, Yaml.defaults, texts, Yaml.rpdo, <<>>)
    BY <2>1, DictionaryIsAll DEF AppliedInv
  <2>3. AllAre(dictionary', eds, Yaml.defaults, texts, Yaml.rpdo, Yaml.tpdo)
    <3> HIDE DEF texts
    <3> QED
      BY <1>5, <1>6, <2>1, <2>2, TpdoIs
  <2>4. AllAre(dictionary', eds', Yaml'.defaults, DOMAIN Yaml'.defaults, Yaml'.rpdo, Yaml'.tpdo)
    BY <1>1, <1>2, <2>3
  <2>5. DictionaryIs(DOMAIN Yaml.defaults, Yaml.rpdo, Yaml.tpdo)'
    BY <2>4, Zenon DEF DictionaryIs, AllAre, EntryIs, DefaultsOf
  <2> QED
    BY <1>1, <1>3, <1>4, <2>1, <2>5 DEF AppliedInv
<1> QED
  BY <1>7, <1>8, <1>9

LEMMA InputsStep ==
    ASSUME TypeOK, AppliedInv, [Next]_vars
    PROVE  AppliedInv'
<1>1. CASE phase \in {"args", "config", "eds", "lines", "sections"} /\ ~Parsed
  <2>1. phase' \in {"args", "config", "eds", "lines", "sections", "failed"}
    BY <1>1 DEF Next, vars, PathOption, NodeIdOption, OtherOption, IgnoredWord, ArgsDone,
         LoadConfig, OpenEds, ParseLine, ParseSection, ApplyDefault, DefaultsDone,
         ApplyRpdoOverrides, ApplyTpdoOverrides, SkipPdo, BeginPdo, MapSignal, EndPdo,
         RangeDone, HasOption
  <2> QED
    BY <1>1, <2>1, InputsEarlyStep
<1>2. CASE Parsed
  BY <1>2, ParsedStep
<1>3. CASE ApplyDefault \/ DefaultsDone \/ ApplyRpdoOverrides \/ ApplyTpdoOverrides
  BY <1>3, ApplyDefaultStep, AppliedStep
<1>4. CASE UNCHANGED <<options, config, dictionary, eds, phase>>
  <2>1. Yaml' = Yaml
    BY <1>4 DEF Yaml
  <2>2. ConfigIsYaml => ConfigIsYaml'
    BY <1>4, <2>1 DEF ConfigIsYaml
  <2> QED
    BY <1>4, <2>1, <2>2, DictionaryStays DEF AppliedInv
<1>5. CASE phase \in {"build", "mapping", "done", "failed"}
  <2>1. UNCHANGED <<options, eds, dictionary, config>> /\ phase' \in {"build", "mapping", "done", "failed"}
        /\ (phase' = "failed" => phase = "failed") /\ (phase = "failed" => phase' = "failed")
    BY <1>5 DEF Next, vars, lineVars, edsVars, PathOption, NodeIdOption, OtherOption, IgnoredWord,
         ArgsDone, LoadConfig, OpenEds, ParseLine, ParseSection, Parsed, ApplyDefault, DefaultsDone,
         ApplyRpdoOverrides, ApplyTpdoOverrides, SkipPdo, BeginPdo, MapSignal, EndPdo,
         RangeDone, HasOption
  <2>2. Yaml' = Yaml
    BY <2>1 DEF Yaml
  <2> QED
    BY <1>5, <2>1, <2>2, DictionaryStays DEF AppliedInv
<1>6. phase \in {"defaults", "rpdo", "tpdo"} =>
        \/ ApplyDefault \/ DefaultsDone \/ ApplyRpdoOverrides \/ ApplyTpdoOverrides
        \/ UNCHANGED <<options, config, dictionary, eds, phase>>
  BY DEF Next, vars, lineVars, edsVars, PathOption, NodeIdOption, OtherOption, IgnoredWord,
         ArgsDone, LoadConfig, OpenEds, ParseLine, ParseSection, Parsed, SkipPdo, BeginPdo,
         MapSignal, EndPdo, RangeDone, HasOption
<1> QED
  BY <1>1, <1>2, <1>3, <1>4, <1>5, <1>6 DEF TypeOK, Phases

LEMMA AppliedInvariant == Spec => []AppliedInv
BY InputsInit, InputsStep, TypeCorrect, PTL DEF Spec

(* When start-up ends, every entry has the value of the input with the      *)
(* highest rank that names it.                                              *)
THEOREM DictionaryMatchesInputsHolds == Spec => []DictionaryMatchesInputs
<1>1. AppliedInv => DictionaryMatchesInputs
  BY DEF AppliedInv, DictionaryMatchesInputs
<1> QED
  BY <1>1, AppliedInvariant, PTL

=============================================================================
