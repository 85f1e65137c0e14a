------------------------------- MODULE Startup -------------------------------
(***************************************************************************)
(* main up to the construction of its objects: command line, LoadFile,     *)
(* ParseFile, ApplyToDictionary, PdoBuilder::Build, on one thread.         *)
(*                                                                         *)
(* The four ranges of PDO objects follow each other: receive communication *)
(* and mapping, transmit communication and mapping, Count objects each.    *)
(* Widths are constants: a byte has ByteSize values, 16 bits WordSize.     *)
(***************************************************************************)
EXTENDS EdsParser

CONSTANTS
    ByteSize,      \* 256 in the code
    WordSize,      \* 65536 in the code
    Base,          \* 0x1400, the first receive communication object
    Count,         \* 0x200, the objects of a range
    DecimalOf,     \* the words std::stoi and std::stoul accept, base 10
    ArgLists,      \* command lines, without the program's name
    EdsFiles,      \* the readable EDS files: their lines
    ConfigFiles,   \* the readable configurations, as read by yaml-cpp
    Literals,      \* of documents: the words that are a number to their end
    MaxSignals     \* bound: a longer list of signals is not told apart

NoNumber == -1

Indices == 0 .. WordSize - 1
Subs    == 0 .. ByteSize - 1

CobIdSub == 1
TypeSub  == 2
InhibitSub == 3
TimerSub == 5
OverrideSubs == {CobIdSub, TypeSub, InhibitSub, TimerSub}

ASSUME SetupAssumption ==
    /\ ByteSize \in Nat /\ ByteSize > TimerSub
    /\ WordSize \in Nat /\ DwordSize \in Nat /\ LongSize \in Nat
    /\ ByteSize <= WordSize /\ WordSize <= DwordSize /\ DwordSize <= LongSize
    /\ Base \in Nat /\ Count \in Nat /\ Base + 4 * Count <= WordSize
    /\ MaxSignals \in Nat /\ MaxSignals >= ByteSize
    /\ \A word \in DOMAIN DecimalOf : DecimalOf[word] \in Int
    /\ Literals \subseteq DOMAIN IntegerOf
    /\ \A word \in DOMAIN IndexOf : IndexOf[word] \in Indices
    /\ \A word \in DOMAIN SubOf : SubOf[word] \in Subs
    /\ {"+", Quote} \cap (DOMAIN IntegerOf \cup DOMAIN LowerOf) = {}
    /\ ArgLists \subseteq Seq(STRING)
    /\ \A path \in DOMAIN EdsFiles : EdsFiles[path] \in Seq(Seq(STRING))
    /\ \A path \in DOMAIN ConfigFiles : IsFiniteSet(DOMAIN ConfigFiles[path].defaults)
    /\ \A path \in DOMAIN ConfigFiles :
         LET yaml == ConfigFiles[path]
         IN  \A items \in {yaml.rpdo, yaml.tpdo} :
               /\ items \in Seq({items[i] : i \in DOMAIN items})
               /\ \A i \in DOMAIN items : DOMAIN items[i].says \subseteq OverrideSubs

VARIABLES
    argv,        \* the command line
    arg,         \* the loop variable over it
    options,     \* eds_path, node_id, node_id_from_cli, config_path, can_iface, log_file_path
    lines,       \* of the EDS file, those still to read
    sections,    \* read from them, later those still to turn into entries
    eds,         \* history: the dictionary as parsed
    config,      \* SimulatorConfig; od_defaults loses what has been applied
    dictionary,  \* object_dictionary
    phase,       \* the stage main is in; failed: it returns 1 or 2
    range,       \* the range build_range works on: receive, then transmit
    offset,      \* its loop variable
    sub,         \* the uint8 loop variable over the mapping entries
    pdo,         \* the definition being filled
    pdos         \* the definitions built

lineVars  == <<argv, arg, options>>
edsVars   == <<lines, sections, eds>>
buildVars == <<range, offset, sub, pdo, pdos>>
vars == <<lineVars, edsVars, config, dictionary, phase, buildVars>>

NoPdo    == [dir |-> "none"]
NoConfig == [defaults |-> <<>>, rpdo |-> <<>>, tpdo |-> <<>>]

Init ==
    /\ argv \in ArgLists /\ arg = 1
    /\ options = [eds |-> "", node |-> 1, fromCli |-> FALSE, config |-> "", iface |-> "", log |-> ""]
    /\ lines = <<>> /\ sections = <<>> /\ eds = <<>>
    /\ config = NoConfig
    /\ dictionary = <<>>
    /\ phase = "args"
    /\ range = "receive" /\ offset = 0 /\ sub = 1
    /\ pdo = NoPdo /\ pdos = <<>>

-----------------------------------------------------------------------------
(* The command line.                                                       *)

OptionNames ==
    {"--eds", "--node-id", "--can-iface", "--log-level", "--log-file", "--rf-port", "--config"}

(* An option takes the next word if there is one.                          *)
HasOption(name) == phase = "args" /\ arg < Len(argv) /\ argv[arg] = name
Argument == argv[arg + 1]

PathOption ==
    /\ \/ HasOption("--eds")       /\ options' = [options EXCEPT !.eds = Argument]
       \/ HasOption("--config")    /\ options' = [options EXCEPT !.config = Argument]
       \/ HasOption("--can-iface") /\ options' = [options EXCEPT !.iface = Argument]
       \/ HasOption("--log-file")  /\ options' = [options EXCEPT !.log = Argument]
    /\ arg' = arg + 2
    /\ UNCHANGED <<argv, edsVars, config, dictionary, phase, buildVars>>

NodeIdOption ==
    /\ HasOption("--node-id")
    /\ arg' = arg + 2
    /\ IF Argument \in DOMAIN DecimalOf
       THEN /\ options' = [options EXCEPT !.node = DecimalOf[Argument] % ByteSize,
                                          !.fromCli = TRUE]
            /\ UNCHANGED phase
       ELSE phase' = "failed" /\ UNCHANGED options
    /\ UNCHANGED <<argv, edsVars, config, dictionary, buildVars>>

(* Options with no part here, except that some of their values throw.      *)
OtherOption ==
    /\ \/ /\ HasOption("--log-level")
          /\ phase' = IF Argument \in {"debug", "info", "warn", "error"} THEN phase ELSE "failed"
       \/ /\ HasOption("--rf-port")
          /\ phase' = IF Argument \in DOMAIN DecimalOf THEN phase ELSE "failed"
    /\ arg' = arg + 2
    /\ UNCHANGED <<argv, options, edsVars, config, dictionary, buildVars>>

IgnoredWord ==
    /\ phase = "args" /\ arg <= Len(argv)
    /\ argv[arg] \notin OptionNames \/ arg = Len(argv)
    /\ arg' = arg + 1
    /\ UNCHANGED <<argv, options, edsVars, config, dictionary, phase, buildVars>>

(* InitializeLogging throws if it cannot open the log file.                *)
ArgsDone ==
    /\ phase = "args" /\ arg > Len(argv)
    /\ \/ phase' = IF options.eds = "" THEN "failed" ELSE "config"
       \/ options.log # "" /\ phase' = "failed"
    /\ UNCHANGED <<lineVars, edsVars, config, dictionary, buildVars>>

-----------------------------------------------------------------------------
(* LoadFile and ParseFile.                                                 *)

WidthOf(s) ==
    CASE s = CobIdSub -> DwordSize [] s = TypeSub -> ByteSize [] OTHER -> WordSize

(* What LoadText accepts: numbers that fit their types, PDO numbers from 1. *)
(* A part that should be a map and is none is refused like a number 0.      *)
Loads(yaml) ==
    /\ yaml.node \in Subs \cup {NoNumber}
    /\ \A item \in ToSet(yaml.rpdo) \cup ToSet(yaml.tpdo) :
          /\ item.number \in Indices \ {0}
          /\ \A s \in DOMAIN item.says : item.says[s] \in 0 .. WidthOf(s) - 1

(* Seeded fault: the first item of a number stays.                         *)
SectionOfFirst(items) ==
    [n \in {items[i].number : i \in DOMAIN items} |->
        items[Min({i \in DOMAIN items : items[i].number = n})].says]

(* target[pdo_number] = ...: the last item of a number replaces the others. *)
SectionOf(items) ==
    [n \in {items[i].number : i \in DOMAIN items} |->
        items[Max({i \in DOMAIN items : items[i].number = n})].says]

LoadConfig ==
    /\ phase = "config"
    /\ IF options.config = "" THEN phase' = "eds" /\ UNCHANGED <<options, config>>
       ELSE IF options.config \in DOMAIN ConfigFiles /\ Loads(ConfigFiles[options.config])
       THEN LET yaml == ConfigFiles[options.config]
            IN  /\ config' = [defaults |-> yaml.defaults,
                              rpdo |-> SectionOf(yaml.rpdo), tpdo |-> SectionOf(yaml.tpdo)]
                /\ options' = [options EXCEPT !.node =
                                  IF yaml.node = NoNumber \/ options.fromCli THEN @ ELSE yaml.node]
                /\ phase' = "eds"
       ELSE phase' = "failed" /\ UNCHANGED <<options, config>>
    /\ UNCHANGED <<argv, arg, edsVars, dictionary, buildVars>>

(* ParseFile throws if the file cannot be opened.                          *)
OpenEds ==
    /\ phase = "eds"
    /\ IF options.eds \in DOMAIN EdsFiles
       THEN lines' = EdsFiles[options.eds] /\ phase' = "lines"
       ELSE phase' = "failed" /\ UNCHANGED lines
    /\ UNCHANGED <<lineVars, sections, eds, config, dictionary, buildVars>>

ParseLine ==
    /\ phase = "lines"
    /\ IF lines # <<>>
       THEN /\ sections' = ReadLine(sections, Head(lines))
            /\ lines' = Tail(lines)
            /\ UNCHANGED phase
       ELSE phase' = "sections" /\ UNCHANGED <<lines, sections>>
    /\ UNCHANGED <<lineVars, eds, config, dictionary, buildVars>>

ParseSection ==
    /\ phase = "sections" /\ sections # <<>>
    /\ dictionary' = ReadSection(dictionary, Head(sections), options.node)
    /\ sections' = Tail(sections)
    /\ UNCHANGED <<lineVars, lines, eds, config, phase, buildVars>>

(* ApplyToDictionary is called if there is a configuration.                *)
Parsed ==
    /\ phase = "sections" /\ sections = <<>>
    /\ eds' = dictionary
    /\ phase' = IF options.config = "" THEN "build" ELSE "defaults"
    /\ UNCHANGED <<lineVars, lines, sections, config, dictionary, buildVars>>

-----------------------------------------------------------------------------
(* ApplyToDictionary.                                                      *)

(* parse_canonical_key.                                                    *)
ParseKey(words) ==
    LET colon == Find(words, ":")
    IN  IF colon = 0 THEN {}
        ELSE {<<i % WordSize, s % ByteSize>> :
                 i \in Unsigned(Upto(words, colon)), s \in Unsigned(Beyond(words, colon))}

(* od_defaults is an unordered map.  A key or value that is not acceptable *)
(* throws and main gives up.                                               *)
ApplyDefault ==
    /\ phase = "defaults"
    /\ \E text \in DOMAIN config.defaults :
         LET hits   == ParseKey(text) \cap DOMAIN dictionary
             Values(k) == ValueForType(config.defaults[text], dictionary[k].type)
         IN  /\ config' = [config EXCEPT !.defaults = Restrict(@, DOMAIN @ \ {text})]
             /\ \/ /\ \E k \in hits, v \in UNION {Values(h) : h \in hits} :
                         dictionary' = [dictionary EXCEPT ![k].value = v]
                   /\ UNCHANGED phase
                \/ /\ \A k \in hits : Values(k) = {}
                   /\ phase' = "failed" /\ UNCHANGED dictionary
    /\ UNCHANGED <<lineVars, edsVars, buildVars>>

DefaultsDone ==
    /\ phase = "defaults" /\ DOMAIN config.defaults = {}
    /\ phase' = "rpdo"
    /\ UNCHANGED <<lineVars, edsVars, config, dictionary, buildVars>>

CommStart(dir) == IF dir = "receive" THEN Base ELSE Base + 2 * Count
MapStart(dir)  == CommStart(dir) + Count

(* Seeded fault: numbers counted from 0.                                   *)
CommIndexFromZero(start, number) == (start + number) % WordSize

(* comm_index is a uint16_t.                                               *)
CommIndex(start, number) == (start + number - 1) % WordSize

(* The keys a section touches, with their values.                          *)
Touched(start, section) ==
    UNION {{[key |-> <<CommIndex(start, number), s>>, n |-> section[number][s]]
              : s \in DOMAIN section[number]} : number \in DOMAIN section}

NewEntry == [type |-> "unknown", access |-> "unknown", value |-> NoValue]

(* Seeded fault: an entry the EDS file has keeps its value.                *)
EntryWithKept(d, k, n) ==
    IF k \in DOMAIN d THEN d[k] ELSE [NewEntry EXCEPT !.value = Number("uint", n)]

(* A missing entry is created; the value is unsigned whatever the type.    *)
EntryWith(d, k, n) ==
    [(IF k \in DOMAIN d THEN d[k] ELSE NewEntry) EXCEPT !.value = Number("uint", n)]

(* apply_single_pdo_override.                                              *)
Overridden(d, start, section) ==
    LET touched == Touched(start, section)
        New(k)  == {EntryWith(d, k, t.n) : t \in {t \in touched : t.key = k}}
    IN  [k \in DOMAIN d \cup {t.key : t \in touched} |->
            Sole(New(k), IF k \in DOMAIN d THEN d[k] ELSE NewEntry)]

ApplyRpdoOverrides ==
    /\ phase = "rpdo"
    /\ dictionary' = Overridden(dictionary, CommStart("receive"), config.rpdo)
    /\ phase' = "tpdo"
    /\ UNCHANGED <<lineVars, edsVars, config, buildVars>>

ApplyTpdoOverrides ==
    /\ phase = "tpdo"
    /\ dictionary' = Overridden(dictionary, CommStart("transmit"), config.tpdo)
    /\ phase' = "build"
    /\ UNCHANGED <<lineVars, edsVars, config, buildVars>>

-----------------------------------------------------------------------------
(* build_range, for receive PDOs and then for transmit PDOs.               *)

(* read_u64 and value_to_u64.                                              *)
ReadU64(d, index, s) ==
    IF <<index, s>> \in DOMAIN d
    THEN LET v == d[<<index, s>>].value
         IN  IF v.alt \in {"uint", "bool"} \/ (v.alt = "int" /\ v.n >= 0) THEN v.n ELSE NoNumber
    ELSE NoNumber

ReadOr(d, index, s, size, default) ==
    LET n == ReadU64(d, index, s)
    IN  IF n = NoNumber THEN default ELSE n % size

(* A mapping word: index, sub-index and bit length, cut to 32 bits.        *)
Unpack(packed) ==
    [index |-> (packed \div (ByteSize * ByteSize)) % WordSize,
     sub   |-> (packed \div ByteSize) % ByteSize,
     bits  |-> packed % ByteSize]

MapIndex    == MapStart(range) + offset
SignalCount == ReadU64(dictionary, MapIndex, 0) % ByteSize

(* Seeded fault: the communication object of the other direction.          *)
CommIndexOfReceive == CommStart("receive") + offset
CommIndexOf == CommStart(range) + offset

Communication(d, index) ==
    [cobId   |-> ReadOr(d, index, CobIdSub, DwordSize, 0),
     type    |-> ReadOr(d, index, TypeSub, ByteSize, ByteSize - 1),
     inhibit |-> ReadOr(d, index, InhibitSub, WordSize, 0),
     timer   |-> ReadOr(d, index, TimerSub, WordSize, 0)]

SkipPdo ==
    /\ phase = "build" /\ offset < Count
    /\ ReadU64(dictionary, MapIndex, 0) = NoNumber
    /\ offset' = offset + 1
    /\ UNCHANGED <<lineVars, edsVars, config, dictionary, phase, range, sub, pdo, pdos>>

(* Seeded fault: the loop variable goes on where the last PDO left it.     *)
BeginPdoKeepsSub ==
    /\ phase = "build" /\ offset < Count
    /\ ReadU64(dictionary, MapIndex, 0) # NoNumber
    /\ pdo' = [dir |-> range, number |-> offset + 1, signals |-> <<>>,
               communication |-> Communication(dictionary, CommIndexOf)]
    /\ phase' = "mapping"
    /\ UNCHANGED <<lineVars, edsVars, config, dictionary, range, offset, sub, pdos>>

BeginPdo ==
    /\ phase = "build" /\ offset < Count
    /\ ReadU64(dictionary, MapIndex, 0) # NoNumber
    /\ pdo' = [dir |-> range, number |-> offset + 1, signals |-> <<>>,
               communication |-> Communication(dictionary, CommIndexOf)]
    /\ sub' = 1
    /\ phase' = "mapping"
    /\ UNCHANGED <<lineVars, edsVars, config, dictionary, range, offset, pdos>>

(* Seeded faults: a loop variable wider than a byte; a missing word skips  *)
(* the increment.                                                          *)
NextSubWide  == sub + 1
NextSubStuck == IF ReadU64(dictionary, MapIndex, sub) = NoNumber THEN sub ELSE (sub + 1) % ByteSize

(* ++sub on a uint8_t.                                                     *)
NextSub == (sub + 1) % ByteSize

(* A missing word is a warning.                                            *)
MapSignal ==
    /\ phase = "mapping" /\ sub <= SignalCount
    /\ LET word == ReadU64(dictionary, MapIndex, sub)
       IN  pdo' = IF word = NoNumber \/ Len(pdo.signals) = MaxSignals THEN pdo
                  ELSE [pdo EXCEPT !.signals = Append(@, Unpack(word))]
    /\ sub' = NextSub
    /\ UNCHANGED <<lineVars, edsVars, config, dictionary, phase, range, offset, pdos>>

EndPdo ==
    /\ phase = "mapping" /\ sub > SignalCount
    /\ pdos' = Append(pdos, pdo)
    /\ pdo' = NoPdo
    /\ offset' = offset + 1
    /\ phase' = "build"
    /\ UNCHANGED <<lineVars, edsVars, config, dictionary, range, sub>>

RangeDone ==
    /\ phase = "build" /\ offset = Count
    /\ IF range = "receive"
       THEN range' = "transmit" /\ offset' = 0 /\ UNCHANGED phase
       ELSE phase' = "done" /\ UNCHANGED <<range, offset>>
    /\ UNCHANGED <<lineVars, edsVars, config, dictionary, sub, pdo, pdos>>

Next ==
    \/ PathOption \/ NodeIdOption \/ OtherOption \/ IgnoredWord \/ ArgsDone
    \/ LoadConfig \/ OpenEds \/ ParseLine \/ ParseSection \/ Parsed
    \/ ApplyDefault \/ DefaultsDone \/ ApplyRpdoOverrides \/ ApplyTpdoOverrides
    \/ SkipPdo \/ BeginPdo \/ MapSignal \/ EndPdo \/ RangeDone

(* One thread that never waits.                                            *)
Spec == Init /\ [][Next]_vars /\ WF_vars(Next)

-----------------------------------------------------------------------------
(* Properties.                                                             *)

Types  == {"bool", "int", "uint", "real", "text", "unknown"}
Phases == {"args", "config", "eds", "lines", "sections", "defaults", "rpdo", "tpdo",
           "build", "mapping", "done", "failed"}

IsValue(v) ==
    /\ v.n \in Int
    /\ v.alt = "uint" => v.n \in 0 .. LongSize - 1
    /\ v.alt = "bool" => v.n \in {0, 1}

OverriddenPhases == {"tpdo", "build", "mapping", "done"}

IsEntry(entry, stage) ==
    /\ DOMAIN entry = {"type", "access", "value"} /\ entry.type \in Types
    /\ IsValue(entry.value)
    /\ \/ Compatible(entry.type, entry.value)
       \/ stage \in OverriddenPhases /\ entry.value.alt = "uint"

IsDictionary(d, stage) ==
    \A k \in DOMAIN d : k \in Indices \X Subs /\ IsEntry(d[k], stage)

(* Types.  Values fit their entries' types until an override puts its own   *)
(* unsigned one; loop variables stay in their widths, and a definition is   *)
(* under construction in the mapping loop only.                             *)
TypeOK ==
    /\ options.node \in Subs
    /\ DOMAIN options = {"eds", "node", "fromCli", "config", "iface", "log"}
    /\ IsDictionary(dictionary, phase)
    /\ phase \in Phases /\ range \in {"receive", "transmit"}
    /\ offset \in 0 .. Count /\ (phase = "mapping" => offset < Count) /\ sub \in Subs
    /\ pdo.dir = IF phase = "mapping" THEN range ELSE "none"

(* Whatever configuration was accepted, its overrides name PDOs from 1 and  *)
(* hold numbers that fit the entries they go to.                            *)
ConfigInv ==
    /\ DOMAIN config = {"defaults", "rpdo", "tpdo"}
    /\ \A section \in {config.rpdo, config.tpdo} : \A n \in DOMAIN section :
         /\ n \in Indices \ {0} /\ DOMAIN section[n] \subseteq OverrideSubs
         /\ \A s \in DOMAIN section[n] : section[n][s] \in 0 .. WidthOf(s) - 1

(* What an EDS file says, line by line and without the parser's loop: the   *)
(* lines up to comments, which begin where an even number of quotes stands  *)
(* before, in a section the last line of a field.                           *)
Body(line) ==
    LET marks == {i \in DOMAIN line : line[i] \in {";", "#"}
                    /\ Cardinality({j \in 1 .. i - 1 : line[j] = Quote}) % 2 = 0}
    IN  SubSeq(line, 1, Max({n \in 0 .. Len(line) : \A i \in marks : n < i}))

Opened(line) ==
    LET body == Body(line)
    IN  IF IsHeader(body) /\ IsObject(Inner(body)) THEN {KeyOf(Inner(body))} ELSE {}

Equals(line)  == Find(Body(line), "=")
Field(line)   == Lower(Upto(Body(line), Equals(line)))
Content(line) == Beyond(Body(line), Equals(line))

(* Of the first n lines, those with a pair in the section opened at line h. *)
Pairs(text, h, n) ==
    {j \in h + 1 .. n : Equals(text[j]) > 0 /\ \A i \in h + 1 .. j : ~IsHeader(Body(text[i]))}

Said(text, h, n, field) ==
    LET found == {j \in Pairs(text, h, n) : Field(text[j]) = field}
    IN  {Content(text[j]) : j \in {j \in found : j = Max(found)}}

(* The documented forms of an integer default: "Integer literals in         *)
(* decimal/hex", "$NODEID", and the sum of one of each.  A word of which    *)
(* only the head is a number is none of them and means nothing here.        *)
Term(word, node) ==
    IF IsNodeId(<<word>>) THEN {node}
    ELSE IF word \in Literals THEN Unsigned(<<word>>)
    ELSE {}

Sums(A, B) == {(a + b) % LongSize : a \in A, b \in B}

IsSum(words) ==
    /\ Len(words) = 3 /\ words[2] = "+"
    /\ ~(IsNodeId(<<words[1]>>) <=> IsNodeId(<<words[3]>>))

Meant(words, node) ==
    IF Len(words) = 1 THEN Term(words[1], node)
    ELSE IF IsSum(words)
    THEN Sums(Term(words[1], node), Term(words[3], node))
    ELSE {}

(* A word after an option's name is its argument, whatever it looks like.   *)
Kinds ==
    LET kind[i \in 0 .. Len(argv)] ==
          IF i = 0 THEN "word"
          ELSE IF argv[i] \in OptionNames /\ kind[i - 1] = "word" THEN "option" ELSE "word"
    IN  kind

NodeIdsUpto(n) ==
    {i \in 1 .. n : i < Len(argv) /\ argv[i] = "--node-id" /\ Kinds[i] = "option"}

NodeFrom(given, default) ==
    IF given = {} THEN default ELSE DecimalOf[argv[Max(given) + 1]] % ByteSize

EffectiveNode ==
    LET yaml == IF options.config = "" THEN NoNumber ELSE ConfigFiles[options.config].node
    IN  NodeFrom(NodeIdsUpto(Len(argv)), IF yaml = NoNumber THEN 1 ELSE yaml)

EntryMatches(entry, text, h, node) ==
    LET types  == Said(text, h, Len(text), <<"datatype">>)
        values == Said(text, h, Len(text), <<"defaultvalue">>)
    IN  /\ \A words \in types : \A code \in Unsigned(words) :
              code < DwordSize => entry.type = TypeOfCode(code)
        /\ (\A words \in types : Unsigned(words) = {}) => entry.type = "unknown"
        /\ \A words \in values :
              /\ entry.type \in {"bool", "int", "uint"} =>
                   \A n \in Meant(words, node) :
                      /\ entry.value.alt = entry.type
                      /\ IF entry.type = "bool" THEN entry.value.n = 1 <=> n # 0
                         ELSE (entry.value.n - n) % LongSize = 0
              /\ entry.type = "text" =>
                   entry.value = Text(IF Quoted(words) THEN Inner(words) ELSE words)
        /\ values = {} => entry.value = NoValue

(* An entry for each object one of the lines opens and no other, with the   *)
(* type and the value that the last section of the object says.             *)
DictionaryFrom(text, opening) ==
    /\ DOMAIN dictionary = UNION {Opened(text[h]) : h \in opening}
    /\ \A k \in DOMAIN dictionary :
          EntryMatches(dictionary[k], text, Max({h \in opening : k \in Opened(text[h])}),
                       EffectiveNode)

(* The dictionary that comes out of the parser has an entry for each object *)
(* the file names and no other, with the type and the value the file says,  *)
(* $NODEID being the node id of the line, else of the configuration, else 1. *)
(* Nothing is asked of an integer default that is not of a documented form. *)
ParsedMatchesText ==
    phase = "sections" /\ sections = <<>> =>
        LET text == EdsFiles[options.eds] IN DictionaryFrom(text, DOMAIN text)

(* What ParsedMatchesText rests on: what the loops of main,                 *)
(* parse_ini_sections and ParseText have made of the words, lines and       *)
(* sections they have passed.                                               *)
CommandLineInv ==
    LET given == NodeIdsUpto(arg - 1)
    IN  /\ phase \in {"args", "config"} =>
             /\ arg \in 1 .. Len(argv) + 1 /\ (arg <= Len(argv) => Kinds[arg - 1] = "word")
             /\ phase = "config" => arg = Len(argv) + 1
             /\ options.fromCli = (given # {}) /\ options.node = NodeFrom(given, 1)
        /\ phase \in {"eds", "lines", "sections"} => options.node = EffectiveNode

Headers(text) ==
    LET upto[n \in 0 .. Len(text)] ==
          IF n = 0 THEN <<>>
          ELSE IF IsHeader(Body(text[n])) THEN Append(upto[n - 1], n) ELSE upto[n - 1]
    IN  upto

SectionIs(section, text, h, n) ==
    /\ DOMAIN section = {"name", "pairs"} /\ section.name = Inner(Body(text[h]))
    /\ DOMAIN section.pairs = {Field(text[j]) : j \in Pairs(text, h, n)}
    /\ \A field \in DOMAIN section.pairs : Said(text, h, n, field) = {section.pairs[field]}

(* The sections of the first n lines, without the first d.                  *)
SectionsAre(text, n, d) ==
    LET opened == Headers(text)[n]
    IN  /\ sections \in Seq(ToSet(sections)) /\ Len(opened) = d + Len(sections)
        /\ \A s \in 1 .. Len(sections) : SectionIs(sections[s], text, opened[d + s], n)

ParsingInv ==
    LET text   == EdsFiles[options.eds]
        read   == Len(text) - Len(lines)
        opened == Headers(text)[Len(text)]
        done   == Len(opened) - Len(sections)
    IN  /\ phase \in {"args", "config", "eds"} => sections = <<>>
        /\ phase \in {"args", "config", "eds", "lines"} => dictionary = <<>>
        /\ phase \in {"lines", "sections"} => options.eds \in DOMAIN EdsFiles
        /\ phase = "lines" =>
             read \in Nat /\ lines = SubSeq(text, read + 1, Len(text)) /\ SectionsAre(text, read, 0)
        /\ phase = "sections" =>
             /\ done \in Nat /\ SectionsAre(text, Len(text), done)
             /\ DictionaryFrom(text, {opened[s] : s \in 1 .. done})

(* "RPDO n -> object 0x1400 + (n - 1)" and the like for TPDOs, in 16 bits.  *)
Overrides(items, base, k) ==
    {items[i].says[k[2]] : i \in {i \in DOMAIN items :
        /\ (base + items[i].number - 1) % WordSize = k[1] /\ k[2] \in DOMAIN items[i].says
        /\ \A j \in i + 1 .. Len(items) : items[j].number # items[i].number}}

Yaml == IF options.config = "" THEN NoConfig ELSE ConfigFiles[options.config]

(* An entry has the value of a TPDO override if one names it, else of an    *)
(* RPDO override, else of one of the defaults that name it, whichever of    *)
(* two spellings, else of the EDS file; entries are those of the file and   *)
(* of overrides.                                                            *)
DictionaryIs(texts, rpdo, tpdo) ==
    \A k \in Indices \X Subs :
        LET Tpdo    == Overrides(tpdo, Base + 2 * Count, k)
            Rpdo    == Overrides(rpdo, Base, k)
            Default == UNION {ValueForType(Yaml.defaults[t], eds[k].type) :
                                t \in {t \in texts : k \in ParseKey(t)}}
            v       == dictionary[k].value
        IN  /\ k \in DOMAIN dictionary <=> k \in DOMAIN eds \/ Tpdo # {} \/ Rpdo # {}
            /\ k \in DOMAIN dictionary =>
                 CASE Tpdo # {} -> v.alt = "uint" /\ v.n \in Tpdo
                   [] Tpdo = {} /\ Rpdo # {} -> v.alt = "uint" /\ v.n \in Rpdo
                   [] OTHER -> IF Default # {} THEN v \in Default ELSE v = eds[k].value

(* So it is when start-up ends, for all the configuration has.              *)
DictionaryMatchesInputs ==
    phase = "done" => DictionaryIs(DOMAIN Yaml.defaults, Yaml.rpdo, Yaml.tpdo)

(* On the way there, for what has been applied; the rest waits in config as *)
(* it was read.                                                             *)
ConfigIsYaml ==
    /\ options.config \in DOMAIN ConfigFiles
    /\ config.rpdo = SectionOf(Yaml.rpdo) /\ config.tpdo = SectionOf(Yaml.tpdo)
    /\ \A t \in DOMAIN config.defaults :
         t \in DOMAIN Yaml.defaults /\ config.defaults[t] = Yaml.defaults[t]
    /\ phase \in {"eds", "lines", "sections"} => DOMAIN config.defaults = DOMAIN Yaml.defaults

AppliedInv ==
    LET applied == DOMAIN Yaml.defaults \ DOMAIN config.defaults
    IN  /\ phase \in {"eds", "lines", "sections", "defaults", "rpdo", "tpdo"} =>
             options.config = "" \/ ConfigIsYaml
        /\ phase \in {"defaults", "rpdo", "tpdo"} => options.config # ""
        /\ phase = "defaults" =>
             /\ DictionaryIs(applied, <<>>, <<>>)
             /\ DOMAIN dictionary = DOMAIN eds
             /\ \A k \in DOMAIN eds : dictionary[k].type = eds[k].type
        /\ phase = "rpdo" => DictionaryIs(DOMAIN Yaml.defaults, <<>>, <<>>)
        /\ phase = "tpdo" => DictionaryIs(DOMAIN Yaml.defaults, Yaml.rpdo, <<>>)
        /\ phase \in {"build", "mapping", "done"} =>
             DictionaryIs(DOMAIN Yaml.defaults, Yaml.rpdo, Yaml.tpdo)

(* What the properties of the dictionary rest on, at every stage.           *)
InputsInv == ConfigInv /\ CommandLineInv /\ ParsingInv /\ AppliedInv

MappingIndices ==
    UNION {MapStart(dir) .. MapStart(dir) + Count - 1 : dir \in {"receive", "transmit"}}

(* The words that are present among the first s that entry 0 counts.        *)
SignalsUpto(d, index) ==
    LET upto[s \in 0 .. ReadU64(d, index, 0) % ByteSize] ==
          IF s = 0 THEN <<>>
          ELSE IF ReadU64(d, index, s) = NoNumber THEN upto[s - 1]
          ELSE Append(upto[s - 1], Unpack(ReadU64(d, index, s)))
    IN  upto

SignalsFor(d, index) == SignalsUpto(d, index)[ReadU64(d, index, 0) % ByteSize]

(* At the end there is exactly one definition per mapping object that has a *)
(* count, receive PDOs first and by number, with the communication object   *)
(* of its own direction and number and the signals mapped there.            *)
BuildMatchesDictionary ==
    phase = "done" =>
        /\ \A dir \in {"receive", "transmit"}, number \in 1 .. Count :
             LET index == MapStart(dir) + number - 1
                 built == {p \in ToSet(pdos) : p.dir = dir /\ p.number = number}
             IN  /\ built # {} <=> ReadU64(dictionary, index, 0) # NoNumber
                 /\ \A p \in built :
                      /\ p.signals = SignalsFor(dictionary, index)
                      /\ p.communication = Communication(dictionary, index - Count)
        /\ \A m, n \in 1 .. Len(pdos) :
             m < n => \/ pdos[m].dir = "receive" /\ pdos[n].dir = "transmit"
                      \/ pdos[m].dir = pdos[n].dir /\ pdos[m].number < pdos[n].number

(* Half-way through the builder's loops, every mapping object passed that   *)
(* has a count has given one definition, in order and complete, and the one *)
(* being filled has the signals of the words the loop has passed.           *)
Passed(dir, number) ==
    \/ dir = "receive" /\ range = "transmit"
    \/ dir = range /\ number <= offset

Complete(d, p) ==
    LET index == MapStart(p.dir) + p.number - 1
    IN  /\ p.signals = SignalsFor(d, index)
        /\ p.communication = Communication(d, index - Count)

Precedes(p, q) ==
    \/ p.dir = "receive" /\ q.dir = "transmit"
    \/ p.dir = q.dir /\ p.number < q.number

BuiltInv ==
    /\ pdos \in Seq(ToSet(pdos))
    /\ \A n \in 1 .. Len(pdos) :
         /\ pdos[n].dir \in {"receive", "transmit"} /\ pdos[n].number \in 1 .. Count
         /\ Passed(pdos[n].dir, pdos[n].number) /\ Complete(dictionary, pdos[n])
         /\ \A m \in 1 .. n - 1 : Precedes(pdos[m], pdos[n])
    /\ \A dir \in {"receive", "transmit"}, number \in 1 .. Count :
         Passed(dir, number) =>
            ((\E n \in 1 .. Len(pdos) : pdos[n].dir = dir /\ pdos[n].number = number)
               <=> ReadU64(dictionary, MapStart(dir) + number - 1, 0) # NoNumber)

FillingInv ==
    phase = "mapping" =>
        /\ ReadU64(dictionary, MapIndex, 0) # NoNumber
        /\ pdo = [dir |-> range, number |-> offset + 1, signals |-> pdo.signals,
                  communication |-> Communication(dictionary, CommIndexOf)]
        /\ SignalCount < ByteSize - 1 =>
             /\ sub \in 1 .. SignalCount + 1
             /\ pdo.signals = SignalsUpto(dictionary, MapIndex)[sub - 1]

Unstarted ==
    phase \notin {"build", "mapping", "done"} =>
        range = "receive" /\ offset = 0 /\ pdos = <<>>

AllPassed == phase = "done" => range = "transmit" /\ offset = Count

BuildInv == BuiltInv /\ FillingInv /\ Unstarted /\ AllPassed

NumbersInRange == \A n \in DOMAIN config.rpdo \cup DOMAIN config.tpdo : n <= Count

(* Overrides of PDO numbers up to Count leave every mapping object alone.   *)
MappingsKept ==
    [][NumbersInRange /\ phase \in {"rpdo", "tpdo"} =>
          \A index \in MappingIndices, s \in Subs :
              ReadU64(dictionary, index, s) = ReadU64(dictionary', index, s)]_vars

FullCount ==
    \E index \in MappingIndices :
        LET n == ReadU64(dictionary, index, 0)
        IN  n # NoNumber /\ n % ByteSize = ByteSize - 1

(* Start-up ends with every input for which no mapping object counts        *)
(* ByteSize - 1 entries.                                                    *)
StartupEndsUnlessFull ==
    <>(phase \in {"done", "failed"} \/ (phase \in {"build", "mapping"} /\ FullCount))

(* "Builds RPDO/TPDO definitions from standard CANopen OD ranges": it does  *)
(* so for every dictionary, and main goes on.  It fails for a count of 255, *)
(* which a uint8_t loop variable never exceeds.                             *)
BuildEnds == <>(phase \in {"done", "failed"})

=============================================================================
