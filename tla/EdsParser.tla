------------------------------ MODULE EdsParser ------------------------------
(***************************************************************************)
(* EdsParser::ParseText as operators: what a line does to the sections     *)
(* read, and a section, with the node id, to the object dictionary.        *)
(*                                                                         *)
(* The name of an object section is its index, or three words: the index,  *)
(* sub, and the sub-index.                                                 *)
(***************************************************************************)
EXTENDS Values

CONSTANTS
    LowerOf,    \* the words with capitals, in lower case
    IndexOf,    \* the words of four hexadecimal digits, as numbers
    SubOf,      \* those of one or two
    DwordSize   \* 2^32 in the code

Quote == "\""

Lower(words) ==
    [i \in DOMAIN words |->
        IF words[i] \in DOMAIN LowerOf THEN LowerOf[words[i]] ELSE words[i]]

Quoted(words) ==
    Len(words) >= 2 /\ Head(words) = Quote /\ Last(words) = Quote

Inner(words) == SubSeq(words, 2, Len(words) - 1)

(* map[key] = value.                                                       *)
With(map, key, value) ==
    [k \in DOMAIN map \cup {key} |-> IF k = key THEN value ELSE map[k]]

-----------------------------------------------------------------------------
(* Lines and sections.                                                     *)

(* Seeded fault: a comment mark counts inside a quoted string too.         *)
StripCommentAnywhere(line) ==
    LET first == SelectInSeq(line, LAMBDA w : w \in {";", "#"})
    IN  IF first = 0 THEN line ELSE Upto(line, first)

(* strip_inline_comment: every quote turns in_quote round.                 *)
StripComment(line) ==
    LET InQuote(i) == Cardinality({j \in 1 .. i - 1 : line[j] = Quote}) % 2 = 1
        ends == {i \in DOMAIN line : line[i] \in {";", "#"} /\ ~InQuote(i)}
    IN  IF ends = {} THEN line ELSE Upto(line, Min(ends))

IsHeader(line) == line # <<>> /\ Head(line) = "[" /\ Last(line) = "]"

(* The loop of parse_ini_sections; the section being read is the last one. *)
ReadLine(sections, line) ==
    LET bare   == StripComment(line)
        equals == Find(bare, "=")
        last   == Len(sections)
    IN  CASE IsHeader(bare) ->
               Append(sections, [name |-> StripComment(Inner(bare)), pairs |-> <<>>])
          [] ~IsHeader(bare) /\ last > 0 /\ equals > 0 ->
               [sections EXCEPT ![last].pairs =
                    With(@, Lower(Upto(bare, equals)), Beyond(bare, equals))]
          [] OTHER -> sections

(* parse_section_name.                                                     *)
IsObject(name) ==
    /\ Len(name) \in {1, 3} /\ name[1] \in DOMAIN IndexOf
    /\ Len(name) = 3 => name[2] = "sub" /\ name[3] \in DOMAIN SubOf

KeyOf(name) == <<IndexOf[name[1]], IF Len(name) = 3 THEN SubOf[name[3]] ELSE 0>>

-----------------------------------------------------------------------------
(* Values.                                                                 *)

IsNodeId(words) == Lower(words) = <<"$nodeid">>

(* evaluate_default_expression: the node id, a literal, or their sum.      *)
Evaluate(words, node) ==
    LET plus  == Find(words, "+")
        left  == Upto(words, plus)
        right == Beyond(words, plus)
        Plus(side) == {(node + n) % LongSize : n \in Unsigned(side)}
    IN  CASE Quoted(words)   -> {}
          [] IsNodeId(words) -> {node}
          [] plus = 0 /\ ~Quoted(words) /\ ~IsNodeId(words) -> Unsigned(words)
          [] plus # 0 /\ ~Quoted(words) ->
               CASE IsNodeId(left) = IsNodeId(right) -> {}
                 [] IsNodeId(left) /\ ~IsNodeId(right) -> Plus(right)
                 [] OTHER -> Plus(left)

(* data_type_from_eds_code; a class of types has one alternative of Value. *)
TypeOfCode(code) ==
    CASE code = 1               -> "bool"
      [] code \in {2, 3, 4, 21} -> "int"
      [] code \in {5, 6, 7, 27} -> "uint"
      [] code \in {8, 17}       -> "real"
      [] code \in {9, 10}       -> "text"
      [] OTHER                  -> "unknown"

AccessOfText(words) ==
    LET access == Lower(words)
    IN  IF access \in {<<"ro">>, <<"rw">>, <<"wo">>, <<"const">>} THEN access[1] ELSE "unknown"

AsSigned(n) == IF n >= LongSize \div 2 THEN n - LongSize ELSE n

(* parse_default_value.                                                    *)
DefaultValue(words, type, node) ==
    CASE type = "text" -> {Text(IF Quoted(words) THEN Inner(words) ELSE words)}
      [] type = "real" ->
           IF words # <<>> /\ Head(words) \in RealWords THEN {Number("real", 0)} ELSE {}
      [] type = "bool" ->
           {Number("bool", IF n = 0 THEN 0 ELSE 1) : n \in Evaluate(words, node)}
      [] type = "int"  -> {Number("int", AsSigned(n)) : n \in Evaluate(words, node)}
      [] OTHER         -> {Number("uint", n) : n \in Evaluate(words, node)}

-----------------------------------------------------------------------------
(* Entries.  What cannot be read is a warning and leaves the default.      *)

Given(pairs, field) ==
    IF <<field>> \in DOMAIN pairs THEN {pairs[<<field>>]} ELSE {}

Sole(values, default) == IF values = {} THEN default ELSE CHOOSE v \in values : TRUE

EntryOf(pairs, node) ==
    LET codes  == UNION {Unsigned(words) : words \in Given(pairs, "datatype")}
        type   == Sole({TypeOfCode(c % DwordSize) : c \in codes}, "unknown")
        values == UNION {DefaultValue(words, type, node) : words \in Given(pairs, "defaultvalue")}
    IN  [type   |-> type,
         access |-> Sole({AccessOfText(words) : words \in Given(pairs, "accesstype")}, "unknown"),
         value  |-> Sole(values, NoValue)]

(* The loop of ParseText: a later section of an object replaces the entry. *)
ReadSection(dictionary, section, node) ==
    IF IsObject(section.name)
    THEN With(dictionary, KeyOf(section.name), EntryOf(section.pairs, node))
    ELSE dictionary

=============================================================================
