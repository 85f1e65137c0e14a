------------------------------- MODULE Values -------------------------------
(***************************************************************************)
(* Texts and values.  A text is a sequence of tokens: the marks [ ] = + *  *)
(* ; # : and the quote are tokens of their own, what stands between them   *)
(* is a word; white space is left out.  What the C library reads in a word *)
(* is given by constants.  A value is its std::variant alternative with    *)
(* its number or text; reals are not told apart.  The integer types of one *)
(* signedness share an alternative and are one type here.                  *)
(* An operator that may throw returns a set, empty when it throws.         *)
(***************************************************************************)
EXTENDS Integers, SequencesExt

CONSTANTS
    IntegerOf,  \* the integer at the head of a word that starts with one, base 0
    RealWords,  \* the words std::stod accepts
    LongSize    \* 2^64 in the code

NoValue == [alt |-> "none", n |-> 0, text |-> <<>>]
Number(alt, n) == [alt |-> alt, n |-> n, text |-> <<>>]
Text(words)    == [alt |-> "text", n |-> 0, text |-> words]

Upto(words, i)   == SubSeq(words, 1, i - 1)
Beyond(words, i) == SubSeq(words, i + 1, Len(words))
Find(words, mark) == SelectInSeq(words, LAMBDA w : w = mark)

IntegerAt(words) ==
    IF words # <<>> /\ Head(words) \in DOMAIN IntegerOf THEN {IntegerOf[Head(words)]} ELSE {}

(* std::stoull and std::stoll leave what follows the digits; the first one  *)
(* wraps what has a minus sign.                                             *)
Unsigned(words) ==
    {n % LongSize : n \in IntegerAt(words) \cap (1 - LongSize .. LongSize - 1)}

Signed(words) == IntegerAt(words) \cap (-(LongSize \div 2) .. LongSize \div 2 - 1)

(* parse_value_for_type of the configuration, ParseValue_ of the keywords.  *)
ValueForType(words, type) ==
    CASE type = "bool" ->
           {Number("bool", 1) : w \in {words} \cap {<<"1">>, <<"true">>, <<"TRUE">>}} \cup
           {Number("bool", 0) : w \in {words} \cap {<<"0">>, <<"false">>, <<"FALSE">>}}
      [] type = "int"  -> {Number("int", n) : n \in Signed(words)}
      [] type = "uint" -> {Number("uint", n) : n \in Unsigned(words)}
      [] type = "real" -> {Number("real", 0) : w \in RealWords \cap ToSet(Upto(words, 2))}
      [] OTHER         -> {Text(words)}

(* value_is_compatible.                                                    *)
Compatible(type, v) == v.alt = "none" \/ type = "unknown" \/ v.alt = type

=============================================================================
