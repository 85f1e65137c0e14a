----------------------------- MODULE MCKeywords -----------------------------
(***************************************************************************)
(* Two workers and five entries: an unsigned one of a receive PDO, a        *)
(* constant, a write-only signed and a Boolean one of a transmit PDO, and   *)
(* one of unknown type.  Words have 4 bits and longs 6, so 17 is cut to 1.  *)
(* An override has left 3 in the signed, and maybe 5 in the Boolean entry.  *)
(***************************************************************************)
EXTENDS Keywords

Numerals == -33 .. 64
IntegerTable ==
    [w \in {ToString(n) : n \in Numerals} |-> CHOOSE n \in Numerals : ToString(n) = w]
        @@ ("-1.500000" :> -1)
MCIntegerOf == IntegerTable

MCToString(n) == ToString(n)

U == <<1, 0>>
C == <<1, 1>>
I == <<2, 0>>
X == <<2, 1>>
B == <<3, 0>>

MCEntries == {U, C, I, X, B}
MCTypeOf == (U :> "uint") @@ (C :> "uint") @@ (I :> "int") @@ (X :> "unknown") @@ (B :> "bool")
MCAccessOf == (U :> "rw") @@ (C :> "const") @@ (I :> "wo") @@ (X :> "rw") @@ (B :> "rw")
MCInitial ==
    (U :> {NoValue}) @@ (C :> {Number("uint", 2)})
        @@ (I :> {Number("uint", 3)}) @@ (X :> {Number("uint", 5)})
        @@ (B :> {Number("bool", 0), Number("uint", 5)})
MCSignalsOf == (<<"receive", 1>> :> <<U, C>>) @@ (<<"transmit", 1>> :> <<I, B>>)

Whole(n)  == [kind |-> "int", n |-> n, text |-> <<ToString(n)>>]
Str(w)    == [kind |-> "string", n |-> 0, text |-> <<w>>]
Yes       == [kind |-> "bool", n |-> 1, text |-> <<"true">>]
Nested    == [kind |-> "array", n |-> 0, text |-> <<>>]
Minus15   == [kind |-> "double", n |-> -1, text |-> <<"-1.500000">>]
Huge      == [kind |-> "double", n |-> 1000, text |-> <<"1000.000000">>]
Req(keyword, args) == [keyword |-> keyword, args |-> args]

MCRequests == {
    Req("Read OD", <<Whole(17), Whole(0)>>),
    Req("Read OD", <<Str("2"), Str("0")>>),
    Req("Read OD", <<Yes, Whole(0)>>),
    Req("Write OD", <<Whole(1), Whole(0), Str("-1")>>),
    Req("Write OD", <<Whole(1), Whole(1), Whole(5)>>),
    Req("Write OD", <<Whole(2), Whole(0), Minus15>>),
    Req("Write OD", <<Whole(2), Whole(0), Str("40")>>),
    Req("Write OD", <<Whole(2), Whole(1), Whole(5)>>),
    Req("Write OD", <<Whole(3), Nested>>),
    Req("Read PDO Signal", <<Str("tx"), Whole(1), Whole(0)>>),
    Req("Read PDO Signal", <<Str("both"), Whole(1), Whole(0)>>),
    Req("Write PDO Signal", <<Str("rx"), Whole(1), Whole(0), Whole(5)>>),
    Req("Write PDO Signal", <<Str("rx"), Whole(1), Huge, Whole(5)>>),
    Req("List PDO Signals", <<Str("tpdo"), Whole(17)>>),
    Req("Send NMT Command", <<Whole(1), Whole(0)>>),
    Req("Stop CAN", <<Whole(1)>>) }

=============================================================================
