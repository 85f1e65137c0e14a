------------------------------ MODULE MCStartup ------------------------------
(* Bytes of 8 values, words of 16, two objects per range: receive           *)
(* communication at 4 and 5, mapping at 6 and 7, transmit at 8 to 11.       *)
(* A path is the printed form of what its file is made from.                *)
EXTENDS Startup

Numbers ==
    -2 .. 40 \cup {99, 200, 641, 768, 769, 775, 852, 1025, 2500, 4095, 4096}

IntegerTable ==
    [w \in {ToString(n) : n \in Numbers} |-> CHOOSE n \in Numbers : ToString(n) = w]
        @@ ("0x5" :> 5) @@ ("1.5" :> 1)
MCLiterals == DOMAIN IntegerTable \ {"1.5"}
MCDecimalOf == [w \in {ToString(n) : n \in Numbers} |-> IntegerTable[w]]
MCLowerOf ==
    ("$NODEID" :> "$nodeid") @@ ("DataType" :> "datatype") @@ ("AccessType" :> "accesstype")
        @@ ("DefaultValue" :> "defaultvalue") @@ ("RW" :> "rw") @@ ("True" :> "true")
IndexTable ==
    [w \in {"000" \o ToString(n) : n \in 0 .. 9} |-> CHOOSE n \in 0 .. 9 : w = "000" \o ToString(n)]
        @@ ("000A" :> 10) @@ ("000a" :> 10) @@ ("000C" :> 12) @@ ("000c" :> 12)
MCSubOf == [w \in {ToString(n) : n \in 0 .. 5} |-> CHOOSE n \in 0 .. 5 : w = ToString(n)]
MCRealWords == {ToString(n) : n \in Numbers} \cup {"1.5"}

Header(index)  == <<"[", index, "]">>
SubHeader(index, s) == <<"[", index, "sub", s, "]">>
Object(index, s, code, words) ==
    <<SubHeader(index, s), <<"DataType", "=", code>>, <<"DefaultValue", "=">> \o words>>

-----------------------------------------------------------------------------
(* Files for the parser: one form of a default value under one type, with   *)
(* what stands around it.                                                   *)

Forms ==
    {<<"$NODEID">>, <<"$NODEID", "+", "0x5">>, <<"5", "+", "$nodeid">>, <<"4095", "+", "$NODEID">>,
     <<"$NODEID", "+", "5", "+", "1">>, <<"$NODEID", "+", "$NODEID">>, <<"5", "+", "1">>,
     <<"2", "*", "$NODEID">>, <<"-2">>, <<"4096">>, <<"0">>, <<"1.5">>, <<>>, <<"True">>,
     <<Quote, "a", ";", "b", Quote>>, <<Quote, "1", Quote>>, <<Quote>>, <<"7", "#", "5">>}

RichText(r) ==
    << <<"DataType", "=", "1">>, <<";", "[", "0001", "]">>, Header("DeviceInfo"), <<"DataType", "=", "1">> >>
    \o Object("000c", "0", "7", <<"1">>)
    \o << Header("000C"), <<"note">>, <<"DataType", "=", "2">>, <<"DataType", "=", r.code>>,
          <<"DefaultValue", "=">> \o r.form \o <<"#", "[", "0001", "]">>, <<"AccessType", "=", "RW">> >>
    \o (IF r.again THEN Object("000C", "0", r.code, <<"3">>) ELSE <<>>)
    \o << <<>>, <<"[", "000C", "sub", "9", "]">>, <<"DefaultValue", "=", "5">>,
          <<"[", "000A", ";", "]">>, SubHeader("000A", "1"), <<"DefaultValue", "=", "5">> >>

Rich ==
    [code : {"1", "1025", "2", "7", "8", "9", "99", "x"}, form : Forms, again : {FALSE}]
        \cup [code : {"7", "9"}, form : Forms, again : {TRUE}]

-----------------------------------------------------------------------------
(* Files for the builder: one receive and one transmit mapping vary.        *)

Word(index, s, bits) == ToString(index * 64 + s * 8 + bits)
Counts == {"none", "0", "2", "3", "10", "7"}

BaseText(b) ==
    Object("0004", "1", "7", <<"$NODEID", "+", "5">>) \o Object("0008", "1", "7", <<"6">>)
    \o Object("0008", "2", "5", <<"1">>) \o Object("000C", "0", "2", <<"3">>)
    \o Object("0003", "0", "1", <<"1">>)
    \o Object("0007", "0", "5", <<b.receive>>) \o Object("0007", "1", "7", <<b.word>>)
    \o Object("0007", "2", "7", <<Word(13, 2, 4)>>)
    \o Object("000A", "0", "5", <<b.transmit>>) \o Object("000A", "2", "7", <<Word(12, 0, 7)>>)

Bases ==
    [receive : Counts, transmit : Counts, word : {Word(12, 0, 1)}]
        \cup [receive : Counts, transmit : {"2"}, word : {"none"}]
OneBase == [receive |-> "2", transmit |-> "3", word |-> Word(12, 0, 1)]

EdsTable ==
    [p \in {ToString(r) : r \in Rich} |-> RichText(CHOOSE r \in Rich : ToString(r) = p)]
    @@ [p \in {ToString(b) : b \in Bases} |-> BaseText(CHOOSE b \in Bases : ToString(b) = p)]

-----------------------------------------------------------------------------
(* Configurations and command lines.                                       *)

Item(number, says) == [number |-> number, says |-> says]
NoDefaults == <<>>

Defaults ==
    {NoDefaults,
     (<<"4", ":", "1">> :> <<"9">>) @@ (<<"0x5", ":", "1">> :> <<"4">>),
     (<<"8", ":", "1">> :> <<"9">>) @@ (<<"24", ":", "1">> :> <<"4">>),
     (<<"12", ":", "0">> :> <<"-2">>) @@ (<<"3", ":", "0">> :> <<"FALSE">>),
     <<"12", ":", "0">> :> <<"2500">>, <<"3", ":", "0">> :> <<"True">>, <<"3">> :> <<"1">>}

Rpdos ==
    {<<>>, <<Item(2, (1 :> 11) @@ (5 :> 3))>>, <<Item(2, 2 :> 5), Item(2, 1 :> 7)>>,
     <<Item(1, 2 :> 6), Item(3, 1 :> 2), Item(5, 2 :> 4)>>}

Tpdos ==
    {<<>>, <<Item(1, (1 :> 7) @@ (2 :> 2))>>,
     <<Item(1, (2 :> 5) @@ (3 :> 1)), Item(4, 1 :> 200), Item(13, 1 :> 3)>>}

Refused == {<<Item(0, <<>>)>>, <<Item(1, 2 :> 8)>>, <<Item(16, 1 :> 1)>>}

Yamls ==
    [node : {NoNumber}, defaults : Defaults, rpdo : Rpdos, tpdo : Tpdos]
    \cup [node : {4, 9}, defaults : {NoDefaults}, rpdo : Refused \cup {<<>>}, tpdo : {<<>>}]

ConfigTable ==
    [p \in {ToString(y) : y \in Yamls} |-> CHOOSE y \in Yamls : ToString(y) = p]

Lines(files, tails) == {<<"--eds", ToString(f)>> \o tail : f \in files, tail \in tails}

WithConfig(ys) == {<<"--config", ToString(y)>> : y \in ys}

MCArgLists ==
    Lines(Rich, {<<>>}) \cup Lines({r \in Rich : r.code \in {"2", "7"}}, {<<"--node-id", "3">>})
    \cup Lines(Bases, {<<>>} \cup WithConfig([node : {NoNumber}, defaults : {NoDefaults}, rpdo : {<<>>}, tpdo : Tpdos]))
    \cup Lines({OneBase}, WithConfig(Yamls))
    \cup Lines({OneBase},
               {<<"--node-id", n, "--config", ToString(y)>> :
                   n \in {"2", "-1", "10", "x"}, y \in {y \in Yamls : y.node = 4}})
    \cup Lines({OneBase},
               {<<"verbose", "--can-iface", "can0">>, <<"--config", "nowhere">>,
                <<"--log-level", "loud">>, <<"--log-level", "info", "--rf-port", "99">>,
                <<"--rf-port", "x">>, <<"--log-file", "--rf-port">>,
                <<"--log-file", "--node-id", "3">>, <<"--node-id">>, <<"x", "--node-id", "9", "--node-id", "3">>, <<"--eds", "nowhere">>})
    \cup {<<>>, <<"--eds">>, <<"--config", "nowhere">>}

(* Names of their own, so that the tables are computed once.               *)
MCIntegerOf   == IntegerTable
MCIndexOf     == IndexTable
MCEdsFiles    == EdsTable
MCConfigFiles == ConfigTable

=============================================================================
