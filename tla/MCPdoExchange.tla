---------------------------- MODULE MCPdoExchange ----------------------------
(* Receive PDO 2 takes over the identifier of 1 once its COB-ID is masked   *)
(* and maps what transmit PDO 1 does, so that decoding and encoding meet;   *)
(* 3 maps a constant entry, 4 a signed one, 5 a key the dictionary has not, *)
(* and transmit PDO 2 is longer than a frame.                               *)
EXTENDS PdoExchange, TLC

CONSTANTS s1, a, b, c, i, z

MCSenders  == {s1}
MCEntries  == {a, b, c, i}
MCTypeOf   == (a :> "uint") @@ (b :> "unknown") @@ (c :> "uint") @@ (i :> "int")
MCAccessOf == (a :> "rw") @@ (b :> "unknown") @@ (c :> "const") @@ (i :> "wo")
On(k, n)   == [key |-> k, bits |-> n]
MCSignalsOf ==
    (Receive(1) :> <<On(z, 8)>>) @@
    (Receive(2) :> <<On(a, 16), On(b, 8)>>) @@
    (Receive(3) :> <<On(c, 8), On(b, 8)>>) @@
    (Receive(4) :> <<On(a, 8), On(i, 8)>>) @@
    (Receive(5) :> <<On(a, 8), On(z, 8)>>) @@
    (Transmit(1) :> <<On(a, 8), On(b, 8)>>) @@
    (Transmit(2) :> <<On(c, 72)>>)
MCRpdos    == 1 .. 5
MCTpdos    == {1, 2}
MCCobIdOf  == <<513, 2561, 514, 515, 516>>
MCPayloads == {<<1, 0>>, <<0, 1, 1>>}
MCIds      == {128, 129, 513, 514, 515, 516, 1793}
MCTexts    == {-1}

=============================================================================
