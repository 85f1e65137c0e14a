-------------------------- MODULE EdsParser_proofs --------------------------
(***************************************************************************)
(* The parser's loops against what the file says: proofs that the          *)
(* dictionary ParseText returns has the entries, types and values of the   *)
(* text, whatever lines the file has.                                      *)
(***************************************************************************)
EXTENDS Startup_proofs, FiniteSetTheorems

-----------------------------------------------------------------------------
(* Comments.                                                                *)

QuotesBefore(line, i) == {j \in 1 .. i - 1 : line[j] = Quote}

Marks(line) ==
    {i \in DOMAIN line : line[i] \in {";", "#"} /\ Cardinality(QuotesBefore(line, i)) % 2 = 0}

LEMMA QuotesFinite ==
    ASSUME NEW line, NEW i \in Nat
    PROVE  IsFiniteSet(QuotesBefore(line, i)) /\ Cardinality(QuotesBefore(line, i)) \in Nat
<1>1. IsFiniteSet(1 .. i - 1)
  BY FS_Interval
<1>2. QuotesBefore(line, i) \in SUBSET (1 .. i - 1)
  BY DEF QuotesBefore
<1>3. IsFiniteSet(QuotesBefore(line, i))
  BY <1>1, <1>2, FS_Subset
<1> QED
  BY <1>3, FS_CardinalityType

(* The smallest of some positions is one of them.                           *)
LEMMA MinIsMember ==
    ASSUME NEW T \in SUBSET Nat, T # {}
    PROVE  Min(T) \in T /\ \A t \in T : Min(T) <= t
<1>1. PICK x \in T : \A y \in T : x <= y
  BY LeastElement
<1> QED
  BY <1>1 DEF Min

LEMMA MarksInLine ==
    ASSUME NEW line \in Seq(STRING)
    PROVE  /\ Len(line) \in Nat /\ DOMAIN line = 1 .. Len(line)
           /\ Marks(line) \in SUBSET (1 .. Len(line))
<1>1. Len(line) \in Nat /\ DOMAIN line = 1 .. Len(line)
  OBVIOUS
<1>2. Marks(line) \in SUBSET DOMAIN line
  BY Zenon DEF Marks
<1> QED
  BY <1>1, <1>2

(* A body is as much of its line as stands before the first mark.           *)
LEMMA BodyIs ==
    ASSUME NEW line \in Seq(STRING)
    PROVE  \E n \in 0 .. Len(line) :
              /\ Body(line) = SubSeq(line, 1, n)
              /\ \A i \in Marks(line) : n < i
              /\ n = Len(line) \/ n + 1 \in Marks(line)
<1> DEFINE T == {n \in 0 .. Len(line) : \A i \in Marks(line) : n < i}
           S == {n + 1 : n \in T}
<1>1. Len(line) \in Nat /\ Marks(line) \in SUBSET (1 .. Len(line))
  BY MarksInLine
<1>2. 0 \in T
  BY <1>1
<1> HIDE DEF T
<1>3. T \in SUBSET (0 .. Len(line))
  BY DEF T
<1>4. PICK n \in T : \A m \in T : m <= n
  <2>1. S \in SUBSET (1 .. Len(line) + 1) /\ S # {} /\ Len(line) + 1 \in Nat
    BY <1>1, <1>2, <1>3
  <2>2. Max(S) \in S /\ \A s \in S : s <= Max(S)
    <3> HIDE DEF S
    <3> QED
      BY <2>1, MaxIsMember
  <2>3. PICK n \in T : Max(S) = n + 1
    BY <2>2
  <2>4. ASSUME NEW m \in T PROVE m <= n
    <3>1. m + 1 \in S
      OBVIOUS
    <3>2. m + 1 <= n + 1
      BY <2>2, <2>3, <3>1
    <3>3. m \in Nat /\ n \in Nat
      <4> HIDE DEF S
      <4> QED
        BY <1>1, <1>3
    <3> QED
      BY <3>2, <3>3
  <2> QED
    BY <2>4
<1>5. Max(T) = n
  <2>1. Max(T) \in T /\ \A m \in T : Max(T) >= m
    <3>1. \A m \in T : n >= m
      BY <1>1, <1>3, <1>4
    <3> QED
      BY <3>1 DEF Max
  <2>2. Max(T) <= n /\ Max(T) >= n
    BY <1>4, <2>1
  <2>3. \A m \in T : m \in Nat
    BY <1>1, <1>3
  <2>4. Max(T) \in Nat /\ n \in Nat
    BY <2>1, <2>3
  <2> QED
    BY <2>2, <2>4
<1>6. Body(line) = SubSeq(line, 1, n)
  BY <1>5, Zenon DEF Body, T, Marks, QuotesBefore
<1>7. n = Len(line) \/ n + 1 \in Marks(line)
  <2> SUFFICES ASSUME n # Len(line), n + 1 \notin Marks(line) PROVE FALSE
    OBVIOUS
  <2>1. n + 1 \in 0 .. Len(line) /\ n \in Nat
    BY <1>1, <1>3
  <2>2. \A i \in Marks(line) : n + 1 < i
    <3> TAKE i \in Marks(line)
    <3>1. n < i /\ i \in Nat /\ i # n + 1
      BY <1>1 DEF T
    <3> QED
      BY <2>1, <3>1
  <2>3. n + 1 \in T
    BY <2>1, <2>2 DEF T
  <2> QED
    BY <1>4, <2>1, <2>3
<1> QED
  BY <1>3, <1>6, <1>7 DEF T

LEMMA BodyIsStripped ==
    ASSUME NEW line \in Seq(STRING)
    PROVE  StripComment(line) = Body(line) /\ Body(line) \in Seq(STRING)
<1> DEFINE ends == Marks(line)
<1>1. Len(line) \in Nat /\ ends \in SUBSET (1 .. Len(line))
  BY MarksInLine
<1>2. StripComment(line) = IF ends = {} THEN line ELSE Upto(line, Min(ends))
  <2>1. \A i \in DOMAIN line :
          Cardinality(QuotesBefore(line, i)) % 2 = 0 <=> ~(Cardinality(QuotesBefore(line, i)) % 2 = 1)
    <3> TAKE i \in DOMAIN line
    <3> DEFINE c == Cardinality(QuotesBefore(line, i))
    <3>1. c \in Nat
      BY QuotesFinite
    <3> HIDE DEF c
    <3>2. c % 2 = 0 <=> ~(c % 2 = 1)
      BY <3>1
    <3> QED
      BY <3>2 DEF c
  <2>2. ends = {i \in DOMAIN line : line[i] \in {";", "#"} /\ ~(Cardinality(QuotesBefore(line, i)) % 2 = 1)}
    BY <2>1, Zenon DEF Marks
  <2> QED
    BY <2>2, Zenon DEF StripComment, QuotesBefore
<1>3. PICK n \in 0 .. Len(line) :
         /\ Body(line) = SubSeq(line, 1, n)
         /\ \A i \in Marks(line) : n < i
         /\ n = Len(line) \/ n + 1 \in Marks(line)
  BY BodyIs
<1>4. CASE ends = {}
  <2>1. n = Len(line)
    BY <1>3, <1>4
  <2> QED
    BY <1>2, <1>3, <1>4, <2>1
<1>5. CASE ends # {}
  <2>1. n # Len(line)
    BY <1>1, <1>3, <1>5
  <2>2. Min(ends) \in ends /\ \A t \in ends : Min(ends) <= t
    <3> HIDE DEF ends
    <3> QED
      BY <1>1, <1>5, MinIsMember
  <2>3. Min(ends) = n + 1
    BY <1>1, <1>3, <2>1, <2>2
  <2>4. Min(ends) - 1 = n
    BY <2>3
  <2> QED
    BY <1>2, <1>3, <1>5, <2>4 DEF Upto
<1> QED
  BY <1>4, <1>5

LEMMA BodyUnmarked ==
    ASSUME NEW line \in Seq(STRING)
    PROVE  Marks(Body(line)) = {}
<1>1. PICK n \in 0 .. Len(line) :
         /\ Body(line) = SubSeq(line, 1, n)
         /\ \A i \in Marks(line) : n < i
         /\ n = Len(line) \/ n + 1 \in Marks(line)
  BY BodyIs
<1> DEFINE body == SubSeq(line, 1, n)
<1>2. Len(line) \in Nat /\ DOMAIN line = 1 .. Len(line)
  BY MarksInLine
<1>3. body \in Seq(STRING) /\ Len(body) = n /\ \A i \in 1 .. n : body[i] = line[i]
  BY <1>2
<1> SUFFICES ASSUME NEW i \in Marks(body) PROVE FALSE
  BY <1>1
<1> HIDE DEF body
<1>4. i \in 1 .. n /\ i \in DOMAIN line
  BY <1>2, <1>3, MarksInLine
<1>5. QuotesBefore(body, i) = QuotesBefore(line, i)
  <2>1. \A j \in 1 .. i - 1 : body[j] = line[j]
    BY <1>3, <1>4
  <2> QED
    BY <2>1 DEF QuotesBefore
<1>6. body[i] \in {";", "#"} /\ Cardinality(QuotesBefore(body, i)) % 2 = 0
  BY Zenon DEF Marks
<1>7. i \in Marks(line)
  <2>1. line[i] \in {";", "#"} /\ Cardinality(QuotesBefore(line, i)) % 2 = 0
    BY <1>3, <1>4, <1>5, <1>6, Zenon
  <2> QED
    BY <1>4, <2>1, Zenon DEF Marks
<1> QED
  BY <1>1, <1>4, <1>7

LEMMA UnmarkedIsBody ==
    ASSUME NEW line \in Seq(STRING), Marks(line) = {}
    PROVE  Body(line) = line
<1>1. PICK n \in 0 .. Len(line) :
         /\ Body(line) = SubSeq(line, 1, n)
         /\ \A i \in Marks(line) : n < i
         /\ n = Len(line) \/ n + 1 \in Marks(line)
  BY BodyIs
<1>2. n = Len(line)
  BY <1>1
<1>3. SubSeq(line, 1, Len(line)) = line
  OBVIOUS
<1> QED
  BY <1>1, <1>2, <1>3

(* The name of a section has no comment of its own to lose: the bracket     *)
(* before it is no quote.                                                   *)
LEMMA InnerUnmarked ==
    ASSUME NEW body \in Seq(STRING), IsHeader(body), Marks(body) = {}
    PROVE  Inner(body) \in Seq(STRING) /\ Marks(Inner(body)) = {}
<1> DEFINE inner == Inner(body)
           n     == Len(body)
<1>1. n \in Nat /\ DOMAIN body = 1 .. n
  BY MarksInLine
<1>2. n >= 2 /\ body[1] = "["
  <2>1. body # <<>> /\ body[1] = "[" /\ body[n] = "]"
    BY DEF IsHeader, Last
  <2>2. n # 0 /\ n # 1
    BY <1>1, <2>1
  <2> QED
    BY <1>1, <2>1, <2>2
<1>3. /\ inner \in Seq(STRING) /\ Len(inner) = n - 2
      /\ \A i \in 1 .. n - 2 : inner[i] = body[i + 1]
  BY <1>1, <1>2 DEF Inner
<1> HIDE DEF inner
<1> SUFFICES ASSUME NEW i \in Marks(inner) PROVE FALSE
  BY <1>3 DEF inner
<1>4. i \in 1 .. n - 2 /\ i \in Nat /\ i + 1 \in 1 .. n /\ i + 1 \in Nat
  BY <1>1, <1>3, MarksInLine
<1>5. inner[i] \in {";", "#"} /\ Cardinality(QuotesBefore(inner, i)) % 2 = 0
  BY Zenon DEF Marks
<1>6. Cardinality(QuotesBefore(body, i + 1)) = Cardinality(QuotesBefore(inner, i))
  <2> DEFINE S == QuotesBefore(inner, i)
             T == QuotesBefore(body, i + 1)
             shift == [j \in S |-> j + 1]
  <2>1. S \in SUBSET Nat /\ T \in SUBSET Nat
    BY <1>4 DEF QuotesBefore
  <2>2. \A j \in S : j + 1 \in T
    <3> TAKE j \in S
    <3>1. j \in 1 .. i - 1 /\ inner[j] = Quote
      BY DEF QuotesBefore
    <3>2. j + 1 \in 1 .. (i + 1) - 1 /\ body[j + 1] = Quote
      BY <1>1, <1>3, <1>4, <3>1
    <3> QED
      BY <3>2 DEF QuotesBefore
  <2>3. \A j \in T : j - 1 \in S /\ (j - 1) + 1 = j
    <3> TAKE j \in T
    <3>1. j \in 1 .. (i + 1) - 1 /\ body[j] = Quote
      BY DEF QuotesBefore
    <3>2. j # 1
      BY <1>2, <3>1 DEF Quote
    <3>3. j - 1 \in 1 .. i - 1 /\ j - 1 \in 1 .. n - 2 /\ (j - 1) + 1 = j
      BY <1>1, <1>4, <3>1, <3>2
    <3>4. inner[j - 1] = Quote
      BY <1>3, <3>1, <3>3
    <3> QED
      BY <3>3, <3>4 DEF QuotesBefore
  <2> HIDE DEF S, T
  <2>4. shift \in Bijection(S, T)
    BY <2>1, <2>2, <2>3 DEF Bijection, Injection, Surjection, IsInjective
  <2>5. IsFiniteSet(S)
    BY <1>4, QuotesFinite DEF S
  <2>6. ExistsBijection(S, T)
    <3> HIDE DEF shift
    <3> QED
      BY <2>4 DEF ExistsBijection
  <2> QED
    BY <2>5, <2>6, FS_Bijection DEF S, T
<1>7. body[i + 1] \in {";", "#"} /\ i + 1 \in DOMAIN body
  BY <1>1, <1>3, <1>4, <1>5
<1>8. i + 1 \in Marks(body)
  BY <1>5, <1>6, <1>7, Zenon DEF Marks
<1> QED
  BY <1>8

LEMMA NameIs ==
    ASSUME NEW line \in Seq(STRING), IsHeader(Body(line))
    PROVE  StripComment(Inner(Body(line))) = Inner(Body(line))
<1>1. Body(line) \in Seq(STRING) /\ Marks(Body(line)) = {}
  BY BodyIsStripped, BodyUnmarked
<1>2. Inner(Body(line)) \in Seq(STRING) /\ Marks(Inner(Body(line))) = {}
  BY <1>1, InnerUnmarked
<1> QED
  BY <1>2, BodyIsStripped, UnmarkedIsBody

-----------------------------------------------------------------------------
(* The lines that open a section, and the words that are options.           *)

LEMMA HeadersUnfold ==
    ASSUME NEW text, Len(text) \in Nat
    PROVE  LET upto == Headers(text)
           IN  /\ upto[0] = <<>>
               /\ \A n \in 1 .. Len(text) :
                     upto[n] = IF IsHeader(Body(text[n])) THEN Append(upto[n - 1], n) ELSE upto[n - 1]
<1> DEFINE len == Len(text)
           R(n) == IsHeader(Body(text[n]))
           S == Seq(Nat)
           Step(n, x) == IF R(n) THEN Append(x, n) ELSE x
           step == [n \in 1 .. len |-> [x \in S |-> Step(n, x)]]
           upto == Headers(text)
<1>1. step \in [1 .. len -> [S -> S]] /\ <<>> \in S
  <2> SUFFICES ASSUME NEW n \in 1 .. len, NEW x \in S PROVE Step(n, x) \in S
    OBVIOUS
  <2> HIDE DEF R
  <2> QED
    OBVIOUS
<1>2. PICK f \in [0 .. len -> S] : Recurs(f, <<>>, step, len)
  <2> HIDE DEF S, step
  <2> QED
    BY <1>1, RecursiveFunctionExists
<1>3. ASSUME NEW n \in 1 .. len PROVE f[n] = Step(n, f[n - 1])
  <2>1. f[n] = step[n][f[n - 1]]
    <3> HIDE DEF S, step
    <3> QED
      BY <1>2 DEF Recurs
  <2>2. f[n - 1] \in S
    <3> HIDE DEF S
    <3> QED
      BY <1>2
  <2> HIDE DEF S, Step
  <2>3. step[n][f[n - 1]] = Step(n, f[n - 1])
    BY <2>2
  <2> QED
    BY <2>1, <2>3
<1>4. f = [n \in 0 .. len |-> IF n = 0 THEN <<>> ELSE Step(n, f[n - 1])]
  <2> HIDE DEF S, step, Step
  <2> QED
    BY <1>2, <1>3 DEF Recurs
<1>5. upto = [n \in 0 .. len |-> IF n = 0 THEN <<>> ELSE Step(n, upto[n - 1])]
  BY <1>4, Zenon DEF Headers
<1>6. ASSUME NEW n \in 1 .. len PROVE upto[n] = Step(n, upto[n - 1])
  <2>1. n \in 0 .. len /\ n # 0
    OBVIOUS
  <2> HIDE DEF upto, Step
  <2> QED
    BY <1>5, <2>1, Zenon
<1>7. upto[0] = <<>>
  <2>1. 0 \in 0 .. len
    OBVIOUS
  <2> HIDE DEF upto, Step
  <2> QED
    BY <1>5, <2>1, Zenon
<1> QED
  BY <1>6, <1>7, Zenon

(* The headers of the first n lines, each once and in order.                *)
AreHeaders(opened, text, n) ==
    /\ opened \in Seq(Nat) /\ Len(opened) \in Nat
    /\ \A s \in 1 .. Len(opened) : opened[s] \in 1 .. n /\ IsHeader(Body(text[opened[s]]))
    /\ \A r, s \in 1 .. Len(opened) : r < s => opened[r] < opened[s]
    /\ \A h \in 1 .. n : IsHeader(Body(text[h])) => \E s \in 1 .. Len(opened) : opened[s] = h

LEMMA HeadersAre ==
    ASSUME NEW text, Len(text) \in Nat, NEW n \in 0 .. Len(text)
    PROVE  AreHeaders(Headers(text)[n], text, n)
<1> DEFINE H == {h \in 1 .. Len(text) : IsHeader(Body(text[h]))}
           Are(opened, m) ==
             /\ opened \in Seq(Nat)
             /\ \A s \in 1 .. Len(opened) : opened[s] \in 1 .. m /\ opened[s] \in H
             /\ \A r, s \in 1 .. Len(opened) : r < s => opened[r] < opened[s]
             /\ \A h \in 1 .. m : h \in H => \E s \in 1 .. Len(opened) : opened[s] = h
           upto == Headers(text)
           T == {m \in Nat : m <= Len(text) => Are(upto[m], m)}
<1>1. /\ upto[0] = <<>>
      /\ \A m \in 1 .. Len(text) : upto[m] = IF m \in H THEN Append(upto[m - 1], m) ELSE upto[m - 1]
  <2>1. \A m \in 1 .. Len(text) : m \in H <=> IsHeader(Body(text[m]))
    OBVIOUS
  <2> QED
    BY <2>1, HeadersUnfold, Zenon
<1> HIDE DEF upto, H
<1>2. 0 \in T
  <2>1. Are(<<>>, 0)
    BY EmptySeq
  <2> QED
    BY <1>1, <2>1
<1>3. ASSUME NEW m \in Nat, m \in T PROVE m + 1 \in T
  <2> SUFFICES ASSUME m + 1 <= Len(text) PROVE Are(upto[m + 1], m + 1)
    <3> HIDE DEF Are
    <3> QED
      OBVIOUS
  <2> DEFINE old == upto[m]
             new == upto[m + 1]
  <2>1. Are(old, m)
    <3>1. m <= Len(text)
      OBVIOUS
    <3> HIDE DEF Are
    <3> QED
      BY <1>3, <3>1
  <2>2. new = IF m + 1 \in H THEN Append(old, m + 1) ELSE old
    <3>1. m + 1 \in 1 .. Len(text) /\ (m + 1) - 1 = m
      OBVIOUS
    <3> QED
      BY <1>1, <3>1
  <2> HIDE DEF old, new
  <2>3. CASE m + 1 \in H
    <3>1. new = Append(old, m + 1)
      BY <2>2, <2>3
    <3>2. /\ new \in Seq(Nat) /\ Len(old) \in Nat /\ Len(new) = Len(old) + 1
          /\ new[Len(old) + 1] = m + 1
          /\ \A s \in 1 .. Len(old) : new[s] = old[s]
      BY <2>1, <3>1
    <3>3. \A s \in 1 .. Len(new) : s = Len(old) + 1 \/ s \in 1 .. Len(old)
      BY <3>2
    <3>4. \A s \in 1 .. Len(new) : new[s] \in 1 .. m + 1 /\ new[s] \in H
      <4> TAKE s \in 1 .. Len(new)
      <4>1. CASE s = Len(old) + 1
        BY <2>3, <3>2, <4>1
      <4>2. CASE s \in 1 .. Len(old)
        <5>1. new[s] = old[s] /\ old[s] \in 1 .. m /\ old[s] \in H
          BY <2>1, <3>2, <4>2
        <5> QED
          BY <5>1
      <4> QED
        BY <3>3, <4>1, <4>2
    <3>5. \A r, s \in 1 .. Len(new) : r < s => new[r] < new[s]
      <4> SUFFICES ASSUME NEW r \in 1 .. Len(new), NEW s \in 1 .. Len(new), r < s PROVE new[r] < new[s]
        OBVIOUS
      <4>1. r \in 1 .. Len(old) /\ new[r] = old[r] /\ old[r] \in 1 .. m
        <5>1. r \in 1 .. Len(old)
          BY <3>2
        <5> QED
          BY <2>1, <3>2, <5>1
      <4>2. CASE s = Len(old) + 1
        BY <3>2, <4>1, <4>2
      <4>3. CASE s \in 1 .. Len(old)
        BY <2>1, <3>2, <4>1, <4>3
      <4> QED
        BY <3>3, <4>2, <4>3
    <3>6. \A h \in 1 .. m + 1 : h \in H => \E s \in 1 .. Len(new) : new[s] = h
      <4> SUFFICES ASSUME NEW h \in 1 .. m + 1, h \in H PROVE \E s \in 1 .. Len(new) : new[s] = h
        OBVIOUS
      <4>1. CASE h = m + 1
        BY <3>2, <4>1
      <4>2. CASE h # m + 1
        <5>1. PICK s \in 1 .. Len(old) : old[s] = h
          BY <2>1, <4>2
        <5> QED
          BY <3>2, <5>1
      <4> QED
        BY <4>1, <4>2
    <3> QED
      BY <3>2, <3>4, <3>5, <3>6 DEF new
  <2>4. CASE m + 1 \notin H
    <3>1. new = old
      BY <2>2, <2>4
    <3>2. \A h \in 1 .. m + 1 : h \in H => h \in 1 .. m
      BY <2>4
    <3>3. \A s \in 1 .. Len(old) : old[s] \in 1 .. m + 1
      BY <2>1
    <3> QED
      BY <2>1, <3>1, <3>2, <3>3 DEF new
  <2> QED
    BY <2>3, <2>4
<1>4. Nat \subseteq T
  <2> HIDE DEF T
  <2> QED
    BY <1>2, <1>3, SetInduction
<1>5. Are(upto[n], n)
  <2>1. n \in Nat /\ n <= Len(text)
    OBVIOUS
  <2>2. n \in T
    BY <1>4, <2>1
  <2> HIDE DEF Are
  <2> QED
    BY <2>1, <2>2
<1>6. \A h \in 1 .. n : h \in H <=> IsHeader(Body(text[h]))
  BY DEF H
<1> QED
  BY <1>5, <1>6 DEF upto, AreHeaders

LEMMA KindsUnfold ==
    ASSUME Len(argv) \in Nat
    PROVE  /\ Kinds[0] = "word"
           /\ \A i \in 1 .. Len(argv) :
                 Kinds[i] = IF argv[i] \in OptionNames /\ Kinds[i - 1] = "word" THEN "option" ELSE "word"
<1> DEFINE len == Len(argv)
           S == {"word", "option"}
           Step(i, x) == IF argv[i] \in OptionNames /\ x = "word" THEN "option" ELSE "word"
           step == [i \in 1 .. len |-> [x \in S |-> Step(i, x)]]
<1>1. step \in [1 .. len -> [S -> S]] /\ "word" \in S
  OBVIOUS
<1>2. PICK f \in [0 .. len -> S] : Recurs(f, "word", step, len)
  <2> HIDE DEF S, step
  <2> QED
    BY <1>1, RecursiveFunctionExists
<1>3. ASSUME NEW i \in 1 .. len PROVE f[i] = Step(i, f[i - 1])
  <2>1. f[i] = step[i][f[i - 1]]
    <3> HIDE DEF S, step
    <3> QED
      BY <1>2 DEF Recurs
  <2>2. f[i - 1] \in S
    <3> HIDE DEF S
    <3> QED
      BY <1>2
  <2> HIDE DEF S, Step
  <2>3. step[i][f[i - 1]] = Step(i, f[i - 1])
    BY <2>2
  <2> QED
    BY <2>1, <2>3
<1>4. f = [i \in 0 .. len |-> IF i = 0 THEN "word" ELSE Step(i, f[i - 1])]
  <2> HIDE DEF S, step, Step
  <2> QED
    BY <1>2, <1>3 DEF Recurs
<1>5. Kinds = [i \in 0 .. len |-> IF i = 0 THEN "word" ELSE Step(i, Kinds[i - 1])]
  BY <1>4, Zenon DEF Kinds
<1>6. ASSUME NEW i \in 1 .. len PROVE Kinds[i] = Step(i, Kinds[i - 1])
  <2>1. i \in 0 .. len /\ i # 0
    OBVIOUS
  <2> HIDE DEF Step
  <2> QED
    BY <1>5, <2>1, Zenon
<1>7. Kinds[0] = "word"
  <2>1. 0 \in 0 .. len
    OBVIOUS
  <2> HIDE DEF Step
  <2> QED
    BY <1>5, <2>1, Zenon
<1> QED
  BY <1>6, <1>7

-----------------------------------------------------------------------------
(* The sections that the first lines make.                                  *)

LEMMA SequenceOfItsItems ==
    ASSUME NEW S, NEW items, items \in Seq(S)
    PROVE  items \in Seq(ToSet(items)) /\ Len(items) \in Nat /\ DOMAIN items = 1 .. Len(items)
<1>1. Len(items) \in Nat /\ DOMAIN items = 1 .. Len(items) /\ items = [i \in 1 .. Len(items) |-> items[i]]
  OBVIOUS
<1>2. \A i \in 1 .. Len(items) : items[i] \in ToSet(items)
  BY <1>1 DEF ToSet
<1>3. items \in [1 .. Len(items) -> ToSet(items)]
  BY <1>1, <1>2
<1> QED
  BY <1>1, <1>3

LEMMA PairsAreLines ==
    ASSUME NEW text, NEW h \in Nat, NEW n \in Nat
    PROVE  Pairs(text, h, n) \in SUBSET (1 .. n) /\ Pairs(text, h, n) \in SUBSET (h + 1 .. n)
<1>1. Pairs(text, h, n) \in SUBSET (h + 1 .. n)
  BY DEF Pairs
<1> QED
  BY <1>1

(* A line with no pair adds none, and a header closes the section.          *)
LEMMA PairsKept ==
    ASSUME NEW text, NEW h \in Nat, NEW n \in Nat,
           \/ ~(Equals(text[n + 1]) > 0)
           \/ \E i \in h + 1 .. n + 1 : IsHeader(Body(text[i]))
    PROVE  Pairs(text, h, n + 1) = Pairs(text, h, n)
<1>1. ASSUME NEW j \in Pairs(text, h, n) PROVE j \in Pairs(text, h, n + 1)
  BY DEF Pairs
<1>2. ASSUME NEW j \in Pairs(text, h, n + 1) PROVE j \in Pairs(text, h, n)
  <2>1. j \in h + 1 .. n + 1 /\ Equals(text[j]) > 0 /\ \A i \in h + 1 .. j : ~IsHeader(Body(text[i]))
    BY DEF Pairs
  <2>2. j # n + 1
    BY <2>1
  <2>3. j \in h + 1 .. n
    BY <2>1, <2>2
  <2> QED
    BY <2>1, <2>3 DEF Pairs
<1> QED
  BY <1>1, <1>2

LEMMA SectionKept ==
    ASSUME NEW text, NEW h \in Nat, NEW n \in Nat, NEW section,
           Pairs(text, h, n + 1) = Pairs(text, h, n), SectionIs(section, text, h, n)
    PROVE  SectionIs(section, text, h, n + 1)
<1>1. \A field : Said(text, h, n + 1, field) = Said(text, h, n, field)
  BY Zenon DEF Said
<1> QED
  BY <1>1, Zenon DEF SectionIs

(* The next pair of the section: the last line of its field so far.         *)
LEMMA PairAdded ==
    ASSUME NEW text, NEW h \in Nat, NEW n \in Nat, h <= n,
           Equals(text[n + 1]) > 0, \A i \in h + 1 .. n + 1 : ~IsHeader(Body(text[i])),
           NEW section, SectionIs(section, text, h, n), NEW new,
           DOMAIN new = {"name", "pairs"}, new.name = section.name,
           new.pairs = With(section.pairs, Field(text[n + 1]), Content(text[n + 1]))
    PROVE  SectionIs(new, text, h, n + 1)
<1> DEFINE old == Pairs(text, h, n)
           all == Pairs(text, h, n + 1)
           F(j) == Field(text[j])
           C(j) == Content(text[j])
<1>1. all = old \cup {n + 1}
  <2>1. \A j \in h + 1 .. n : j \in all <=> j \in old
    BY DEF Pairs
  <2>2. n + 1 \in all
    BY DEF Pairs
  <2>3. n + 1 \in Nat /\ all \in SUBSET (h + 1 .. n + 1) /\ old \in SUBSET (h + 1 .. n)
    BY PairsAreLines
  <2> HIDE DEF all, old
  <2> QED
    BY <2>1, <2>2, <2>3
<1>2. old \in SUBSET (1 .. n)
  BY PairsAreLines
<1> HIDE DEF all, old
<1>3. DOMAIN section.pairs = {F(j) : j \in old}
  BY DEF SectionIs, old
<1>4. DOMAIN new.pairs = DOMAIN section.pairs \cup {F(n + 1)}
  BY DEF With
<1>5. DOMAIN new.pairs = {F(j) : j \in all}
  <2> HIDE DEF F
  <2> QED
    BY <1>1, <1>3, <1>4
<1>6. ASSUME NEW field \in DOMAIN new.pairs PROVE Said(text, h, n + 1, field) = {new.pairs[field]}
  <2> DEFINE found == {j \in all : F(j) = field}
  <2>0. Said(text, h, n + 1, field) = {C(j) : j \in {j \in found : j = Max(found)}}
    BY Zenon DEF Said, all
  <2>1. CASE field = F(n + 1)
    <3>1. found \in SUBSET (1 .. n + 1) /\ n + 1 \in found /\ n + 1 \in Nat
      <4>1. all \in SUBSET (1 .. n + 1) /\ n + 1 \in all
        BY <1>1, <1>2
      <4>2. found \in SUBSET all
        OBVIOUS
      <4>3. n + 1 \in found
        BY <2>1, <4>1, Zenon
      <4> HIDE DEF found
      <4> QED
        BY <4>1, <4>2, <4>3
    <3> HIDE DEF found
    <3>2. Max(found) \in found /\ \A t \in found : t <= Max(found)
      BY <3>1, MaxIsMember
    <3>3. Max(found) = n + 1
      <4>1. Max(found) \in 1 .. n + 1 /\ n + 1 <= Max(found)
        BY <3>1, <3>2
      <4> QED
        BY <4>1
    <3>4. {j \in found : j = Max(found)} = {n + 1}
      BY <3>1, <3>3
    <3>5. Said(text, h, n + 1, field) = {C(n + 1)}
      <4> HIDE DEF C
      <4> QED
        BY <2>0, <3>4
    <3>6. new.pairs[field] = C(n + 1)
      BY <2>1 DEF With
    <3> QED
      BY <3>5, <3>6
  <2>2. CASE field # F(n + 1)
    <3>1. found = {j \in old : F(j) = field}
      <4> HIDE DEF F
      <4> QED
        BY <1>1, <2>2
    <3>2. Said(text, h, n + 1, field) = Said(text, h, n, field)
      <4> HIDE DEF found
      <4>1. Said(text, h, n, field) = {C(j) : j \in {j \in found : j = Max(found)}}
        BY <3>1, Zenon DEF Said, old
      <4> QED
        BY <2>0, <4>1
    <3>3. field \in DOMAIN section.pairs
      BY <1>4, <2>2
    <3>4. new.pairs[field] = section.pairs[field]
      <4> HIDE DEF F
      <4>1. new.pairs = With(section.pairs, F(n + 1), Content(text[n + 1]))
        BY DEF F
      <4> QED
        BY <2>2, <3>3, <4>1 DEF With
    <3> QED
      BY <3>2, <3>3, <3>4 DEF SectionIs
  <2> QED
    BY <2>1, <2>2
<1>7. new.name = Inner(Body(text[h]))
  BY DEF SectionIs
<1> QED
  BY <1>5, <1>6, <1>7 DEF SectionIs, all

(* A line opens a section, gives the last one a pair, or changes nothing.   *)
LEMMA ReadLineIs ==
    ASSUME NEW text \in Seq(Seq(STRING)), NEW n \in Nat, n + 1 <= Len(text),
           SectionsAre(text, n, 0), sections' = ReadLine(sections, text[n + 1])
    PROVE  SectionsAre(text, n + 1, 0)'
<1> DEFINE line == text[n + 1]
           body == Body(line)
           old  == Headers(text)[n]
           new  == Headers(text)[n + 1]
           last == Len(sections)
<1>1. Len(text) \in Nat /\ n \in 0 .. Len(text) /\ n + 1 \in 0 .. Len(text) /\ n + 1 \in 1 .. Len(text)
  OBVIOUS
<1>2. line \in Seq(STRING)
  BY <1>1
<1>3. StripComment(line) = body
  BY <1>2, BodyIsStripped
<1>4. new = IF IsHeader(body) THEN Append(old, n + 1) ELSE old
  <2>1. (n + 1) - 1 = n
    OBVIOUS
  <2> QED
    BY <1>1, <2>1, HeadersUnfold, Zenon
<1>5. /\ old \in Seq(Nat)
      /\ \A s \in 1 .. Len(old) : old[s] \in 1 .. n /\ IsHeader(Body(text[old[s]]))
      /\ \A r, s \in 1 .. Len(old) : r < s => old[r] < old[s]
      /\ \A h \in 1 .. n : IsHeader(Body(text[h])) => \E s \in 1 .. Len(old) : old[s] = h
  <2>1. AreHeaders(old, text, n)
    BY <1>1, HeadersAre
  <2> QED
    BY <2>1, Zenon DEF AreHeaders
<1> HIDE DEF old, new
<1>6. /\ sections \in Seq(ToSet(sections)) /\ last \in Nat /\ Len(old) = last
      /\ \A s \in 1 .. last : SectionIs(sections[s], text, old[s], n)
  <2>1. sections \in Seq(ToSet(sections)) /\ Len(old) = 0 + last
    BY Zenon DEF SectionsAre, old
  <2>2. \A s \in 1 .. last : SectionIs(sections[s], text, old[0 + s], n)
    BY Zenon DEF SectionsAre, old
  <2>3. last \in Nat /\ Len(old) = last /\ \A s \in 1 .. last : 0 + s = s
    BY <2>1
  <2> QED
    BY <2>1, <2>2, <2>3, Zenon
<1>7. SUFFICES /\ sections' \in Seq(ToSet(sections')) /\ Len(new) = Len(sections')
               /\ \A s \in 1 .. Len(sections') : SectionIs(sections'[s], text, new[s], n + 1)
  <2>1. \A s \in 1 .. Len(sections') : 0 + s = s
    OBVIOUS
  <2>2. Len(new) = 0 + Len(sections')
    BY <1>7
  <2> QED
    BY <1>7, <2>1, <2>2, Zenon DEF SectionsAre, new
<1>8. ASSUME NEW s \in 1 .. last, s # last \/ IsHeader(body) \/ ~(Equals(line) > 0)
      PROVE  SectionIs(sections[s], text, old[s], n + 1)
  <2>1. old[s] \in 1 .. n /\ old[s] \in Nat
    BY <1>5, <1>6
  <2>2. ~(Equals(line) > 0) \/ \E i \in old[s] + 1 .. n + 1 : IsHeader(Body(text[i]))
    <3>1. CASE s # last
      <4>0. last \in 1 .. last /\ s < last
        BY <1>6, <3>1
      <4>1. old[last] \in 1 .. n /\ IsHeader(Body(text[old[last]])) /\ old[s] < old[last]
        BY <1>5, <1>6, <4>0
      <4>2. old[last] \in old[s] + 1 .. n + 1
        BY <2>1, <4>1
      <4> QED
        BY <4>1, <4>2
    <3>2. CASE IsHeader(body)
      BY <2>1, <3>2
    <3> QED
      BY <1>8, <3>1, <3>2
  <2> QED
    BY <1>6, <2>1, <2>2, PairsKept, SectionKept
<1>9. CASE IsHeader(body)
  <2> DEFINE opened == [name |-> StripComment(Inner(body)), pairs |-> <<>>]
  <2>1. sections' = Append(sections, opened)
    BY <1>3, <1>9, Zenon DEF ReadLine
  <2>2. /\ Len(sections') = last + 1 /\ sections'[last + 1] = opened
        /\ \A s \in 1 .. last : sections'[s] = sections[s]
    BY <1>6, <2>1
  <2>3. sections' \in Seq(ToSet(sections'))
    <3>1. sections \in Seq(ToSet(sections) \cup {opened})
      BY <1>6
    <3>2. sections' \in Seq(ToSet(sections) \cup {opened})
      BY <2>1, <3>1
    <3> QED
      BY <3>2, SequenceOfItsItems
  <2>4. /\ Len(new) = last + 1 /\ new[last + 1] = n + 1
        /\ \A s \in 1 .. last : new[s] = old[s]
    BY <1>4, <1>5, <1>6, <1>9
  <2>5. SectionIs(opened, text, n + 1, n + 1)
    <3>1. opened.name = Inner(Body(text[n + 1])) /\ DOMAIN opened = {"name", "pairs"}
      BY <1>2, <1>9, NameIs
    <3>2. DOMAIN opened.pairs = {}
      OBVIOUS
    <3>3. Pairs(text, n + 1, n + 1) = {}
      <4>1. (n + 1) + 1 .. n + 1 = {}
        OBVIOUS
      <4> QED
        BY <4>1 DEF Pairs
    <3> HIDE DEF opened
    <3> QED
      BY <3>1, <3>2, <3>3 DEF SectionIs
  <2>6. ASSUME NEW s \in 1 .. last + 1 PROVE SectionIs(sections'[s], text, new[s], n + 1)
    <3>1. CASE s = last + 1
      BY <2>2, <2>4, <2>5, <3>1, Zenon
    <3>2. CASE s # last + 1
      <4>1. s \in 1 .. last
        BY <1>6, <3>2
      <4> QED
        BY <1>8, <1>9, <2>2, <2>4, <4>1
    <3> QED
      BY <3>1, <3>2
  <2> QED
    BY <2>2, <2>3, <2>4, <2>6
<1>10. CASE ~IsHeader(body) /\ last > 0 /\ Equals(line) > 0
  <2> DEFINE made == With(sections[last].pairs, Field(line), Content(line))
  <2>1. sections' = [sections EXCEPT ![last].pairs = made]
    BY <1>3, <1>10, Zenon DEF ReadLine, Equals, Field, Content
  <2> HIDE DEF made
  <2>2. last \in 1 .. last /\ last \in DOMAIN sections /\ DOMAIN sections = 1 .. last
    BY <1>6, <1>10
  <2>3. /\ DOMAIN sections' = 1 .. last
        /\ sections'[last] = [sections[last] EXCEPT !.pairs = made]
        /\ \A s \in 1 .. last : s # last => sections'[s] = sections[s]
        /\ sections' = [s \in 1 .. last |-> sections'[s]]
    BY <2>1, <2>2
  <2>4. sections' \in Seq(ToSet(sections')) /\ Len(sections') = last
    <3>1. sections' \in [1 .. last -> ToSet(sections')]
      BY <2>3 DEF ToSet
    <3> QED
      BY <1>6, <3>1
  <2>5. new = old
    BY <1>4, <1>10
  <2>6. SectionIs(sections'[last], text, old[last], n + 1)
    <3>1. SectionIs(sections[last], text, old[last], n)
      BY <1>6, <2>2
    <3>2. DOMAIN sections[last] = {"name", "pairs"}
      BY <3>1, Zenon DEF SectionIs
    <3>3. /\ DOMAIN sections'[last] = {"name", "pairs"} /\ sections'[last].name = sections[last].name
          /\ sections'[last].pairs = made
      BY <2>3, <3>2
    <3>4. old[last] \in 1 .. n
      BY <1>5, <1>6, <2>2
    <3>5. ASSUME NEW i \in old[last] + 1 .. n + 1 PROVE ~IsHeader(Body(text[i]))
      <4> SUFFICES ASSUME IsHeader(Body(text[i])) PROVE FALSE
        OBVIOUS
      <4>1. i # n + 1
        BY <1>10
      <4>2. i \in 1 .. n
        BY <3>4, <4>1
      <4>3. PICK s \in 1 .. last : old[s] = i
        BY <1>5, <1>6, <4>2
      <4>4. s = last \/ old[s] < old[last]
        BY <1>5, <1>6, <2>2
      <4> QED
        BY <3>4, <4>3, <4>4
    <3>6. old[last] \in Nat /\ old[last] <= n
      BY <3>4
    <3> QED
      BY <1>10, <3>1, <3>3, <3>5, <3>6, PairAdded DEF made
  <2>7. ASSUME NEW s \in 1 .. last PROVE SectionIs(sections'[s], text, new[s], n + 1)
    <3>1. CASE s = last
      BY <2>5, <2>6, <3>1
    <3>2. CASE s # last
      BY <1>8, <2>3, <2>5, <3>2
    <3> QED
      BY <3>1, <3>2
  <2> QED
    BY <1>6, <2>4, <2>5, <2>7
<1>11. CASE ~IsHeader(body) /\ ~(last > 0 /\ Equals(line) > 0)
  <2>1. sections' = sections
    BY <1>3, <1>11, Zenon DEF ReadLine, Equals
  <2>2. new = old
    BY <1>4, <1>11
  <2>3. ASSUME NEW s \in 1 .. last PROVE SectionIs(sections[s], text, old[s], n + 1)
    <3>1. last > 0
      BY <1>6
    <3> QED
      BY <1>8, <1>11, <3>1
  <2> QED
    BY <1>6, <2>1, <2>2, <2>3
<1> QED
  BY <1>9, <1>10, <1>11

-----------------------------------------------------------------------------
(* Values: evaluate_default_expression on the documented forms.             *)

LEMMA IsNodeIdIs ==
    ASSUME NEW S, NEW words, words \in Seq(S)
    PROVE  IsNodeId(words) <=>
              /\ Len(words) = 1
              /\ (IF words[1] \in DOMAIN LowerOf THEN LowerOf[words[1]] ELSE words[1]) = "$nodeid"
<1> DEFINE L(i) == IF words[i] \in DOMAIN LowerOf THEN LowerOf[words[i]] ELSE words[i]
           lower == [i \in DOMAIN words |-> L(i)]
           nodeid == <<"$nodeid">>
<1>1. Len(words) \in Nat /\ DOMAIN words = 1 .. Len(words)
  OBVIOUS
<1>2. lower = Lower(words)
  BY Zenon DEF Lower
<1>3. DOMAIN nodeid = 1 .. 1 /\ nodeid[1] = "$nodeid" /\ nodeid = [i \in 1 .. 1 |-> "$nodeid"]
  OBVIOUS
<1> HIDE DEF nodeid, L
<1>4. lower = nodeid <=> Len(words) = 1 /\ L(1) = "$nodeid"
  <2>1. ASSUME lower = nodeid PROVE Len(words) = 1 /\ L(1) = "$nodeid"
    <3>1. 1 .. Len(words) = 1 .. 1
      BY <1>1, <1>3, <2>1
    <3>2. Len(words) = 1
      BY <1>1, <3>1
    <3>3. lower[1] = L(1)
      BY <1>1, <3>2
    <3> HIDE DEF lower
    <3> QED
      BY <1>3, <2>1, <3>2, <3>3
  <2>2. ASSUME Len(words) = 1, L(1) = "$nodeid" PROVE lower = nodeid
    <3>1. DOMAIN words = 1 .. 1 /\ \A i \in 1 .. 1 : L(i) = "$nodeid"
      BY <1>1, <2>2
    <3> QED
      BY <1>3, <3>1
  <2> QED
    BY <2>1, <2>2
<1> QED
  BY <1>2, <1>4, Zenon DEF IsNodeId, L, nodeid

(* A mark is no number and no $NODEID.                                      *)
LEMMA MarksSayNothing ==
    ASSUME NEW mark \in {"+", Quote}
    PROVE  ~IsNodeId(<<mark>>) /\ Unsigned(<<mark>>) = {}
<1>1. mark \notin DOMAIN IntegerOf /\ mark \notin DOMAIN LowerOf /\ mark # "$nodeid"
  <2>1. {"+", Quote} \cap (DOMAIN IntegerOf \cup DOMAIN LowerOf) = {}
    BY SetupAssumption
  <2>2. mark \notin DOMAIN IntegerOf /\ mark \notin DOMAIN LowerOf
    BY <2>1, Zenon
  <2>3. mark # "$nodeid"
    <3>1. "+" # "$nodeid" /\ Quote # "$nodeid"
      BY DEF Quote
    <3> QED
      BY <3>1
  <2> QED
    BY <2>2, <2>3
<1>2. <<mark>> \in Seq({mark}) /\ Len(<<mark>>) = 1 /\ <<mark>>[1] = mark /\ Head(<<mark>>) = mark
  BY <1>1
<1>3. ~IsNodeId(<<mark>>)
  BY <1>1, <1>2, IsNodeIdIs
<1>4. IntegerAt(<<mark>>) = {}
  BY <1>1, <1>2, Zenon DEF IntegerAt
<1> QED
  BY <1>3, <1>4 DEF Unsigned

LEMMA OneWord ==
    ASSUME NEW S, NEW words, words \in Seq(S), NEW i \in 1 .. Len(words)
    PROVE  SubSeq(words, i, i) = <<words[i]>>
<1>1. Len(words) \in Nat /\ i \in Nat /\ words[i] \in S
  OBVIOUS
<1>2. SubSeq(words, i, i) \in Seq(S) /\ Len(SubSeq(words, i, i)) = 1 /\ SubSeq(words, i, i)[1] = words[i]
  BY <1>1
<1> DEFINE one == SubSeq(words, i, i)
<1>3. one = [j \in 1 .. 1 |-> one[j]]
  BY <1>2
<1>4. <<words[i]>> = [j \in 1 .. 1 |-> words[i]]
  OBVIOUS
<1> QED
  BY <1>2, <1>3, <1>4

LEMMA PlusAt ==
    ASSUME NEW words \in Seq(STRING)
    PROVE  /\ (\A i \in 1 .. Len(words) : words[i] # "+") => Find(words, "+") = 0
           /\ Len(words) = 3 /\ words[1] # "+" /\ words[2] = "+" => Find(words, "+") = 2
<1> DEFINE I == {i \in 1 .. Len(words) : words[i] = "+"}
<1>1. Find(words, "+") = IF I # {} THEN Min(I) ELSE 0
  BY Zenon DEF Find, SelectInSeq
<1>2. ASSUME Len(words) = 3, words[1] # "+", words[2] = "+" PROVE Min(I) = 2 /\ I # {}
  <2>1. I \in SUBSET Nat /\ 2 \in I
    BY <1>2
  <2>2. ASSUME NEW i \in I PROVE i >= 2
    <3>1. i \in 1 .. 3 /\ words[i] = "+"
      BY <1>2
    <3>2. i # 1
      BY <1>2, <3>1
    <3> QED
      BY <3>1, <3>2
  <2> HIDE DEF I
  <2>3. Min(I) \in I /\ \A i \in I : Min(I) <= i
    BY <2>1, MinIsMember
  <2>4. Min(I) \in Nat /\ Min(I) <= 2 /\ Min(I) >= 2
    BY <2>1, <2>2, <2>3
  <2> QED
    BY <2>1, <2>4
<1>3. (\A i \in 1 .. Len(words) : words[i] # "+") => I = {}
  OBVIOUS
<1> HIDE DEF I
<1> QED
  BY <1>1, <1>2, <1>3

LEMMA TermOf ==
    ASSUME NEW word, NEW node, NEW x \in Term(word, node)
    PROVE  Term(word, node) = IF IsNodeId(<<word>>) THEN {node} ELSE Unsigned(<<word>>)
BY Zenon DEF Term

(* The parser reads $NODEID, a literal, and the sum of one of each, as meant. *)
LEMMA MeantIsEvaluated ==
    ASSUME NEW words \in Seq(STRING), NEW node \in Subs, NEW n \in Meant(words, node)
    PROVE  Evaluate(words, node) = {n} /\ n \in 0 .. LongSize - 1
<1> DEFINE left  == Upto(words, Find(words, "+"))
           right == Beyond(words, Find(words, "+"))
<1>0. Evaluate(words, node) \subseteq 0 .. LongSize - 1
  BY EvaluateType
<1>1. SUFFICES Evaluate(words, node) = {n}
  BY <1>0, <1>1
<1>2. CASE Len(words) = 1
  <2>1. n \in Term(words[1], node)
    <3>1. Len(words) # 3
      BY <1>2
    <3>2. Meant(words, node) = Term(words[1], node)
      BY <1>2, <3>1, Zenon DEF Meant
    <3> QED
      BY <3>2, Zenon
  <2>2. words = <<words[1]>> /\ words[1] \in STRING
    <3>1. SubSeq(words, 1, Len(words)) = words
      OBVIOUS
    <3>2. 1 \in 1 .. Len(words) /\ words[1] \in STRING
      BY <1>2
    <3>3. SubSeq(words, 1, 1) = <<words[1]>>
      BY <3>2, OneWord
    <3> QED
      BY <1>2, <3>1, <3>2, <3>3
  <2>3. words[1] # "+"
    BY <2>1, TermOf, MarksSayNothing
  <2>4. Find(words, "+") = 0
    <3>1. \A i \in 1 .. Len(words) : words[i] # "+"
      BY <1>2, <2>3
    <3> QED
      BY <3>1, PlusAt
  <2>5. ~Quoted(words)
    BY <1>2 DEF Quoted
  <2>6. CASE IsNodeId(words)
    <3>1. n = node
      <4>1. Term(words[1], node) = {node}
        BY <2>1, <2>2, <2>6, TermOf, Zenon
      <4> QED
        BY <2>1, <4>1, Zenon
    <3>2. Evaluate(words, node) = {node}
      BY <2>4, <2>5, <2>6, Zenon DEF Evaluate
    <3> QED
      BY <3>1, <3>2
  <2>7. CASE ~IsNodeId(words)
    <3>1. n \in Unsigned(words)
      <4>1. Term(words[1], node) = Unsigned(words)
        BY <2>1, <2>2, <2>7, TermOf, Zenon
      <4> QED
        BY <2>1, <4>1, Zenon
    <3>2. Evaluate(words, node) = Unsigned(words)
      BY <2>4, <2>5, <2>7, Zenon DEF Evaluate
    <3> QED
      BY <3>1, <3>2, UnsignedType
  <2> QED
    BY <2>6, <2>7
<1>3. CASE IsSum(words) /\ Len(words) # 1
  <2>1. PICK a \in Term(words[1], node), b \in Term(words[3], node) : n = (a + b) % LongSize
    <3>1. Meant(words, node) = Sums(Term(words[1], node), Term(words[3], node))
      BY <1>3, Zenon DEF Meant
    <3> QED
      BY <3>1 DEF Sums
  <2>2. words[1] # "+"
    BY <2>1, TermOf, MarksSayNothing
  <2>3. Find(words, "+") = 2
    BY <1>3, <2>2, PlusAt DEF IsSum
  <2>4. left = <<words[1]>> /\ right = <<words[3]>>
    <3>1. Len(words) = 3 /\ 1 \in 1 .. Len(words) /\ 3 \in 1 .. Len(words)
      BY <1>3 DEF IsSum
    <3>2. SubSeq(words, 1, 1) = <<words[1]>> /\ SubSeq(words, 3, 3) = <<words[3]>>
      BY <3>1, OneWord
    <3>3. left = SubSeq(words, 1, 1) /\ right = SubSeq(words, 3, 3)
      BY <2>3, <3>1 DEF Upto, Beyond
    <3> QED
      BY <3>2, <3>3
  <2>5. ~Quoted(words)
    <3> SUFFICES ASSUME Quoted(words) PROVE FALSE
      OBVIOUS
    <3>1. words[1] = Quote /\ words[3] = Quote
      BY <1>3 DEF IsSum, Quoted, Last
    <3> QED
      BY <1>3, <3>1, MarksSayNothing DEF IsSum
  <2>6. ~IsNodeId(words)
    BY <1>3, IsNodeIdIs DEF IsSum
  <2>7. a \in Int /\ b \in Int
    <3>1. \A w : Term(w, node) \in SUBSET Int
      BY UnsignedType DEF Term, Subs
    <3> QED
      BY <3>1
  <2>10. Find(words, "+") # 0
    BY <2>3
  <2>8. CASE IsNodeId(left) /\ ~IsNodeId(right)
    <3>1. Evaluate(words, node) = {(node + m) % LongSize : m \in Unsigned(right)}
      BY <2>5, <2>6, <2>8, <2>10, Zenon DEF Evaluate
    <3>2. Term(words[1], node) = {node} /\ Term(words[3], node) = Unsigned(right)
      BY <2>1, <2>4, <2>8, TermOf, Zenon
    <3>3. a = node /\ b \in Unsigned(right) /\ \A m \in Unsigned(right) : m = b
      BY <3>2, UnsignedType
    <3>4. Unsigned(right) = {b}
      BY <3>3
    <3> QED
      BY <2>1, <3>1, <3>3, <3>4
  <2>9. CASE ~IsNodeId(left) /\ IsNodeId(right)
    <3>1. Evaluate(words, node) = {(node + m) % LongSize : m \in Unsigned(left)}
      BY <2>5, <2>6, <2>9, <2>10, Zenon DEF Evaluate
    <3>2. Term(words[1], node) = Unsigned(left) /\ Term(words[3], node) = {node}
      BY <2>1, <2>4, <2>9, TermOf, Zenon
    <3>3. b = node /\ a \in Unsigned(left) /\ \A m \in Unsigned(left) : m = a
      BY <3>2, UnsignedType
    <3>4. Unsigned(left) = {a}
      BY <3>3
    <3>5. a + b = node + a
      BY <2>7, <3>3
    <3> QED
      BY <2>1, <3>1, <3>4, <3>5
  <2> QED
    BY <1>3, <2>4, <2>8, <2>9 DEF IsSum
<1>4. Len(words) = 1 \/ (IsSum(words) /\ Len(words) # 1)
  <2> SUFFICES ASSUME Len(words) # 1, ~IsSum(words) PROVE FALSE
    OBVIOUS
  <2>1. Meant(words, node) = {}
    BY Zenon DEF Meant
  <2> QED
    BY <2>1
<1> QED
  BY <1>2, <1>3, <1>4

-----------------------------------------------------------------------------
(* Entries: what a section's pairs say, and what EntryOf makes of it.        *)

LEMMA SaidIsGiven ==
    ASSUME NEW text, NEW h, NEW n, NEW section, SectionIs(section, text, h, n), NEW field
    PROVE  Said(text, h, n, <<field>>) = Given(section.pairs, field)
<1> DEFINE key == <<field>>
           all == Pairs(text, h, n)
<1>1. CASE key \in DOMAIN section.pairs
  BY <1>1, Zenon DEF SectionIs, Given
<1>2. CASE key \notin DOMAIN section.pairs
  <2>1. {j \in all : Field(text[j]) = key} = {}
    <3>1. \A j \in all : Field(text[j]) \in DOMAIN section.pairs
      BY DEF SectionIs
    <3> HIDE DEF all, key
    <3> QED
      BY <1>2, <3>1
  <2>2. Said(text, h, n, key) = {}
    <3> DEFINE found == {j \in all : Field(text[j]) = key}
    <3>1. Said(text, h, n, key) = {Content(text[j]) : j \in {j \in found : j = Max(found)}}
      BY Zenon DEF Said
    <3>2. found = {}
      BY <2>1
    <3> HIDE DEF found
    <3> QED
      BY <3>1, <3>2
  <2>3. Given(section.pairs, field) = {}
    BY <1>2, Zenon DEF Given
  <2> QED
    BY <2>2, <2>3
<1> QED
  BY <1>1, <1>2

LEMMA FindType ==
    ASSUME NEW S, NEW words, words \in Seq(S), NEW mark
    PROVE  Find(words, mark) \in Nat
<1> DEFINE I == {i \in 1 .. Len(words) : words[i] = mark}
<1>1. Find(words, mark) = IF I # {} THEN Min(I) ELSE 0
  BY Zenon DEF Find, SelectInSeq
<1>2. I \in SUBSET Nat
  OBVIOUS
<1> HIDE DEF I
<1>3. I # {} => Min(I) \in Nat
  BY <1>2, MinIsMember
<1> QED
  BY <1>1, <1>3

LEMMA SaidType ==
    ASSUME NEW text \in Seq(Seq(STRING)), NEW h \in Nat, NEW field,
           NEW words \in Said(text, h, Len(text), field)
    PROVE  words \in Seq(STRING)
<1> DEFINE found == {j \in Pairs(text, h, Len(text)) : Field(text[j]) = field}
<1>1. Len(text) \in Nat
  OBVIOUS
<1>2. PICK j \in Pairs(text, h, Len(text)) : words = Content(text[j])
  <2>1. Said(text, h, Len(text), field) = {Content(text[j]) : j \in {j \in found : j = Max(found)}}
    BY Zenon DEF Said
  <2> QED
    BY <2>1
<1>3. j \in 1 .. Len(text)
  BY <1>1, PairsAreLines
<1>4. Body(text[j]) \in Seq(STRING)
  BY <1>3, BodyIsStripped
<1>5. Equals(text[j]) \in Nat
  BY <1>4, FindType DEF Equals
<1>6. words = SubSeq(Body(text[j]), Equals(text[j]) + 1, Len(Body(text[j])))
  BY <1>2 DEF Content, Beyond
<1> HIDE DEF found
<1> QED
  BY <1>4, <1>5, <1>6

LEMMA GivenIsOne ==
    ASSUME NEW pairs, NEW field, NEW words \in Given(pairs, field)
    PROVE  Given(pairs, field) = {words}
BY DEF Given

LEMMA SoleOfOne ==
    ASSUME NEW v, NEW default
    PROVE  Sole({v}, default) = v
BY DEF Sole

LEMMA SoleOfNone ==
    ASSUME NEW default
    PROVE  Sole({}, default) = default
BY DEF Sole

(* Reading a number as signed changes it by no more than a turn.            *)
LEMMA AsSignedSame ==
    ASSUME NEW n \in 0 .. LongSize - 1
    PROVE  (AsSigned(n) - n) % LongSize = 0 /\ (n - n) % LongSize = 0
<1>1. LongSize \in Nat \ {0} /\ n \in Int
  BY Widths
<1>2. AsSigned(n) = n \/ AsSigned(n) = n - LongSize
  BY DEF AsSigned
<1>3. AsSigned(n) - n = 0 \/ AsSigned(n) - n = -LongSize
  BY <1>1, <1>2
<1>4. 0 % LongSize = 0 /\ (-LongSize) % LongSize = 0
  BY <1>1
<1> QED
  BY <1>1, <1>3, <1>4

LEMMA EntryOfMatches ==
    ASSUME NEW text \in Seq(Seq(STRING)), NEW h \in Nat, NEW section, NEW node \in Subs,
           SectionIs(section, text, h, Len(text))
    PROVE  EntryMatches(EntryOf(section.pairs, node), text, h, node)
<1> DEFINE pairs  == section.pairs
           entry  == EntryOf(pairs, node)
           types  == Given(pairs, "datatype")
           values == Given(pairs, "defaultvalue")
           codes  == UNION {Unsigned(words) : words \in types}
           type   == Sole({TypeOfCode(c % DwordSize) : c \in codes}, "unknown")
           found  == UNION {DefaultValue(words, type, node) : words \in values}
<1>1. /\ types = Said(text, h, Len(text), <<"datatype">>)
      /\ values = Said(text, h, Len(text), <<"defaultvalue">>)
  BY SaidIsGiven
<1>2. entry.type = type /\ entry.value = Sole(found, NoValue)
  <2> DEFINE access == Sole({AccessOfText(words) : words \in Given(pairs, "accesstype")}, "unknown")
  <2>1. entry = [type |-> type, access |-> access, value |-> Sole(found, NoValue)]
    BY Zenon DEF EntryOf
  <2> HIDE DEF entry, type, access, found
  <2> QED
    BY <2>1
<1>3. ASSUME NEW words \in types, NEW code \in Unsigned(words), code < DwordSize
      PROVE  type = TypeOfCode(code)
  <2>1. types = {words}
    BY GivenIsOne
  <2>2. Unsigned(words) = {code}
    BY UnsignedType
  <2>3. codes = {code}
    BY <2>1, <2>2
  <2>4. code % DwordSize = code
    <3>1. code \in 0 .. DwordSize - 1
      BY <1>3, UnsignedType, Widths
    <3> QED
      BY <3>1, Widths
  <2>5. {TypeOfCode(c % DwordSize) : c \in codes} = {TypeOfCode(code)}
    <3> HIDE DEF codes
    <3> QED
      BY <2>3, <2>4
  <2> QED
    BY <2>5, SoleOfOne
<1>4. ASSUME \A words \in types : Unsigned(words) = {} PROVE type = "unknown"
  <2>1. codes = {}
    BY <1>4
  <2>2. {TypeOfCode(c % DwordSize) : c \in codes} = {}
    <3> HIDE DEF codes
    <3> QED
      BY <2>1
  <2> QED
    BY <2>2, SoleOfNone
<1>5. ASSUME NEW words \in values PROVE found = DefaultValue(words, type, node)
  <2>1. values = {words}
    BY GivenIsOne
  <2> HIDE DEF values, type
  <2> QED
    BY <2>1
<1>6. ASSUME NEW words \in values, type \in {"bool", "int", "uint"}, NEW n \in Meant(words, node)
      PROVE  /\ entry.value.alt = type
             /\ IF type = "bool" THEN entry.value.n = 1 <=> n # 0
                ELSE (entry.value.n - n) % LongSize = 0
  <2>1. words \in Seq(STRING)
    BY <1>1, SaidType
  <2>2. Evaluate(words, node) = {n} /\ n \in 0 .. LongSize - 1
    BY <2>1, MeantIsEvaluated
  <2>3. found = DefaultValue(words, type, node)
    BY <1>5
  <2> HIDE DEF entry, found, type
  <2>4. CASE type = "bool"
    <3>1. found = {Number("bool", IF n = 0 THEN 0 ELSE 1)}
      BY <2>2, <2>3, <2>4 DEF DefaultValue
    <3>2. entry.value = Number("bool", IF n = 0 THEN 0 ELSE 1)
      BY <1>2, <3>1, SoleOfOne
    <3> QED
      BY <2>4, <3>2, NumberType
  <2>5. CASE type = "int"
    <3>1. found = {Number("int", AsSigned(n))}
      BY <2>2, <2>3, <2>5 DEF DefaultValue
    <3>2. entry.value = Number("int", AsSigned(n))
      BY <1>2, <3>1, SoleOfOne
    <3> QED
      BY <2>2, <2>5, <3>2, NumberType, AsSignedSame
  <2>6. CASE type = "uint"
    <3>1. found = {Number("uint", n)}
      BY <2>2, <2>3, <2>6 DEF DefaultValue
    <3>2. entry.value = Number("uint", n)
      BY <1>2, <3>1, SoleOfOne
    <3> QED
      BY <2>2, <2>6, <3>2, NumberType, AsSignedSame
  <2> QED
    BY <1>6, <2>4, <2>5, <2>6
<1>7. ASSUME NEW words \in values, type = "text"
      PROVE  entry.value = Text(IF Quoted(words) THEN Inner(words) ELSE words)
  <2>1. found = DefaultValue(words, type, node)
    BY <1>5
  <2> HIDE DEF entry, found, type
  <2>2. found = {Text(IF Quoted(words) THEN Inner(words) ELSE words)}
    BY <1>7, <2>1 DEF DefaultValue
  <2> QED
    BY <1>2, <2>2, SoleOfOne
<1>8. ASSUME values = {} PROVE entry.value = NoValue
  <2>1. found = {}
    <3> HIDE DEF values, type
    <3> QED
      BY <1>8
  <2> HIDE DEF entry, found
  <2> QED
    BY <1>2, <2>1, SoleOfNone
<1> HIDE DEF entry, types, values, type
<1> QED
  BY <1>1, <1>2, <1>3, <1>4, <1>6, <1>7, <1>8, Zenon DEF EntryMatches, entry

-----------------------------------------------------------------------------
(* The dictionary that the first sections make.                             *)

LEMMA CommandLineStays ==
    ASSUME argv' = argv
    PROVE  Kinds' = Kinds /\ \A n : NodeIdsUpto(n)' = NodeIdsUpto(n)
<1>1. Kinds' = Kinds
  BY Zenon DEF Kinds
<1> QED
  BY <1>1, Zenon DEF NodeIdsUpto

LEMMA EffectiveNodeStays ==
    ASSUME UNCHANGED lineVars
    PROVE  EffectiveNode' = EffectiveNode
<1>1. argv' = argv /\ options' = options
  BY DEF lineVars
<1>2. Kinds' = Kinds
  BY <1>1, CommandLineStays
<1> QED
  BY <1>1, <1>2, Zenon DEF EffectiveNode, NodeFrom, NodeIdsUpto

(* The header of the next section is the last so far: its entry replaces an *)
(* earlier one of its object and is the one the object is to have.          *)
LEMMA EntryRead ==
    ASSUME NEW text, NEW limit \in Nat, NEW opening \in SUBSET (1 .. limit),
           NEW h \in 1 .. limit, \A i \in opening : i < h,
           DictionaryFrom(text, opening), UNCHANGED lineVars, NEW entry,
           EntryMatches(entry, text, h, EffectiveNode),
           \/ Opened(text[h]) = {} /\ dictionary' = dictionary
           \/ \E k : Opened(text[h]) = {k} /\ dictionary' = With(dictionary, k, entry)
    PROVE  DictionaryFrom(text, opening \cup {h})'
<1> DEFINE all == opening \cup {h}
           O(i) == Opened(text[i])
           By(k, some) == {i \in some : k \in O(i)}
           node == EffectiveNode
<1>1. EffectiveNode' = node
  BY EffectiveNodeStays
<1>2. /\ DOMAIN dictionary = UNION {O(i) : i \in opening}
      /\ \A k \in DOMAIN dictionary : EntryMatches(dictionary[k], text, Max(By(k, opening)), node)
  BY Zenon DEF DictionaryFrom
<1>3. SUFFICES /\ DOMAIN dictionary' = UNION {O(i) : i \in all}
               /\ \A k \in DOMAIN dictionary' : EntryMatches(dictionary'[k], text, Max(By(k, all)), node)
  BY <1>1, <1>3, Zenon DEF DictionaryFrom
<1> HIDE DEF node
<1>4. ASSUME NEW k, k \notin O(h) PROVE By(k, all) = By(k, opening)
  <2> HIDE DEF O
  <2> QED
    BY <1>4
<1>5. UNION {O(i) : i \in all} = (UNION {O(i) : i \in opening}) \cup O(h)
  <2> HIDE DEF O
  <2> QED
    OBVIOUS
<1>6. CASE O(h) = {} /\ dictionary' = dictionary
  <2> HIDE DEF By
  <2>1. \A k : By(k, all) = By(k, opening)
    BY <1>4, <1>6
  <2> HIDE DEF O, all
  <2> QED
    BY <1>2, <1>5, <1>6, <2>1
<1>7. ASSUME NEW key, O(h) = {key}, dictionary' = With(dictionary, key, entry)
      PROVE  /\ DOMAIN dictionary' = UNION {O(i) : i \in all}
             /\ \A k \in DOMAIN dictionary' : EntryMatches(dictionary'[k], text, Max(By(k, all)), node)
  <2>1. /\ DOMAIN dictionary' = DOMAIN dictionary \cup {key} /\ dictionary'[key] = entry
        /\ \A k \in DOMAIN dictionary : k # key => dictionary'[k] = dictionary[k]
    BY <1>7 DEF With
  <2>2. DOMAIN dictionary' = UNION {O(i) : i \in all}
    <3> HIDE DEF O, all
    <3> QED
      BY <1>2, <1>5, <1>7, <2>1
  <2>3. Max(By(key, all)) = h
    <3> DEFINE T == By(key, all)
    <3>1. T \in SUBSET (1 .. limit) /\ h \in T /\ \A i \in T : i <= h
      <4>1. all \in SUBSET (1 .. limit) /\ \A i \in all : i <= h
        OBVIOUS
      <4>2. h \in T
        BY <1>7
      <4> HIDE DEF O, all
      <4> QED
        BY <4>1, <4>2
    <3> HIDE DEF T
    <3>2. Max(T) \in T /\ \A t \in T : t <= Max(T)
      BY <3>1, MaxIsMember
    <3>3. Max(T) \in Nat /\ h <= Max(T) /\ Max(T) <= h
      <4>1. Max(T) \in 1 .. limit
        BY <3>1, <3>2
      <4> QED
        BY <3>1, <3>2, <4>1
    <3>4. Max(T) = h
      BY <3>3
    <3> QED
      BY <3>4 DEF T
  <2>4. ASSUME NEW k \in DOMAIN dictionary' PROVE EntryMatches(dictionary'[k], text, Max(By(k, all)), node)
    <3> HIDE DEF By, all
    <3>1. CASE k = key
      BY <2>1, <2>3, <3>1 DEF node
    <3>2. CASE k # key
      <4>1. By(k, all) = By(k, opening)
        BY <1>4, <1>7, <3>2
      <4>2. k \in DOMAIN dictionary /\ dictionary'[k] = dictionary[k]
        BY <2>1, <3>2
      <4> QED
        BY <1>2, <4>1, <4>2, Zenon
    <3> QED
      BY <3>1, <3>2
  <2> QED
    BY <2>2, <2>4
<1> QED
  BY <1>6, <1>7

LEMMA ReadSectionIs ==
    ASSUME NEW text \in Seq(Seq(STRING)), NEW d \in Nat, TypeOK, SectionsAre(text, Len(text), d),
           DictionaryFrom(text, {Headers(text)[Len(text)][s] : s \in 1 .. d}),
           sections # <<>>, options.node = EffectiveNode, UNCHANGED lineVars,
           dictionary' = ReadSection(dictionary, Head(sections), options.node),
           sections' = Tail(sections)
    PROVE  /\ SectionsAre(text, Len(text), d + 1)'
           /\ DictionaryFrom(text, {Headers(text)[Len(text)][s] : s \in 1 .. d + 1})'
<1> DEFINE opened  == Headers(text)[Len(text)]
           opening == {opened[s] : s \in 1 .. d}
           h       == opened[d + 1]
           section == Head(sections)
           node    == options.node
           entry   == EntryOf(section.pairs, node)
<1>1. Len(text) \in Nat /\ AreHeaders(opened, text, Len(text))
  BY HeadersAre
<1>2. DictionaryFrom(text, opening)
  OBVIOUS
<1>3. /\ sections \in Seq(ToSet(sections)) /\ Len(opened) = d + Len(sections)
      /\ \A s \in 1 .. Len(sections) : SectionIs(sections[s], text, opened[d + s], Len(text))
  BY Zenon DEF SectionsAre
<1> HIDE DEF opened
<1>4. /\ opened \in Seq(Nat)
      /\ \A s \in 1 .. Len(opened) : opened[s] \in 1 .. Len(text) /\ IsHeader(Body(text[opened[s]]))
      /\ \A r, s \in 1 .. Len(opened) : r < s => opened[r] < opened[s]
  BY <1>1, Zenon DEF AreHeaders
<1>5. Len(sections) \in Nat \ {0} /\ 1 \in 1 .. Len(sections) /\ section = sections[1]
  BY <1>3
<1>6. d + 1 \in 1 .. Len(opened) /\ h \in 1 .. Len(text) /\ IsHeader(Body(text[h]))
  BY <1>3, <1>4, <1>5
<1>7. SectionIs(section, text, h, Len(text))
  BY <1>3, <1>5
<1>8. SectionsAre(text, Len(text), d + 1)'
  <2> DEFINE rest == Tail(sections)
  <2>1. /\ rest \in Seq(ToSet(sections)) /\ Len(rest) = Len(sections) - 1
        /\ \A s \in 1 .. Len(rest) : rest[s] = sections[s + 1]
    BY <1>3, <1>5
  <2>2. rest \in Seq(ToSet(rest))
    <3> HIDE DEF rest
    <3> QED
      BY <2>1, SequenceOfItsItems
  <2> HIDE DEF rest
  <2>3. Len(opened) = (d + 1) + Len(rest)
    BY <1>3, <1>5, <2>1
  <2>4. \A s \in 1 .. Len(rest) : SectionIs(rest[s], text, opened[(d + 1) + s], Len(text))
    <3> TAKE s \in 1 .. Len(rest)
    <3>1. s + 1 \in 1 .. Len(sections) /\ d + (s + 1) = (d + 1) + s /\ rest[s] = sections[s + 1]
      BY <1>5, <2>1
    <3> QED
      BY <1>3, <3>1, Zenon
  <2>5. sections' = rest
    BY DEF rest
  <2> QED
    BY <2>2, <2>3, <2>4, <2>5, Zenon DEF SectionsAre, opened
<1>9. opening \in SUBSET (1 .. Len(text)) /\ \A i \in opening : i < h
  <2> SUFFICES ASSUME NEW s \in 1 .. d PROVE opened[s] \in 1 .. Len(text) /\ opened[s] < h
    OBVIOUS
  <2>1. s \in 1 .. Len(opened) /\ s < d + 1
    BY <1>3, <1>5
  <2> QED
    BY <1>4, <1>6, <2>1
<1>10. node \in Subs
  BY DEF TypeOK
<1>11. EntryMatches(entry, text, h, EffectiveNode)
  <2>1. EntryMatches(entry, text, h, node)
    <3>1. h \in Nat
      BY <1>6
    <3> HIDE DEF section, node, h
    <3> QED
      BY <1>7, <1>10, <3>1, EntryOfMatches
  <2> QED
    BY <2>1
<1>12. section.name = Inner(Body(text[h]))
  BY <1>7, Zenon DEF SectionIs
<1>13. \/ Opened(text[h]) = {} /\ dictionary' = dictionary
       \/ \E k : Opened(text[h]) = {k} /\ dictionary' = With(dictionary, k, entry)
  <2>1. CASE IsObject(section.name)
    <3>1. Opened(text[h]) = {KeyOf(section.name)}
      BY <1>6, <1>12, <2>1, Zenon DEF Opened
    <3>2. dictionary' = With(dictionary, KeyOf(section.name), entry)
      BY <2>1, Zenon DEF ReadSection
    <3> QED
      BY <3>1, <3>2
  <2>2. CASE ~IsObject(section.name)
    <3>1. Opened(text[h]) = {}
      BY <1>12, <2>2, Zenon DEF Opened
    <3>2. dictionary' = dictionary
      BY <2>2, Zenon DEF ReadSection
    <3> QED
      BY <3>1, <3>2
  <2> QED
    BY <2>1, <2>2
<1>14. DictionaryFrom(text, opening \cup {h})'
  <2> HIDE DEF opening, h, entry
  <2>1. PICK limit \in Nat : limit = Len(text)
    BY <1>1
  <2> QED
    BY <1>2, <1>6, <1>9, <1>11, <1>13, <2>1, EntryRead
<1>15. opening \cup {h} = {opened[s] : s \in 1 .. d + 1}
  <2>1. \A s : s \in 1 .. d + 1 <=> s \in 1 .. d \/ s = d + 1
    OBVIOUS
  <2> QED
    BY <2>1
<1> HIDE DEF opening, h
<1>16. DictionaryFrom(text, {opened[s] : s \in 1 .. d + 1})'
  BY <1>14, <1>15
<1> QED
  BY <1>8, <1>16 DEF opened

-----------------------------------------------------------------------------
(* The command line.                                                        *)

LEMMA ArgvStays == Spec => [](argv \in ArgLists)
<1>1. Init => argv \in ArgLists
  BY Zenon DEF Init
<1>2. argv \in ArgLists /\ [Next]_vars => (argv \in ArgLists)'
  <2> SUFFICES ASSUME argv \in ArgLists, [Next]_vars PROVE argv' = argv
    OBVIOUS
  <2> QED
    BY DEF Next, vars, lineVars, PathOption, NodeIdOption, OtherOption, IgnoredWord, ArgsDone,
         LoadConfig, OpenEds, ParseLine, ParseSection, Parsed, ApplyDefault, DefaultsDone,
         ApplyRpdoOverrides, ApplyTpdoOverrides, SkipPdo, BeginPdo, MapSignal, EndPdo,
         RangeDone, HasOption
<1> QED
  BY <1>1, <1>2, PTL DEF Spec

LEMMA WordsOfArgv ==
    ASSUME argv \in ArgLists
    PROVE  argv \in Seq(STRING) /\ Len(argv) \in Nat
BY SetupAssumption

(* An option the loop comes to takes two words, and is one of the node ids  *)
(* if it has that name.                                                     *)
LEMMA OptionTaken ==
    ASSUME argv \in ArgLists, NEW n \in Nat \ {0}, n < Len(argv), argv[n] \in OptionNames,
           Kinds[n - 1] = "word"
    PROVE  /\ Kinds[(n + 2) - 1] = "word"
           /\ NodeIdsUpto((n + 2) - 1) = IF argv[n] = "--node-id" THEN NodeIdsUpto(n - 1) \cup {n}
                                         ELSE NodeIdsUpto(n - 1)
<1>1. Len(argv) \in Nat /\ n \in 1 .. Len(argv) /\ n + 1 \in 1 .. Len(argv) /\ (n + 1) - 1 = n
  BY WordsOfArgv
<1>2. Kinds[n] = "option"
  BY <1>1, KindsUnfold
<1>3. Kinds[n + 1] = "word"
  BY <1>1, <1>2, KindsUnfold
<1>4. (n + 2) - 1 = n + 1
  OBVIOUS
<1> DEFINE IsGiven(i) == i < Len(argv) /\ argv[i] = "--node-id" /\ Kinds[i] = "option"
<1>5. NodeIdsUpto(n + 1) = {i \in 1 .. n + 1 : IsGiven(i)} /\ NodeIdsUpto(n - 1) = {i \in 1 .. n - 1 : IsGiven(i)}
  BY Zenon DEF NodeIdsUpto
<1>6. IsGiven(n) <=> argv[n] = "--node-id"
  BY <1>2
<1>7. ~IsGiven(n + 1)
  BY <1>3
<1>8. \A i : i \in 1 .. n + 1 <=> i \in 1 .. n - 1 \/ i = n \/ i = n + 1
  OBVIOUS
<1> HIDE DEF IsGiven
<1>9. n \in 1 .. n + 1
  OBVIOUS
<1>10. CASE argv[n] = "--node-id"
  <2>1. \A i : i \in NodeIdsUpto(n + 1) <=> i \in NodeIdsUpto(n - 1) \/ i = n
    BY <1>5, <1>6, <1>7, <1>8, <1>10, Zenon
  <2> QED
    BY <1>3, <1>4, <1>10, <2>1
<1>11. CASE argv[n] # "--node-id"
  <2>1. \A i : i \in NodeIdsUpto(n + 1) <=> i \in NodeIdsUpto(n - 1)
    BY <1>5, <1>6, <1>7, <1>8, <1>11, Zenon
  <2>2. NodeIdsUpto(n + 1) = NodeIdsUpto(n - 1)
    BY <1>5, <2>1
  <2> QED
    BY <1>3, <1>4, <1>11, <2>2
<1> QED
  BY <1>10, <1>11

LEMMA WordIgnored ==
    ASSUME argv \in ArgLists, NEW n \in Nat \ {0}, n <= Len(argv),
           argv[n] \notin OptionNames \/ n = Len(argv)
    PROVE  /\ n + 1 <= Len(argv) => Kinds[(n + 1) - 1] = "word"
           /\ NodeIdsUpto((n + 1) - 1) = NodeIdsUpto(n - 1)
<1>1. Len(argv) \in Nat /\ n \in 1 .. Len(argv) /\ (n + 1) - 1 = n
  BY WordsOfArgv
<1>2. n + 1 <= Len(argv) => Kinds[n] = "word"
  <2> SUFFICES ASSUME n + 1 <= Len(argv) PROVE Kinds[n] = "word"
    OBVIOUS
  <2>1. argv[n] \notin OptionNames
    BY <1>1
  <2> QED
    BY <1>1, <2>1, KindsUnfold
<1> DEFINE IsGiven(i) == i < Len(argv) /\ argv[i] = "--node-id" /\ Kinds[i] = "option"
<1>3. NodeIdsUpto(n) = {i \in 1 .. n : IsGiven(i)} /\ NodeIdsUpto(n - 1) = {i \in 1 .. n - 1 : IsGiven(i)}
  BY Zenon DEF NodeIdsUpto
<1>4. ~IsGiven(n)
  <2>1. n = Len(argv) \/ argv[n] # "--node-id"
    BY DEF OptionNames
  <2>2. n = Len(argv) => ~(n < Len(argv))
    BY <1>1
  <2> QED
    BY <2>1, <2>2
<1>5. \A i : i \in 1 .. n <=> i \in 1 .. n - 1 \/ i = n
  OBVIOUS
<1> HIDE DEF IsGiven
<1>6. \A i : i \in NodeIdsUpto(n) <=> i \in NodeIdsUpto(n - 1)
  BY <1>3, <1>4, <1>5, Zenon
<1>7. NodeIdsUpto(n) = NodeIdsUpto(n - 1)
  BY <1>3, <1>6
<1> QED
  BY <1>1, <1>2, <1>7

(* The state of the loop after n - 1 words, with its options.               *)
LoopAt(n, opts) ==
    /\ n \in 1 .. Len(argv) + 1 /\ (n <= Len(argv) => Kinds[n - 1] = "word")
    /\ opts.fromCli = (NodeIdsUpto(n - 1) # {}) /\ opts.node = NodeFrom(NodeIdsUpto(n - 1), 1)

LEMMA LoopNext ==
    ASSUME NEW n, NEW opts, LoopAt(n, opts), argv' = argv, arg' = n, options' = opts,
           phase' \in {"args", "config", "failed"}, phase' = "config" => n = Len(argv) + 1
    PROVE  CommandLineInv'
<1>1. Kinds' = Kinds /\ NodeIdsUpto(n - 1)' = NodeIdsUpto(n - 1)
  BY CommandLineStays
<1>2. NodeIdsUpto(arg - 1)' = NodeIdsUpto(n - 1)
  BY <1>1, Zenon DEF NodeIdsUpto
<1>3. NodeFrom(NodeIdsUpto(arg - 1), 1)' = NodeFrom(NodeIdsUpto(n - 1), 1)
  BY <1>2, Zenon DEF NodeFrom
<1>4. phase' \notin {"eds", "lines", "sections"}
  OBVIOUS
<1> QED
  BY <1>1, <1>2, <1>3, <1>4, Zenon DEF CommandLineInv, LoopAt

LEMMA LoopIs ==
    ASSUME CommandLineInv, phase \in {"args", "config"}
    PROVE  LoopAt(arg, options) /\ (phase = "config" => arg = Len(argv) + 1)
BY Zenon DEF CommandLineInv, LoopAt

LEMMA FailedCommandLine == phase' = "failed" => CommandLineInv'
BY DEF CommandLineInv

LEMMA OptionStep ==
    ASSUME TypeOK, CommandLineInv, argv \in ArgLists, PathOption \/ NodeIdOption \/ OtherOption
    PROVE  CommandLineInv'
<1>1. /\ phase = "args" /\ arg < Len(argv) /\ argv[arg] \in OptionNames
      /\ arg' = arg + 2 /\ argv' = argv /\ phase' \in {"args", "failed"}
  BY DEF PathOption, NodeIdOption, OtherOption, HasOption, OptionNames
<1>2. LoopAt(arg, options)
  BY <1>1, LoopIs
<1>3. Len(argv) \in Nat
  BY WordsOfArgv
<1>4. arg \in Nat \ {0} /\ arg <= Len(argv)
  BY <1>1, <1>2, <1>3 DEF LoopAt
<1>5. Kinds[arg - 1] = "word"
  BY <1>2, <1>4 DEF LoopAt
<1>6. PICK n \in Nat \ {0} : n = arg
  BY <1>4
<1>7. /\ Kinds[(n + 2) - 1] = "word"
      /\ NodeIdsUpto((n + 2) - 1) = IF argv[n] = "--node-id" THEN NodeIdsUpto(n - 1) \cup {n}
                                    ELSE NodeIdsUpto(n - 1)
  BY <1>1, <1>5, <1>6, OptionTaken
<1>8. n + 2 \in 1 .. Len(argv) + 1
  BY <1>1, <1>3, <1>6
<1>9. ASSUME PathOption \/ OtherOption PROVE CommandLineInv'
  <2>1. argv[n] # "--node-id"
    BY <1>6, <1>9 DEF PathOption, OtherOption, HasOption
  <2>2. options'.fromCli = options.fromCli /\ options'.node = options.node
    <3>1. CASE OtherOption
      BY <3>1 DEF OtherOption
    <3>2. CASE PathOption
      <4>1. \/ options' = [options EXCEPT !.eds = Argument] \/ options' = [options EXCEPT !.config = Argument]
            \/ options' = [options EXCEPT !.iface = Argument] \/ options' = [options EXCEPT !.log = Argument]
        BY <3>2 DEF PathOption
      <4>2. "node" \in DOMAIN options /\ "fromCli" \in DOMAIN options
        BY DEF TypeOK
      <4> QED
        BY <4>1, <4>2
    <3> QED
      BY <1>9, <3>1, <3>2
  <2>3. NodeIdsUpto((n + 2) - 1) = NodeIdsUpto(n - 1)
    BY <1>7, <2>1
  <2>4. PICK opts : opts = options'
    OBVIOUS
  <2>5. LoopAt(n + 2, opts)
    <3>1. opts.fromCli = (NodeIdsUpto(n - 1) # {}) /\ opts.node = NodeFrom(NodeIdsUpto(n - 1), 1)
      BY <1>2, <1>6, <2>2, <2>4, Zenon DEF LoopAt
    <3> QED
      BY <1>7, <1>8, <2>3, <3>1, Zenon DEF LoopAt
  <2>6. arg' = n + 2 /\ options' = opts /\ argv' = argv /\ phase' \in {"args", "config", "failed"}
        /\ phase' # "config"
    BY <1>1, <1>6, <2>4
  <2> QED
    BY <2>5, <2>6, LoopNext
<1>10. ASSUME NodeIdOption PROVE CommandLineInv'
  <2>1. CASE Argument \notin DOMAIN DecimalOf
    <3>1. phase' = "failed"
      BY <1>10, <2>1 DEF NodeIdOption
    <3> QED
      BY <3>1, FailedCommandLine
  <2>2. CASE Argument \in DOMAIN DecimalOf
    <3> DEFINE given == NodeIdsUpto((n + 2) - 1)
               number == DecimalOf[argv[n + 1]] % ByteSize
    <3>1. argv[n] = "--node-id"
      BY <1>6, <1>10 DEF NodeIdOption, HasOption
    <3>2. options' = [options EXCEPT !.node = number, !.fromCli = TRUE]
      BY <1>6, <1>10, <2>2 DEF NodeIdOption, Argument
    <3>3. given = NodeIdsUpto(n - 1) \cup {n}
      BY <1>7, <3>1
    <3>4. Max(given) = n /\ given # {}
      <4>1. NodeIdsUpto(n - 1) \in SUBSET (1 .. n - 1)
        BY DEF NodeIdsUpto
      <4> HIDE DEF given
      <4>2. given \in SUBSET (1 .. n) /\ n \in given /\ n \in Nat
        BY <3>3, <4>1
      <4>3. Max(given) \in given /\ \A i \in given : i <= Max(given)
        BY <4>2, MaxIsMember
      <4>4. Max(given) \in 1 .. n /\ n <= Max(given)
        BY <4>2, <4>3
      <4> QED
        BY <4>2, <4>4
    <3>5. NodeFrom(given, 1) = number
      <4> HIDE DEF given
      <4> QED
        BY <3>4, Zenon DEF NodeFrom
    <3>6. PICK opts : opts = options'
      OBVIOUS
    <3>7. LoopAt(n + 2, opts)
      <4> HIDE DEF number
      <4>1. "node" \in DOMAIN options /\ "fromCli" \in DOMAIN options
        BY DEF TypeOK
      <4>2. opts.node = number /\ opts.fromCli = TRUE
        BY <3>2, <3>6, <4>1
      <4> HIDE DEF given
      <4>3. opts.fromCli = (given # {}) /\ opts.node = NodeFrom(given, 1)
        BY <3>4, <3>5, <4>2
      <4> QED
        BY <1>7, <1>8, <4>3, Zenon DEF LoopAt, given
    <3>8. arg' = n + 2 /\ options' = opts /\ argv' = argv /\ phase' \in {"args", "config", "failed"}
          /\ phase' # "config"
      BY <1>1, <1>6, <3>6
    <3> QED
      BY <3>7, <3>8, LoopNext
  <2> QED
    BY <2>1, <2>2
<1> QED
  BY <1>9, <1>10

LEMMA ArgsStep ==
    ASSUME CommandLineInv, argv \in ArgLists, IgnoredWord \/ ArgsDone
    PROVE  CommandLineInv'
<1>1. phase = "args" /\ argv' = argv /\ options' = options /\ phase' \in {"args", "config", "failed"}
  BY DEF IgnoredWord, ArgsDone, lineVars
<1>2. LoopAt(arg, options) /\ Len(argv) \in Nat
  BY <1>1, LoopIs, WordsOfArgv
<1>3. arg \in Nat \ {0} /\ arg <= Len(argv) + 1
  BY <1>2 DEF LoopAt
<1>4. PICK n, opts : n \in Nat \ {0} /\ n = arg /\ opts = options
  BY <1>3
<1>5. CASE IgnoredWord
  <2>1. n <= Len(argv) /\ (argv[n] \notin OptionNames \/ n = Len(argv)) /\ arg' = n + 1 /\ phase' = phase
    BY <1>4, <1>5 DEF IgnoredWord
  <2>2. /\ n + 1 <= Len(argv) => Kinds[(n + 1) - 1] = "word"
        /\ NodeIdsUpto((n + 1) - 1) = NodeIdsUpto(n - 1)
    BY <1>4, <2>1, WordIgnored
  <2>3. n + 1 \in 1 .. Len(argv) + 1
    BY <1>2, <1>4, <2>1
  <2>4. opts.fromCli = (NodeIdsUpto(n - 1) # {}) /\ opts.node = NodeFrom(NodeIdsUpto(n - 1), 1)
    BY <1>2, <1>4, Zenon DEF LoopAt
  <2>5. LoopAt(n + 1, opts)
    BY <2>2, <2>3, <2>4, Zenon DEF LoopAt
  <2>6. phase' # "config"
    BY <1>1, <2>1
  <2> QED
    BY <1>1, <1>4, <2>1, <2>5, <2>6, LoopNext
<1>6. CASE ArgsDone
  <2>1. arg > Len(argv) /\ arg' = n
    BY <1>4, <1>6 DEF ArgsDone, lineVars
  <2>2. n = Len(argv) + 1
    BY <1>2, <1>3, <1>4, <2>1
  <2>3. LoopAt(n, opts)
    BY <1>2, <1>4
  <2> QED
    BY <1>1, <1>4, <2>1, <2>2, <2>3, LoopNext
<1> QED
  BY <1>5, <1>6

(* The configuration's node id counts if the command line gives none.       *)
LEMMA LoadStep ==
    ASSUME TypeOK, CommandLineInv, argv \in ArgLists, LoadConfig
    PROVE  CommandLineInv'
<1>1. phase = "config" /\ argv' = argv /\ phase' \in {"eds", "failed"}
  BY DEF LoadConfig
<1>2. CASE phase' = "failed"
  BY <1>2, FailedCommandLine
<1>3. CASE phase' = "eds"
  <2> DEFINE given == NodeIdsUpto(Len(argv))
             yaml  == IF options.config = "" THEN NoNumber ELSE ConfigFiles[options.config].node
             default == IF yaml = NoNumber THEN 1 ELSE yaml
  <2>1. LoopAt(arg, options) /\ arg = Len(argv) + 1 /\ Len(argv) \in Nat
    BY <1>1, LoopIs, WordsOfArgv
  <2>2. arg - 1 = Len(argv)
    BY <2>1
  <2>3. options.fromCli = (given # {}) /\ options.node = NodeFrom(given, 1)
    BY <2>1, <2>2, Zenon DEF LoopAt
  <2>4. options'.config = options.config /\ options'.node = IF yaml = NoNumber \/ options.fromCli THEN options.node ELSE yaml
    <3>1. CASE options.config = ""
      BY <1>3, <3>1 DEF LoadConfig
    <3>2. CASE options.config # ""
      <4>1. options' = [options EXCEPT !.node = IF yaml = NoNumber \/ options.fromCli THEN options.node ELSE yaml]
        BY <1>3, <3>2 DEF LoadConfig
      <4>2. "node" \in DOMAIN options /\ "config" \in DOMAIN options
        BY DEF TypeOK
      <4> HIDE DEF yaml
      <4> QED
        BY <4>1, <4>2
    <3> QED
      BY <3>1, <3>2
  <2>5. NodeFrom(given, default) = options'.node
    <3> HIDE DEF given, yaml
    <3>1. CASE given = {}
      <4>1. NodeFrom(given, default) = default /\ NodeFrom(given, 1) = 1
        BY <3>1, Zenon DEF NodeFrom
      <4>2. ~options.fromCli
        BY <2>3, <3>1, Zenon
      <4> QED
        BY <2>3, <2>4, <4>1, <4>2
    <3>2. CASE given # {}
      <4>1. NodeFrom(given, default) = NodeFrom(given, 1)
        BY <3>2, Zenon DEF NodeFrom
      <4>2. options.fromCli
        BY <2>3, <3>2, Zenon
      <4> QED
        BY <2>3, <2>4, <4>1, <4>2
    <3> QED
      BY <3>1, <3>2
  <2>6. EffectiveNode' = NodeFrom(given, default)
    <3>1. Kinds' = Kinds
      BY <1>1, CommandLineStays
    <3>2. NodeIdsUpto(Len(argv))' = given
      BY <1>1, <3>1, Zenon DEF NodeIdsUpto
    <3>3. (IF options.config = "" THEN NoNumber ELSE ConfigFiles[options.config].node)' = yaml
      BY <2>4, Zenon
    <3> QED
      BY <1>1, <3>2, <3>3, Zenon DEF EffectiveNode, NodeFrom
  <2>7. options'.node = EffectiveNode'
    BY <2>5, <2>6
  <2>8. phase' \notin {"args", "config"}
    BY <1>3
  <2> QED
    BY <2>7, <2>8, Zenon DEF CommandLineInv
<1> QED
  BY <1>1, <1>2, <1>3

LEMMA CommandLineInit == Init => CommandLineInv
<1> SUFFICES ASSUME Init PROVE CommandLineInv
  OBVIOUS
<1>1. argv \in ArgLists /\ arg = 1 /\ phase = "args" /\ options.node = 1 /\ options.fromCli = FALSE
  BY DEF Init
<1>2. Len(argv) \in Nat
  BY <1>1, WordsOfArgv
<1>3. arg \in 1 .. Len(argv) + 1 /\ arg - 1 = 0
  BY <1>1, <1>2
<1>4. Kinds[0] = "word"
  BY <1>2, KindsUnfold
<1>5. NodeIdsUpto(0) = {}
  BY DEF NodeIdsUpto
<1>6. NodeFrom(NodeIdsUpto(0), 1) = 1
  BY <1>5, Zenon DEF NodeFrom
<1>7. phase \notin {"eds", "lines", "sections"} /\ phase # "config"
  BY <1>1
<1> QED
  BY <1>1, <1>3, <1>4, <1>5, <1>6, <1>7 DEF CommandLineInv

LEMMA CommandLineStep ==
    ASSUME TypeOK, CommandLineInv, argv \in ArgLists, [Next]_vars
    PROVE  CommandLineInv'
<1>1. CASE PathOption \/ NodeIdOption \/ OtherOption
  BY <1>1, OptionStep
<1>2. CASE IgnoredWord \/ ArgsDone
  BY <1>2, ArgsStep
<1>3. CASE LoadConfig
  BY <1>3, LoadStep
<1>4. CASE UNCHANGED <<lineVars, phase>>
  <2>1. EffectiveNode' = EffectiveNode /\ argv' = argv /\ arg' = arg /\ options' = options /\ phase' = phase
    BY <1>4, EffectiveNodeStays DEF lineVars
  <2>2. Kinds' = Kinds
    BY <2>1, CommandLineStays
  <2>3. NodeIdsUpto(arg - 1)' = NodeIdsUpto(arg - 1)
    BY <2>1, <2>2, Zenon DEF NodeIdsUpto
  <2>4. NodeFrom(NodeIdsUpto(arg - 1), 1)' = NodeFrom(NodeIdsUpto(arg - 1), 1)
    BY <2>1, <2>3, Zenon DEF NodeFrom
  <2> QED
    BY <2>1, <2>2, <2>3, <2>4, Zenon DEF CommandLineInv
<1>5. CASE UNCHANGED lineVars /\ phase \notin {"args", "config"} /\ phase' \notin {"args", "config"}
           /\ (phase' \in {"eds", "lines", "sections"} => phase \in {"eds", "lines", "sections"})
  <2>1. EffectiveNode' = EffectiveNode /\ options' = options
    BY <1>5, EffectiveNodeStays DEF lineVars
  <2> QED
    BY <1>5, <2>1, Zenon DEF CommandLineInv
<1>6. \/ PathOption \/ NodeIdOption \/ OtherOption \/ IgnoredWord \/ ArgsDone \/ LoadConfig
      \/ UNCHANGED <<lineVars, phase>>
      \/ /\ UNCHANGED lineVars /\ phase \notin {"args", "config"} /\ phase' \notin {"args", "config"}
         /\ phase' \in {"eds", "lines", "sections"} => phase \in {"eds", "lines", "sections"}
  BY DEF Next, vars, OpenEds, ParseLine, ParseSection, Parsed, ApplyDefault, DefaultsDone,
         ApplyRpdoOverrides, ApplyTpdoOverrides, SkipPdo, BeginPdo, MapSignal, EndPdo,
         RangeDone
<1> QED
  BY <1>1, <1>2, <1>3, <1>4, <1>5, <1>6

(* Whatever the words of the command line, each loop step has the node id   *)
(* of the words so far, and what the file is parsed with is that of the     *)
(* line, else of the configuration, else 1.                                 *)
THEOREM CommandLineInvariant == Spec => []CommandLineInv
BY CommandLineInit, CommandLineStep, ArgvStays, TypeCorrect, PTL DEF Spec

-----------------------------------------------------------------------------
(* The loops over the lines and over the sections.                          *)

LEMMA ParsingInit == Init => ParsingInv
<1> SUFFICES ASSUME Init PROVE ParsingInv
  OBVIOUS
<1>1. phase = "args" /\ sections = <<>> /\ dictionary = <<>>
  BY DEF Init
<1> QED
  BY <1>1, Zenon DEF ParsingInv

LEMMA OutsideParser ==
    ASSUME \/ phase' \notin {"args", "config", "eds", "lines", "sections"}
           \/ phase' \in {"args", "config", "eds"} /\ sections' = <<>> /\ dictionary' = <<>>
    PROVE  ParsingInv'
<1>1. CASE phase' \notin {"args", "config", "eds", "lines", "sections"}
  BY <1>1, Zenon DEF ParsingInv
<1>2. CASE phase' \in {"args", "config", "eds"} /\ sections' = <<>> /\ dictionary' = <<>>
  <2>1. phase' # "lines" /\ phase' # "sections"
    BY <1>2
  <2> QED
    BY <1>2, <2>1, Zenon DEF ParsingInv
<1> QED
  BY <1>1, <1>2

LEMMA OpenEdsStep ==
    ASSUME ParsingInv, OpenEds
    PROVE  ParsingInv'
<1> DEFINE text == EdsFiles[options.eds]
<1>1. phase = "eds" /\ options' = options /\ sections' = sections /\ dictionary' = dictionary
  BY DEF OpenEds, lineVars
<1>2. sections = <<>> /\ dictionary = <<>>
  BY <1>1, Zenon DEF ParsingInv
<1>3. CASE options.eds \notin DOMAIN EdsFiles
  <2>1. phase' = "failed"
    BY <1>3 DEF OpenEds
  <2> QED
    BY <2>1, OutsideParser
<1>4. CASE options.eds \in DOMAIN EdsFiles
  <2>1. lines' = text /\ phase' = "lines"
    BY <1>4 DEF OpenEds
  <2>2. PICK t \in Seq(Seq(STRING)) : t = text
    BY <1>4, SetupAssumption
  <2>3. Len(t) \in Nat /\ Len(t) - Len(t) = 0
    BY <2>2
  <2>4. lines' = SubSeq(t, 0 + 1, Len(t)) /\ EdsFiles[options.eds]' = t /\ Len(lines') = Len(t)
    <3>1. SubSeq(t, 1, Len(t)) = t /\ 0 + 1 = 1
      OBVIOUS
    <3> QED
      BY <1>1, <2>1, <2>2, <3>1
  <2>5. SectionsAre(t, 0, 0)'
    <3>1. Headers(t)[0] = <<>>
      BY <2>3, HeadersUnfold
    <3>2. sections' = <<>> /\ sections' \in Seq(ToSet(sections')) /\ Len(sections') = 0
      BY <1>1, <1>2, EmptySeq
    <3>3. Len(<<>>) = 0 + Len(sections')
      BY <3>2
    <3>4. \A s \in 1 .. Len(sections') : FALSE
      BY <3>2
    <3> QED
      BY <3>1, <3>2, <3>3, <3>4, Zenon DEF SectionsAre
  <2>6. (options.eds \in DOMAIN EdsFiles)' /\ dictionary' = <<>> /\ phase' # "sections"
    BY <1>1, <1>2, <1>4, <2>1
  <2>7. (Len(EdsFiles[options.eds]) - Len(lines))' = 0 /\ 0 \in Nat
    BY <2>3, <2>4
  <2>8. phase' \notin {"args", "config", "eds"}
    BY <2>1
  <2> QED
    BY <2>4, <2>5, <2>6, <2>7, <2>8, Zenon DEF ParsingInv
<1> QED
  BY <1>3, <1>4

LEMMA OneLess ==
    ASSUME NEW l \in Nat, NEW r \in Nat, NEW n, NEW t, n = l - r, t = r - 1
    PROVE  l - t = n + 1
OBVIOUS

(* What is left to read is the text from the next line on.                  *)
LEMMA LinesNext ==
    ASSUME NEW text \in Seq(Seq(STRING)), NEW n \in Nat, NEW rest,
           n = Len(text) - Len(rest), rest = SubSeq(text, n + 1, Len(text)), rest # <<>>
    PROVE  /\ n + 1 <= Len(text) /\ Head(rest) = text[n + 1]
           /\ Tail(rest) = SubSeq(text, (n + 1) + 1, Len(text))
           /\ Len(Tail(rest)) = Len(rest) - 1 /\ Len(rest) \in Nat
<1>1. Len(text) \in Nat
  OBVIOUS
<1>2. n + 1 <= Len(text)
  <2>1. ~(Len(text) < n + 1)
    <3> SUFFICES ASSUME Len(text) < n + 1 PROVE FALSE
      OBVIOUS
    <3>1. n + 1 \in Int /\ Len(text) \in Int
      BY <1>1
    <3>2. SubSeq(text, n + 1, Len(text)) = <<>>
      BY <3>1, SubSeqEmpty, Zenon
    <3> QED
      BY <3>2, Zenon
  <2> QED
    BY <1>1, <2>1
<1>3. n + 1 \in 1 .. Len(text) /\ Len(text) \in n + 1 .. Len(text)
  BY <1>1, <1>2
<1>4. Head(rest) = text[n + 1] /\ Tail(rest) = SubSeq(text, (n + 1) + 1, Len(text))
  BY <1>3, HeadTailOfSubSeq
<1>5. Len(Tail(rest)) = Len(rest) - 1 /\ Len(rest) \in Nat
  <2>1. \A i \in n + 1 .. Len(text) : text[i] \in Seq(STRING)
    BY <1>1
  <2>2. rest \in Seq(Seq(STRING))
    BY <1>1, <2>1, SubSeqProperties
  <2> QED
    BY <2>2, HeadTailProperties, LenProperties
<1> QED
  BY <1>2, <1>4, <1>5

LEMMA ParseLineStep ==
    ASSUME ParsingInv, ParseLine
    PROVE  ParsingInv'
<1>1. phase = "lines" /\ options' = options /\ dictionary' = dictionary
  BY DEF ParseLine, lineVars
<1>2. options.eds \in DOMAIN EdsFiles /\ dictionary = <<>>
  BY <1>1, Zenon DEF ParsingInv
<1>3. PICK text \in Seq(Seq(STRING)) : text = EdsFiles[options.eds]
  BY <1>2, SetupAssumption
<1>4. EdsFiles[options.eds]' = text /\ (options.eds \in DOMAIN EdsFiles)' /\ dictionary' = <<>>
  BY <1>1, <1>2, <1>3
<1>5. Len(text) - Len(lines) \in Nat /\ SectionsAre(text, Len(text) - Len(lines), 0)
      /\ lines = SubSeq(text, (Len(text) - Len(lines)) + 1, Len(text))
  BY <1>1, <1>3, Zenon DEF ParsingInv
<1>6. PICK n \in Nat : n = Len(text) - Len(lines)
  BY <1>5
<1>7. SectionsAre(text, n, 0) /\ lines = SubSeq(text, n + 1, Len(text))
  BY <1>5, <1>6
<1>8. CASE lines # <<>>
  <2>1. sections' = ReadLine(sections, Head(lines)) /\ lines' = Tail(lines) /\ phase' = "lines"
    BY <1>1, <1>8 DEF ParseLine
  <2>2. PICK rest : rest = lines
    OBVIOUS
  <2>3. /\ n + 1 <= Len(text) /\ Head(rest) = text[n + 1]
        /\ Tail(rest) = SubSeq(text, (n + 1) + 1, Len(text))
        /\ Len(Tail(rest)) = Len(rest) - 1 /\ Len(rest) \in Nat
    BY <1>6, <1>7, <1>8, <2>2, LinesNext
  <2>4. sections' = ReadLine(sections, text[n + 1])
    BY <2>1, <2>2, <2>3
  <2>5. SectionsAre(text, n + 1, 0)'
    BY <1>7, <2>3, <2>4, ReadLineIs
  <2>6. lines' = SubSeq(text, (n + 1) + 1, Len(text)) /\ Len(text) - Len(lines') = n + 1 /\ n + 1 \in Nat
    <3>1. n + 1 \in Nat /\ Len(text) \in Nat
      OBVIOUS
    <3>2. PICK l, r, t : l = Len(text) /\ r = Len(rest) /\ t = Len(Tail(rest))
      OBVIOUS
    <3>3. l \in Nat /\ r \in Nat /\ n = l - r /\ t = r - 1
      BY <1>6, <2>2, <2>3, <3>1, <3>2, Zenon
    <3>4. l - t = n + 1
      BY <3>3, OneLess
    <3>5. Len(text) - Len(Tail(rest)) = n + 1
      BY <3>2, <3>4, Zenon
    <3> QED
      BY <2>1, <2>2, <2>3, <3>1, <3>5, Zenon
  <2>7. phase' \notin {"args", "config", "eds"} /\ phase' # "sections"
    BY <2>1
  <2> QED
    BY <1>4, <2>5, <2>6, <2>7, Zenon DEF ParsingInv
<1>9. CASE lines = <<>>
  <2> DEFINE opened == Headers(text)[Len(text)]
  <2>1. sections' = sections /\ phase' = "sections"
    BY <1>9 DEF ParseLine
  <2>2. n = Len(text) /\ Len(text) \in Nat
    BY <1>6, <1>9
  <2>3. SectionsAre(text, Len(text), 0)
    BY <1>7, <2>2
  <2>4. SectionsAre(text, Len(text), 0)'
    BY <2>1, <2>3, Zenon DEF SectionsAre
  <2>5. Len(opened) - Len(sections') = 0 /\ 0 \in Nat
    <3>1. Len(opened) = 0 + Len(sections) /\ sections \in Seq(ToSet(sections))
      BY <2>3, Zenon DEF SectionsAre
    <3>2. Len(sections) \in Nat
      BY <3>1
    <3> HIDE DEF opened
    <3> QED
      BY <2>1, <3>1, <3>2
  <2>6. DictionaryFrom(text, {opened[s] : s \in 1 .. 0})'
    <3>1. {opened[s] : s \in 1 .. 0} = {}
      OBVIOUS
    <3>2. DOMAIN dictionary' = {} /\ UNION {Opened(text[h]) : h \in {}} = {}
      <4>1. DOMAIN <<>> = {}
        OBVIOUS
      <4> QED
        BY <1>4, <4>1
    <3>3. DictionaryFrom(text, {})'
      BY <3>2, Zenon DEF DictionaryFrom
    <3> QED
      BY <3>1, <3>3
  <2>7. phase' \notin {"args", "config", "eds", "lines"}
    BY <2>1
  <2> QED
    BY <1>4, <2>4, <2>5, <2>6, <2>7, Zenon DEF ParsingInv
<1> QED
  BY <1>8, <1>9

LEMMA ParseSectionStep ==
    ASSUME TypeOK, CommandLineInv, ParsingInv, ParseSection
    PROVE  ParsingInv'
<1>1. /\ phase = "sections" /\ phase' = "sections" /\ UNCHANGED lineVars /\ options' = options
      /\ sections # <<>> /\ sections' = Tail(sections)
      /\ dictionary' = ReadSection(dictionary, Head(sections), options.node)
  BY DEF ParseSection, lineVars
<1>2. options.eds \in DOMAIN EdsFiles
  BY <1>1, Zenon DEF ParsingInv
<1>3. PICK text \in Seq(Seq(STRING)) : text = EdsFiles[options.eds]
  BY <1>2, SetupAssumption
<1>4. EdsFiles[options.eds]' = text /\ (options.eds \in DOMAIN EdsFiles)'
  BY <1>1, <1>2, <1>3
<1> DEFINE opened == Headers(text)[Len(text)]
<1>5. /\ Len(opened) - Len(sections) \in Nat
      /\ SectionsAre(text, Len(text), Len(opened) - Len(sections))
      /\ DictionaryFrom(text, {opened[s] : s \in 1 .. Len(opened) - Len(sections)})
  BY <1>1, <1>3, Zenon DEF ParsingInv
<1>6. PICK d \in Nat : d = Len(opened) - Len(sections)
  BY <1>5
<1>7. SectionsAre(text, Len(text), d) /\ DictionaryFrom(text, {opened[s] : s \in 1 .. d})
  BY <1>5, <1>6, Zenon
<1>8. options.node = EffectiveNode
  BY <1>1 DEF CommandLineInv
<1>9. SectionsAre(text, Len(text), d + 1)' /\ DictionaryFrom(text, {opened[s] : s \in 1 .. d + 1})'
  BY <1>1, <1>7, <1>8, ReadSectionIs
<1>10. Len(opened) - Len(sections') = d + 1 /\ d + 1 \in Nat
  <2>1. sections \in Seq(ToSet(sections)) /\ Len(opened) = d + Len(sections)
    BY <1>7, Zenon DEF SectionsAre
  <2> HIDE DEF opened
  <2>2. Len(sections') = Len(sections) - 1 /\ Len(sections) \in Nat
    BY <1>1, <2>1
  <2> QED
    BY <2>1, <2>2
<1>11. phase' \notin {"args", "config", "eds", "lines"}
  BY <1>1
<1> QED
  BY <1>4, <1>9, <1>10, <1>11, Zenon DEF ParsingInv

LEMMA ParsingStep ==
    ASSUME TypeOK, CommandLineInv, ParsingInv, [Next]_vars
    PROVE  ParsingInv'
<1>1. CASE OpenEds \/ ParseLine \/ ParseSection
  BY <1>1, OpenEdsStep, ParseLineStep, ParseSectionStep
<1>2. CASE UNCHANGED vars
  <2>1. /\ options' = options /\ lines' = lines /\ sections' = sections /\ dictionary' = dictionary
        /\ phase' = phase /\ UNCHANGED lineVars
    BY <1>2 DEF vars, lineVars, edsVars
  <2>2. EffectiveNode' = EffectiveNode
    BY <2>1, EffectiveNodeStays
  <2>3. \A text, n, d : SectionsAre(text, n, d)' <=> SectionsAre(text, n, d)
    BY <2>1, Zenon DEF SectionsAre
  <2>4. \A text, opening : DictionaryFrom(text, opening)' <=> DictionaryFrom(text, opening)
    BY <2>1, <2>2, Zenon DEF DictionaryFrom
  <2>5. PICK text : text = EdsFiles[options.eds]
    OBVIOUS
  <2>6. EdsFiles[options.eds]' = text
    BY <2>1, <2>5
  <2>7. CASE phase = "lines"
    <3>1. /\ Len(text) - Len(lines) \in Nat /\ lines = SubSeq(text, (Len(text) - Len(lines)) + 1, Len(text))
          /\ SectionsAre(text, Len(text) - Len(lines), 0)
      BY <2>5, <2>7, Zenon DEF ParsingInv
    <3>2. PICK n : n = Len(text) - Len(lines)
      OBVIOUS
    <3>3. SectionsAre(text, n, 0)'
      BY <2>3, <3>1, <3>2
    <3>4. dictionary = <<>> /\ options.eds \in DOMAIN EdsFiles
      BY <2>7, Zenon DEF ParsingInv
    <3>5. phase' \notin {"args", "config", "eds"} /\ phase' # "sections"
      BY <2>1, <2>7
    <3>6. Len(text) - Len(lines') = n /\ n \in Nat /\ lines' = SubSeq(text, n + 1, Len(text))
      BY <2>1, <3>1, <3>2
    <3> QED
      BY <2>1, <2>6, <3>3, <3>4, <3>5, <3>6, Zenon DEF ParsingInv
  <2>8. CASE phase = "sections"
    <3> DEFINE opened == Headers(text)[Len(text)]
    <3>1. /\ Len(opened) - Len(sections) \in Nat
          /\ SectionsAre(text, Len(text), Len(opened) - Len(sections))
          /\ DictionaryFrom(text, {opened[s] : s \in 1 .. Len(opened) - Len(sections)})
      BY <2>5, <2>8, Zenon DEF ParsingInv
    <3>2. PICK d : d = Len(opened) - Len(sections)
      OBVIOUS
    <3>3. SectionsAre(text, Len(text), d)'
      BY <2>3, <3>1, <3>2
    <3>4. DictionaryFrom(text, {opened[s] : s \in 1 .. d})'
      <4>1. PICK opening : opening = {opened[s] : s \in 1 .. d}
        OBVIOUS
      <4>2. DictionaryFrom(text, opening)
        BY <3>1, <3>2, <4>1
      <4> QED
        BY <2>4, <4>1, <4>2
    <3>5. Len(opened) - Len(sections') = d /\ d \in Nat /\ options.eds \in DOMAIN EdsFiles
      BY <2>1, <2>8, <3>1, <3>2 DEF ParsingInv
    <3>6. phase' \notin {"args", "config", "eds", "lines"}
      BY <2>1, <2>8
    <3> QED
      BY <2>1, <2>6, <3>3, <3>4, <3>5, <3>6, Zenon DEF ParsingInv
  <2>9. CASE phase \in {"args", "config", "eds"}
    <3>1. sections = <<>> /\ dictionary = <<>>
      BY <2>9, Zenon DEF ParsingInv
    <3> QED
      BY <2>1, <2>9, <3>1, OutsideParser
  <2>10. CASE phase \notin {"args", "config", "eds", "lines", "sections"}
    BY <2>1, <2>10, OutsideParser
  <2> QED
    BY <2>7, <2>8, <2>9, <2>10
<1>3. CASE phase \in {"args", "config"} /\ UNCHANGED <<sections, dictionary>>
           /\ phase' \in {"args", "config", "eds", "failed"}
  <2>1. sections' = <<>> /\ dictionary' = <<>>
    BY <1>3, Zenon DEF ParsingInv
  <2> QED
    BY <1>3, <2>1, OutsideParser
<1>4. CASE phase' \notin {"args", "config", "eds", "lines", "sections"}
  BY <1>4, OutsideParser
<1>5. \/ OpenEds \/ ParseLine \/ ParseSection \/ UNCHANGED vars
      \/ /\ phase \in {"args", "config"} /\ UNCHANGED <<sections, dictionary>>
         /\ phase' \in {"args", "config", "eds", "failed"}
      \/ phase' \notin {"args", "config", "eds", "lines", "sections"}
  <2>1. ASSUME PathOption \/ NodeIdOption \/ OtherOption \/ IgnoredWord \/ ArgsDone \/ LoadConfig
        PROVE  /\ phase \in {"args", "config"} /\ UNCHANGED <<sections, dictionary>>
               /\ phase' \in {"args", "config", "eds", "failed"}
    BY <2>1 DEF edsVars, PathOption, NodeIdOption, OtherOption, IgnoredWord, ArgsDone, LoadConfig, HasOption
  <2>2. ASSUME \/ Parsed \/ ApplyDefault \/ DefaultsDone \/ ApplyRpdoOverrides \/ ApplyTpdoOverrides
               \/ SkipPdo \/ BeginPdo \/ MapSignal \/ EndPdo \/ RangeDone
        PROVE  phase' \notin {"args", "config", "eds", "lines", "sections"}
    BY <2>2 DEF Parsed, ApplyDefault, DefaultsDone, ApplyRpdoOverrides, ApplyTpdoOverrides,
         SkipPdo, BeginPdo, MapSignal, EndPdo, RangeDone
  <2> QED
    BY <2>1, <2>2 DEF Next
<1> QED
  BY <1>1, <1>2, <1>3, <1>4, <1>5

(* Whatever lines the file has, the sections read are those of the lines    *)
(* passed, and the dictionary is what the sections passed say.              *)
THEOREM ParsingInvariant == Spec => []ParsingInv
BY ParsingInit, ParsingStep, CommandLineInvariant, TypeCorrect, PTL DEF Spec

(* What the dictionary rests on, at every stage of start-up.                *)
THEOREM InputsInvariant == Spec => []InputsInv
BY ConfigInvariant, CommandLineInvariant, ParsingInvariant, AppliedInvariant, PTL DEF InputsInv

(* Lines that open no object say nothing of the dictionary.                 *)
LEMMA OtherLinesOpenNothing ==
    ASSUME NEW text, NEW opening, NEW more, opening \subseteq more,
           \A h \in more : h \in opening \/ Opened(text[h]) = {},
           DictionaryFrom(text, opening)
    PROVE  DictionaryFrom(text, more)
<1> DEFINE O(h) == Opened(text[h])
           By(k, some) == {h \in some : k \in O(h)}
<1>1. UNION {O(h) : h \in more} = UNION {O(h) : h \in opening}
  <2> HIDE DEF O
  <2>1. \A h \in more : h \in opening \/ O(h) = {}
    BY DEF O
  <2> QED
    BY <2>1
<1>2. \A k : By(k, more) = By(k, opening)
  <2>1. \A h \in more : h \in opening \/ O(h) = {}
    OBVIOUS
  <2> HIDE DEF O
  <2> QED
    BY <2>1
<1>3. /\ DOMAIN dictionary = UNION {O(h) : h \in opening}
      /\ \A k \in DOMAIN dictionary : EntryMatches(dictionary[k], text, Max(By(k, opening)), EffectiveNode)
  BY Zenon DEF DictionaryFrom
<1>4. /\ DOMAIN dictionary = UNION {O(h) : h \in more}
      /\ \A k \in DOMAIN dictionary : EntryMatches(dictionary[k], text, Max(By(k, more)), EffectiveNode)
  <2> HIDE DEF By
  <2> QED
    BY <1>1, <1>2, <1>3
<1> QED
  BY <1>4, Zenon DEF DictionaryFrom

(* Whatever the EDS file and the command line, the dictionary that leaves   *)
(* the parser is the one the file describes: its objects and no other, with *)
(* the types and the values of their last sections.                         *)
THEOREM ParsedMatchesTextHolds == Spec => []ParsedMatchesText
<1>1. ParsingInv => ParsedMatchesText
  <2> SUFFICES ASSUME ParsingInv, phase = "sections", sections = <<>>
               PROVE  DictionaryFrom(EdsFiles[options.eds], DOMAIN EdsFiles[options.eds])
    BY DEF ParsedMatchesText
  <2>1. options.eds \in DOMAIN EdsFiles
    BY Zenon DEF ParsingInv
  <2>2. PICK text \in Seq(Seq(STRING)) : text = EdsFiles[options.eds]
    BY <2>1, SetupAssumption
  <2> DEFINE opened == Headers(text)[Len(text)]
             headers == {opened[s] : s \in 1 .. Len(opened)}
  <2>3. Len(text) \in Nat /\ DOMAIN text = 1 .. Len(text) /\ AreHeaders(opened, text, Len(text))
    BY HeadersAre
  <2>4. DictionaryFrom(text, {opened[s] : s \in 1 .. Len(opened) - Len(sections)})
    BY <2>2, Zenon DEF ParsingInv
  <2> HIDE DEF opened
  <2>5. Len(opened) - Len(sections) = Len(opened)
    <3>1. Len(opened) \in Nat /\ Len(sections) = 0
      BY <2>3 DEF AreHeaders
    <3> QED
      BY <3>1
  <2>6. DictionaryFrom(text, headers)
    BY <2>4, <2>5
  <2>7. headers \subseteq DOMAIN text
    BY <2>3 DEF AreHeaders
  <2>8. ASSUME NEW h \in DOMAIN text, h \notin headers PROVE Opened(text[h]) = {}
    <3>1. ~IsHeader(Body(text[h]))
      BY <2>3, <2>8 DEF AreHeaders
    <3> QED
      BY <3>1, Zenon DEF Opened
  <2> HIDE DEF headers
  <2> QED
    BY <2>2, <2>6, <2>7, <2>8, OtherLinesOpenNothing
<1> QED
  BY <1>1, ParsingInvariant, PTL

-----------------------------------------------------------------------------
(* How far start-up is from its end.                                        *)

StagesLeft ==
    CASE phase = "args" -> 9 [] phase = "config" -> 8 [] phase = "eds" -> 7 [] phase = "lines" -> 6
      [] phase = "sections" -> 5 [] phase = "defaults" -> 4 [] phase = "rpdo" -> 3
      [] phase = "tpdo" -> 2 [] phase \in {"build", "mapping"} -> 1 [] OTHER -> 0

(* Words, lines, sections, defaults or mapping objects.                     *)
ItemsLeft ==
    CASE phase = "args" -> Len(argv) + 1 - arg [] phase = "lines" -> Len(lines)
      [] phase = "sections" -> Len(sections) [] phase = "defaults" -> Cardinality(DOMAIN config.defaults)
      [] phase \in {"build", "mapping"} -> (IF range = "receive" THEN Count + 1 ELSE 0) + (Count - offset)
      [] OTHER -> 0

WordsLeft == IF phase = "mapping" THEN SignalCount + 1 - sub ELSE ByteSize

CountsDown == StagesLeft \in Nat /\ ItemsLeft \in Nat /\ WordsLeft \in Nat

Less ==
    \/ StagesLeft' < StagesLeft
    \/ StagesLeft' = StagesLeft /\ ItemsLeft' < ItemsLeft
    \/ StagesLeft' = StagesLeft /\ ItemsLeft' = ItemsLeft /\ WordsLeft' < WordsLeft

Finite == IsFiniteSet(DOMAIN config.defaults)

LEMMA FiniteAlways == Spec => []Finite
<1>1. Init => Finite
  <2> SUFFICES ASSUME Init PROVE Finite
    OBVIOUS
  <2>1. config.defaults = <<>>
    BY DEF Init, NoConfig
  <2>2. DOMAIN config.defaults = {}
    BY <2>1
  <2> QED
    BY <2>2, FS_EmptySet DEF Finite
<1>2. ASSUME Finite, [Next]_vars PROVE Finite'
  <2>1. CASE LoadConfig
    <3>1. \A path \in DOMAIN ConfigFiles : IsFiniteSet(DOMAIN ConfigFiles[path].defaults)
      BY SetupAssumption
    <3>2. CASE config' = config
      BY <1>2, <3>2 DEF Finite
    <3>3. CASE options.config \in DOMAIN ConfigFiles /\ config' =
                 [defaults |-> ConfigFiles[options.config].defaults,
                  rpdo |-> SectionOf(ConfigFiles[options.config].rpdo),
                  tpdo |-> SectionOf(ConfigFiles[options.config].tpdo)]
      <4>1. config'.defaults = ConfigFiles[options.config].defaults
        BY <3>3
      <4> QED
        BY <3>1, <3>3, <4>1, Zenon DEF Finite
    <3> QED
      BY <2>1, <3>2, <3>3, Zenon DEF LoadConfig
  <2>2. CASE ApplyDefault
    <3>1. PICK text \in DOMAIN config.defaults :
            config' = [config EXCEPT !.defaults = Restrict(@, DOMAIN @ \ {text})]
      BY <2>2, Zenon DEF ApplyDefault
    <3>2. DOMAIN config'.defaults \subseteq DOMAIN config.defaults
      BY <3>1 DEF Restrict
    <3> QED
      BY <1>2, <3>2, FS_Subset DEF Finite
  <2>3. CASE PathOption \/ NodeIdOption \/ OtherOption \/ IgnoredWord \/ ArgsDone \/ OpenEds
             \/ ParseLine \/ ParseSection \/ Parsed
    <3>1. config' = config
      BY <2>3 DEF PathOption, NodeIdOption, OtherOption, IgnoredWord, ArgsDone, OpenEds,
           ParseLine, ParseSection, Parsed
    <3> QED
      BY <1>2, <3>1 DEF Finite
  <2>4. CASE DefaultsDone \/ ApplyRpdoOverrides \/ ApplyTpdoOverrides \/ UNCHANGED vars
             \/ SkipPdo \/ BeginPdo \/ MapSignal \/ EndPdo \/ RangeDone
    <3>1. config' = config
      BY <2>4 DEF DefaultsDone, ApplyRpdoOverrides, ApplyTpdoOverrides, vars,
           SkipPdo, BeginPdo, MapSignal, EndPdo, RangeDone
    <3> QED
      BY <1>2, <3>1 DEF Finite
  <2> QED
    BY <1>2, <2>1, <2>2, <2>3, <2>4, Zenon DEF Next
<1> QED
  BY <1>1, <1>2, PTL DEF Spec

LEMMA ListsAreSequences ==
    ASSUME ParsingInv
    PROVE  /\ phase = "lines" => lines \in Seq(Seq(STRING))
           /\ phase = "sections" => sections \in Seq(ToSet(sections))
<1>1. ASSUME phase = "lines" PROVE lines \in Seq(Seq(STRING))
  <2>1. options.eds \in DOMAIN EdsFiles
    BY <1>1, Zenon DEF ParsingInv
  <2>2. PICK text \in Seq(Seq(STRING)) : text = EdsFiles[options.eds]
    BY <2>1, SetupAssumption
  <2>3. Len(text) - Len(lines) \in Nat /\ lines = SubSeq(text, Len(text) - Len(lines) + 1, Len(text))
    BY <1>1, <2>2, Zenon DEF ParsingInv
  <2>4. PICK n \in Nat : n = Len(text) - Len(lines)
    BY <2>3
  <2>5. lines = SubSeq(text, n + 1, Len(text))
    BY <2>3, <2>4
  <2>6. Len(text) \in Nat /\ \A i \in n + 1 .. Len(text) : text[i] \in Seq(STRING)
    OBVIOUS
  <2> QED
    BY <2>5, <2>6, SubSeqProperties
<1>2. ASSUME phase = "sections" PROVE sections \in Seq(ToSet(sections))
  <2>1. PICK text, n, d : SectionsAre(text, n, d)
    BY <1>2, Zenon DEF ParsingInv
  <2> QED
    BY <2>1, Zenon DEF SectionsAre
<1> QED
  BY <1>1, <1>2

(* Until it ends or fills, the list lengths and loop variables are natural. *)
LEMMA CountsDownAlways ==
    ASSUME TypeOK, CommandLineInv, ParsingInv, BuildInv, Finite, argv \in ArgLists
    PROVE  CountsDown
<1>1. StagesLeft \in Nat
  BY DEF StagesLeft
<1>2. ItemsLeft \in Nat
  <2>1. CASE phase = "args"
    <3>1. Len(argv) \in Nat
      BY SetupAssumption
    <3>2. arg \in 1 .. Len(argv) + 1
      BY <2>1, Zenon DEF CommandLineInv
    <3>3. ItemsLeft = Len(argv) + 1 - arg
      BY <2>1 DEF ItemsLeft
    <3> QED
      BY <3>1, <3>2, <3>3
  <2>2. CASE phase = "lines"
    <3>1. Len(lines) \in Nat
      BY <2>2, ListsAreSequences, LenProperties
    <3> QED
      BY <2>2, <3>1 DEF ItemsLeft
  <2>3. CASE phase = "sections"
    <3>1. Len(sections) \in Nat
      BY <2>3, ListsAreSequences, LenProperties
    <3> QED
      BY <2>3, <3>1 DEF ItemsLeft
  <2>4. CASE phase = "defaults"
    <3>1. Cardinality(DOMAIN config.defaults) \in Nat
      BY FS_CardinalityType DEF Finite
    <3> QED
      BY <2>4, <3>1 DEF ItemsLeft
  <2>5. CASE phase \in {"build", "mapping"}
    <3>1. offset \in 0 .. Count
      BY DEF TypeOK
    <3>2. ItemsLeft = (IF range = "receive" THEN Count + 1 ELSE 0) + (Count - offset)
      BY <2>5 DEF ItemsLeft
    <3> QED
      BY <3>1, <3>2, Widths
  <2>6. CASE phase \notin {"args", "lines", "sections", "defaults", "build", "mapping"}
    BY <2>6 DEF ItemsLeft
  <2> QED
    BY <2>1, <2>2, <2>3, <2>4, <2>5, <2>6
<1>3. WordsLeft \in Nat
  <2>1. SignalCount \in Nat /\ sub \in Nat /\ sub < ByteSize
    BY SignalCountType, Widths DEF Subs, TypeOK
  <2>2. SignalCount < ByteSize - 1 /\ phase = "mapping" => sub \in 1 .. SignalCount + 1
    BY DEF BuildInv, FillingInv
  <2> QED
    BY <2>1, <2>2, Widths, SignalCountType DEF WordsLeft, Subs
<1> QED
  BY <1>1, <1>2, <1>3 DEF CountsDown

(* A later stage is nearer the end.                                         *)
LEMMA LaterStage ==
    ASSUME \/ phase = "args"     /\ phase' \in {"config", "failed"}
           \/ phase = "config"   /\ phase' \in {"eds", "failed"}
           \/ phase = "eds"      /\ phase' \in {"lines", "failed"}
           \/ phase = "lines"    /\ phase' = "sections"
           \/ phase = "sections" /\ phase' \in {"defaults", "build"}
           \/ phase = "defaults" /\ phase' \in {"rpdo", "failed"}
           \/ phase = "rpdo"     /\ phase' = "tpdo"
           \/ phase = "tpdo"     /\ phase' = "build"
           \/ phase = "build"    /\ phase' = "done"
    PROVE  Less
<1>1. StagesLeft' < StagesLeft
  BY DEF StagesLeft
<1> QED
  BY <1>1 DEF Less

LEMMA FewerItems ==
    ASSUME \/ phase' = phase
           \/ phase \in {"build", "mapping"} /\ phase' \in {"build", "mapping"},
           ItemsLeft' < ItemsLeft
    PROVE  Less
<1>1. StagesLeft' = StagesLeft
  BY DEF StagesLeft
<1> QED
  BY <1>1 DEF Less

LEMMA ArgsNearer ==
    ASSUME CommandLineInv, argv \in ArgLists,
           PathOption \/ NodeIdOption \/ OtherOption \/ IgnoredWord
    PROVE  Less
<1>1. phase = "args" /\ phase' \in {"args", "failed"} /\ argv' = argv /\ arg' \in {arg + 1, arg + 2}
  BY DEF PathOption, NodeIdOption, OtherOption, IgnoredWord, HasOption
<1>2. CASE phase' = "failed"
  BY <1>1, <1>2, LaterStage
<1>3. CASE phase' = "args"
  <2>1. Len(argv) \in Nat
    BY SetupAssumption
  <2>2. arg \in 1 .. Len(argv) + 1
    BY <1>1, Zenon DEF CommandLineInv
  <2>3. ItemsLeft = Len(argv) + 1 - arg /\ ItemsLeft' = Len(argv) + 1 - arg'
    BY <1>1, <1>3 DEF ItemsLeft
  <2>4. ItemsLeft' < ItemsLeft
    BY <1>1, <2>1, <2>2, <2>3
  <2> QED
    BY <1>1, <1>3, <2>4, FewerItems
<1> QED
  BY <1>1, <1>2, <1>3

LEMMA FilesNearer ==
    ASSUME ParsingInv, ParseLine \/ ParseSection
    PROVE  Less
<1>1. CASE ParseLine /\ lines # <<>>
  <2>1. phase = "lines" /\ phase' = "lines" /\ lines' = Tail(lines)
    BY <1>1 DEF ParseLine
  <2>2. PICK rest \in Seq(Seq(STRING)) : rest = lines
    BY <2>1, ListsAreSequences
  <2>3. Len(Tail(rest)) = Len(rest) - 1 /\ Len(rest) \in Nat
    BY <1>1, <2>2, HeadTailProperties, LenProperties
  <2>4. ItemsLeft = Len(rest) /\ ItemsLeft' = Len(Tail(rest))
    BY <2>1, <2>2 DEF ItemsLeft
  <2>5. ItemsLeft' < ItemsLeft
    BY <2>3, <2>4
  <2> QED
    BY <2>1, <2>5, FewerItems
<1>2. CASE ParseLine /\ lines = <<>>
  BY <1>2, LaterStage DEF ParseLine
<1>3. CASE ParseSection
  <2>1. phase = "sections" /\ phase' = "sections" /\ sections' = Tail(sections) /\ sections # <<>>
    BY <1>3 DEF ParseSection
  <2>2. PICK rest : rest = sections
    OBVIOUS
  <2>3. rest \in Seq(ToSet(rest)) /\ rest # <<>>
    BY <2>1, <2>2, ListsAreSequences
  <2>4. Len(Tail(rest)) = Len(rest) - 1 /\ Len(rest) \in Nat
    BY <2>3, HeadTailProperties, LenProperties
  <2>5. ItemsLeft = Len(rest) /\ ItemsLeft' = Len(Tail(rest))
    BY <2>1, <2>2 DEF ItemsLeft
  <2>6. ItemsLeft' < ItemsLeft
    BY <2>4, <2>5
  <2> QED
    BY <2>1, <2>6, FewerItems
<1> QED
  BY <1>1, <1>2, <1>3

LEMMA DefaultsNearer ==
    ASSUME ConfigInv, Finite, ApplyDefault
    PROVE  Less
<1>1. PICK text \in DOMAIN config.defaults :
        config' = [config EXCEPT !.defaults = Restrict(@, DOMAIN @ \ {text})]
  BY Zenon DEF ApplyDefault
<1>2. phase = "defaults" /\ phase' \in {"defaults", "failed"}
  BY DEF ApplyDefault
<1>3. CASE phase' = "failed"
  BY <1>2, <1>3, LaterStage
<1>4. CASE phase' = "defaults"
  <2> DEFINE D == DOMAIN config.defaults
  <2>1. DOMAIN config'.defaults = D \ {text}
    BY <1>1 DEF Restrict, ConfigInv
  <2>2. Cardinality(D \ {text}) = Cardinality(D) - 1 /\ Cardinality(D) \in Nat
    <3> HIDE DEF D
    <3>1. IsFiniteSet(D) /\ text \in D
      BY DEF D, Finite
    <3> QED
      BY <3>1, FS_RemoveElement, FS_CardinalityType
  <2>3. ItemsLeft = Cardinality(D) /\ ItemsLeft' = Cardinality(D \ {text})
    BY <1>2, <1>4, <2>1 DEF ItemsLeft
  <2>4. ItemsLeft' < ItemsLeft
    <3> HIDE DEF D
    <3> QED
      BY <2>2, <2>3
  <2> QED
    BY <1>2, <1>4, <2>4, FewerItems
<1> QED
  BY <1>2, <1>3, <1>4

(* The builder, unless a full count makes its loop variable wrap.           *)
LEMMA NotFull ==
    ASSUME TypeOK, phase = "mapping", ~FullCount, FillingInv
    PROVE  /\ SignalCount \in Nat /\ SignalCount < ByteSize - 1 /\ sub \in 1 .. SignalCount + 1
<1>1. SignalCount \in Nat /\ SignalCount < ByteSize
  BY SignalCountType, Widths DEF Subs
<1>2. MapIndex \in MappingIndices
  <2>1. offset \in 0 .. Count /\ offset < Count /\ range \in {"receive", "transmit"}
    BY DEF TypeOK
  <2>2. MapStart(range) \in Nat
    BY Widths DEF MapStart, CommStart
  <2>3. MapIndex \in MapStart(range) .. MapStart(range) + Count - 1
    BY <2>1, <2>2, Widths DEF MapIndex
  <2> QED
    BY <2>1, <2>3, Zenon DEF MappingIndices
<1>3. ReadU64(dictionary, MapIndex, 0) # NoNumber
  BY DEF FillingInv
<1>4. SignalCount # ByteSize - 1
  BY <1>2, <1>3, Zenon DEF FullCount, SignalCount
<1>5. SignalCount < ByteSize - 1
  BY <1>1, <1>4, Widths
<1> QED
  BY <1>1, <1>5 DEF FillingInv

NearerStep == (phase = "mapping" /\ FullCount) \/ Less

LEMMA BuilderNearer ==
    ASSUME TypeOK, BuildInv, SkipPdo \/ BeginPdo \/ MapSignal \/ EndPdo \/ RangeDone
    PROVE  NearerStep
<1> DEFINE Ahead(r, o) == (IF r = "receive" THEN Count + 1 ELSE 0) + (Count - o)
<1>1. /\ Count \in Nat /\ ByteSize \in Nat /\ offset \in 0 .. Count
      /\ range \in {"receive", "transmit"} /\ phase \in {"build", "mapping"}
  BY Widths DEF TypeOK, SkipPdo, BeginPdo, MapSignal, EndPdo, RangeDone
<1>2. ItemsLeft = Ahead(range, offset)
  BY <1>1 DEF ItemsLeft
<1>3. phase' \in {"build", "mapping"} => ItemsLeft' = Ahead(range', offset')
  BY DEF ItemsLeft
<1>4. CASE SkipPdo \/ EndPdo
  <2>1. phase' = "build" /\ range' = range /\ offset' = offset + 1
    BY <1>4 DEF SkipPdo, EndPdo
  <2>2. ItemsLeft' < ItemsLeft
    BY <1>1, <1>2, <1>3, <2>1
  <2> QED
    BY <1>1, <2>1, <2>2, FewerItems DEF NearerStep
<1>5. CASE RangeDone
  <2>1. phase = "build" /\ offset = Count
    BY <1>5 DEF RangeDone
  <2>2. CASE range = "receive"
    <3>1. range' = "transmit" /\ offset' = 0 /\ phase' = "build"
      BY <1>5, <2>1, <2>2 DEF RangeDone
    <3>2. ItemsLeft' < ItemsLeft
      BY <1>1, <1>2, <1>3, <2>1, <2>2, <3>1
    <3> QED
      BY <2>1, <3>1, <3>2, FewerItems DEF NearerStep
  <2>3. CASE range # "receive"
    BY <1>5, <2>1, <2>3, LaterStage DEF RangeDone, NearerStep
  <2> QED
    BY <2>2, <2>3
<1>6. CASE BeginPdo \/ MapSignal
  <2>1. phase' = "mapping" /\ range' = range /\ offset' = offset /\ dictionary' = dictionary
    BY <1>6 DEF BeginPdo, MapSignal
  <2>2. StagesLeft' = StagesLeft /\ ItemsLeft' = ItemsLeft
    BY <1>1, <1>2, <1>3, <2>1 DEF StagesLeft
  <2>3. SignalCount' = SignalCount
    BY <2>1, Zenon DEF SignalCount, MapIndex
  <2>4. SignalCount \in Nat /\ SignalCount < ByteSize
    BY SignalCountType, Widths DEF Subs
  <2>5. CASE BeginPdo
    <3>1. sub' = 1 /\ phase = "build"
      BY <2>5 DEF BeginPdo
    <3>2. WordsLeft = ByteSize /\ WordsLeft' = SignalCount + 1 - 1
      BY <2>1, <2>3, <3>1 DEF WordsLeft
    <3>3. WordsLeft' < WordsLeft
      BY <1>1, <2>4, <3>2
    <3> QED
      BY <2>2, <3>3 DEF Less, NearerStep
  <2>6. CASE MapSignal /\ ~FullCount
    <3>1. phase = "mapping" /\ sub <= SignalCount /\ sub' = (sub + 1) % ByteSize
      BY <2>6 DEF MapSignal, NextSub
    <3>2. SignalCount < ByteSize - 1 /\ sub \in 1 .. SignalCount + 1
      BY <2>6, <3>1, NotFull DEF BuildInv
    <3>3. sub' = sub + 1
      BY <1>1, <2>4, <3>1, <3>2, SuccessorFits
    <3>4. WordsLeft = SignalCount + 1 - sub /\ WordsLeft' = SignalCount + 1 - (sub + 1)
      BY <2>1, <2>3, <3>1, <3>3 DEF WordsLeft
    <3>5. WordsLeft' < WordsLeft
      BY <2>4, <3>2, <3>4
    <3> QED
      BY <2>2, <3>5 DEF Less, NearerStep
  <2>7. CASE MapSignal /\ FullCount
    BY <2>7 DEF MapSignal, NearerStep
  <2> QED
    BY <1>6, <2>5, <2>6, <2>7
<1> QED
  BY <1>4, <1>5, <1>6

LEMMA Nearer ==
    ASSUME TypeOK, ConfigInv, CommandLineInv, ParsingInv, BuildInv, Finite, argv \in ArgLists, Next
    PROVE  NearerStep
<1>1. CASE PathOption \/ NodeIdOption \/ OtherOption \/ IgnoredWord
  BY <1>1, ArgsNearer DEF NearerStep
<1>2. CASE ParseLine \/ ParseSection
  BY <1>2, FilesNearer DEF NearerStep
<1>3. CASE ApplyDefault
  BY <1>3, DefaultsNearer DEF NearerStep
<1>4. CASE ArgsDone \/ LoadConfig \/ OpenEds \/ Parsed \/ DefaultsDone \/ ApplyRpdoOverrides \/ ApplyTpdoOverrides
  <2>1. \/ phase = "args"     /\ phase' \in {"config", "failed"}
        \/ phase = "config"   /\ phase' \in {"eds", "failed"}
        \/ phase = "eds"      /\ phase' \in {"lines", "failed"}
        \/ phase = "sections" /\ phase' \in {"defaults", "build"}
        \/ phase = "defaults" /\ phase' = "rpdo"
        \/ phase = "rpdo"     /\ phase' = "tpdo"
        \/ phase = "tpdo"     /\ phase' = "build"
    BY <1>4 DEF ArgsDone, LoadConfig, OpenEds, Parsed, DefaultsDone, ApplyRpdoOverrides, ApplyTpdoOverrides
  <2> QED
    BY <2>1, LaterStage DEF NearerStep
<1>5. CASE SkipPdo \/ BeginPdo \/ MapSignal \/ EndPdo \/ RangeDone
  BY <1>5, BuilderNearer DEF NearerStep
<1> QED
  BY <1>1, <1>2, <1>3, <1>4, <1>5 DEF Next

(* Every step of start-up, whatever the inputs, leaves less to do: a later  *)
(* stage, or fewer words, lines, sections, defaults or mapping objects, or  *)
(* fewer words of the object being read.  The only exception is a mapping   *)
(* loop when some object counts ByteSize - 1 entries.  All three amounts    *)
(* are natural numbers, so start-up cannot go on for ever without it.       *)
THEOREM StartupCountsDown == Spec => []CountsDown /\ [][NearerStep]_vars
<1>1. ASSUME TypeOK, ConfigInv, CommandLineInv, ParsingInv, BuildInv, Finite, argv \in ArgLists, [Next]_vars
      PROVE  [NearerStep]_vars
  BY <1>1, Nearer
<1> QED
  BY <1>1, CountsDownAlways, TypeCorrect, ConfigInvariant, CommandLineInvariant, ParsingInvariant,
     BuildInvariant, FiniteAlways, ArgvStays, PTL DEF Spec
=============================================================================
