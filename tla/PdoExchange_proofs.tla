-------------------------- MODULE PdoExchange_proofs --------------------------
(* Proofs about the data path, for any dictionary, any mapping of its        *)
(* entries, any number of senders and any received frames.                   *)
EXTENDS PdoExchange, Recursion, FiniteSetTheorems, SequenceTheorems

(* Division and remainder.                                                   *)
LEMMA DivisionOf ==
    ASSUME NEW n \in Int, NEW d \in Nat \ {0}
    PROVE  /\ n \div d \in Int /\ n % d \in 0 .. d - 1
           /\ n = d * (n \div d) + (n % d)
OBVIOUS

LEMMA DivisionIsUnique ==
    ASSUME NEW n \in Int, NEW d \in Nat \ {0}, NEW q \in Int, NEW r \in 0 .. d - 1,
           n = d * q + r
    PROVE  n \div d = q /\ n % d = r
OBVIOUS

LEMMA DivisionOfNat ==
    ASSUME NEW n \in Nat, NEW d \in Nat \ {0}
    PROVE  n \div d \in Nat
OBVIOUS

LEMMA DivisionOfSum ==
    ASSUME NEW n \in Nat, NEW d \in Nat \ {0}, NEW q \in Nat
    PROVE  /\ (n + d * q) \div d = (n \div d) + q
           /\ (n + d * q) % d = n % d
<1>1. n \div d \in Int /\ n % d \in 0 .. d - 1 /\ n = d * (n \div d) + (n % d)
  BY DivisionOf
<1> DEFINE k == n \div d
           r == n % d
<1>2. k \in Int /\ r \in 0 .. d - 1 /\ n = d * k + r
  BY <1>1
<1> HIDE DEF k, r
<1>3. n + d * q = d * (k + q) + r
  BY <1>2
<1>4. n + d * q \in Int /\ k + q \in Int
  BY <1>2
<1>5. (n + d * q) \div d = k + q /\ (n + d * q) % d = r
  BY <1>2, <1>3, <1>4, DivisionIsUnique
<1> QED
  BY <1>5 DEF k, r

LEMMA DigitFits ==
    ASSUME NEW p \in Nat, NEW base \in Nat, NEW digit \in Nat, digit <= base - 1,
           NEW n \in Nat, n < p
    PROVE  n + p * digit < base * p
<1>1. p * digit <= p * (base - 1)
  OBVIOUS
<1>2. p * (base - 1) = base * p - p
  OBVIOUS
<1> QED
  BY <1>1, <1>2

LEMMA ByteBaseType == ByteBase \in Nat \ {0, 1} /\ Bytes = 0 .. ByteBase - 1
BY PdoAssumption DEF Bytes

LEMMA ByteType ==
    ASSUME NEW bs \in Seq(Bytes), NEW i \in 1 .. Len(bs)
    PROVE  bs[i] \in 0 .. ByteBase - 1 /\ bs[i] \in Nat
<1>1. bs[i] \in Bytes
  OBVIOUS
<1> QED
  BY <1>1, ByteBaseType

(* The powers of the byte base.                                              *)
LEMMA PowerUnfolds ==
    /\ Power \in [Nat -> Nat \ {0}] /\ Power[0] = 1
    /\ \A e \in Nat : Power[e + 1] = ByteBase * Power[e]
<1> DEFINE S == Nat \ {0}
           step == [e \in Nat \ {0} |-> [x \in S |-> ByteBase * x]]
<1>1. step \in [Nat \ {0} -> [S -> S]] /\ 1 \in S
  BY PdoAssumption
<1>2. PICK f \in [Nat -> S] : \A n \in Nat : Recurs(f, 1, step, n)
  <2> HIDE DEF step, S
  <2> QED
    BY <1>1, RecursiveFunctionOnNatExists
<1>3. f[0] = 1
  BY <1>2 DEF Recurs
<1>4. ASSUME NEW e \in Nat \ {0} PROVE f[e] = ByteBase * f[e - 1]
  <2>1. e \in 1 .. e /\ f[e - 1] \in S
    OBVIOUS
  <2>2. f[e] = step[e][f[e - 1]]
    BY <1>2, <2>1 DEF Recurs
  <2> QED
    BY <2>1, <2>2
<1>5. f = [e \in Nat |-> IF e = 0 THEN 1 ELSE ByteBase * f[e - 1]]
  BY <1>3, <1>4
<1>6. Power = [e \in Nat |-> IF e = 0 THEN 1 ELSE ByteBase * Power[e - 1]]
  BY <1>5, Zenon DEF Power
<1>7. Power[0] = 1 /\ \A e \in Nat : Power[e + 1] = ByteBase * Power[e]
  <2>1. ASSUME NEW e \in Nat PROVE Power[e + 1] = ByteBase * Power[e]
    <3>1. e + 1 \in Nat /\ e + 1 # 0 /\ (e + 1) - 1 = e
      OBVIOUS
    <3>2. Power[e + 1] = ByteBase * Power[(e + 1) - 1]
      BY <1>6, <3>1
    <3> QED
      BY <3>1, <3>2
  <2>2. Power[0] = 1
    BY <1>6
  <2> QED
    BY <2>1, <2>2
<1> DEFINE T == {e \in Nat : Power[e] \in Nat \ {0}}
<1>8. Nat \subseteq T
  <2>1. ASSUME NEW e \in Nat, e \in T PROVE e + 1 \in T
    <3>1. ByteBase \in Nat \ {0} /\ Power[e] \in Nat \ {0}
      BY <2>1, PdoAssumption
    <3>2. ByteBase * Power[e] \in Nat \ {0}
      BY <3>1
    <3> QED
      BY <1>7, <3>2
  <2>2. 0 \in T
    BY <1>7
  <2> HIDE DEF T
  <2> QED
    BY <2>1, <2>2, SetInduction
<1> QED
  BY <1>6, <1>7, <1>8

(* Shifting by i bytes and then by j is shifting by i + j.                   *)
LEMMA PowerOfSum ==
    ASSUME NEW i \in Nat, NEW j \in Nat
    PROVE  Power[i + j] = Power[i] * Power[j]
<1> DEFINE T == {k \in Nat : Power[i + k] = Power[i] * Power[k]}
<1> USE PowerUnfolds
<1>1. 0 \in T
  <2>1. i + 0 = i /\ Power[i] \in Nat
    OBVIOUS
  <2> QED
    BY <2>1
<1>2. ASSUME NEW k \in Nat, k \in T PROVE k + 1 \in T
  <2>1. i + (k + 1) = (i + k) + 1 /\ i + k \in Nat
    OBVIOUS
  <2>2. Power[i + (k + 1)] = ByteBase * (Power[i] * Power[k])
    BY <1>2, <2>1
  <2>3. Power[k + 1] = ByteBase * Power[k]
    OBVIOUS
  <2>4. Power[i] \in Nat /\ Power[k] \in Nat /\ ByteBase \in Nat
    BY PdoAssumption
  <2>5. ByteBase * (Power[i] * Power[k]) = Power[i] * (ByteBase * Power[k])
    BY <2>4
  <2> QED
    BY <2>2, <2>3, <2>5
<1>3. Nat \subseteq T
  <2> HIDE DEF T
  <2> QED
    BY <1>1, <1>2, SetInduction
<1> QED
  BY <1>3

-----------------------------------------------------------------------------
(* Bytes and numbers.                                                        *)

(* Encoding gives as many bytes as it is asked for.                          *)
LEMMA ToBytesIsBytes ==
    ASSUME NEW n \in Int, NEW width \in Nat
    PROVE  /\ ToBytes(n, width) \in Seq(Bytes) /\ Len(ToBytes(n, width)) = width
           /\ \A i \in 1 .. width : ToBytes(n, width)[i] = (n \div Power[i - 1]) % ByteBase
<1>1. ASSUME NEW i \in 1 .. width PROVE (n \div Power[i - 1]) % ByteBase \in Bytes
  <2>1. i - 1 \in Nat /\ ByteBase \in Nat \ {0}
    BY PdoAssumption
  <2>2. Power[i - 1] \in Nat \ {0}
    BY <2>1, PowerUnfolds
  <2> QED
    <3>1. n \div Power[i - 1] \in Int
      BY <2>2, DivisionOf
    <3> QED
      BY <2>1, <3>1, DivisionOf DEF Bytes
<1>2. ToBytes(n, width) \in [1 .. width -> Bytes]
  BY <1>1 DEF ToBytes
<1>3. ToBytes(n, width) \in Seq(Bytes) /\ Len(ToBytes(n, width)) = width
  BY <1>2
<1> QED
  BY <1>3 DEF ToBytes

(* Decoding adds byte after byte, each shifted by its place.                 *)
LEMMA PartialSumsUnfold ==
    ASSUME NEW bs \in Seq(Bytes)
    PROVE  /\ PartialSums(bs) \in [0 .. Len(bs) -> Nat] /\ PartialSums(bs)[0] = 0
           /\ \A i \in 1 .. Len(bs) :
                PartialSums(bs)[i] = PartialSums(bs)[i - 1] + Power[i - 1] * bs[i]
<1> DEFINE n == Len(bs)
           step == [i \in 1 .. n |-> [x \in Nat |-> x + bs[i] * Power[i - 1]]]
<1>1. ASSUME NEW i \in 1 .. n
      PROVE  /\ bs[i] \in Nat /\ Power[i - 1] \in Nat /\ bs[i] * Power[i - 1] \in Nat
             /\ bs[i] * Power[i - 1] = Power[i - 1] * bs[i]
  <2>1. i - 1 \in Nat /\ bs[i] \in Nat
    BY PdoAssumption DEF Bytes
  <2>2. Power[i - 1] \in Nat
    BY <2>1, PowerUnfolds
  <2> QED
    BY <2>1, <2>2
<1>2. step \in [1 .. n -> [Nat -> Nat]] /\ 0 \in Nat /\ n \in Nat
  BY <1>1
<1>3. PICK f \in [0 .. n -> Nat] : Recurs(f, 0, step, n)
  <2> HIDE DEF step
  <2> QED
    BY <1>2, RecursiveFunctionExists
<1>4. f[0] = 0
  BY <1>3 DEF Recurs
<1>5. ASSUME NEW i \in 1 .. n PROVE f[i] = f[i - 1] + bs[i] * Power[i - 1]
  <2>1. f[i] = step[i][f[i - 1]]
    <3> HIDE DEF step
    <3> QED
      BY <1>3 DEF Recurs
  <2>2. f[i - 1] \in Nat
    OBVIOUS
  <2> QED
    BY <2>1, <2>2
<1>6. f = [i \in 0 .. n |-> IF i = 0 THEN 0 ELSE f[i - 1] + bs[i] * Power[i - 1]]
  BY <1>4, <1>5
<1> DEFINE IsSum(g) == g = [i \in 0 .. n |-> IF i = 0 THEN 0 ELSE g[i - 1] + bs[i] * Power[i - 1]]
           sum == PartialSums(bs)
<1>7. IsSum(sum)
  BY <1>6, Zenon DEF PartialSums
<1>8. sum[0] = 0 /\ \A i \in 1 .. n : sum[i] = sum[i - 1] + bs[i] * Power[i - 1]
  BY <1>7
<1>9. \A i \in 0 .. n : sum[i] \in Nat
  <2>1. ASSUME NEW i \in 1 .. n, sum[i - 1] \in Nat PROVE sum[i] \in Nat
    BY <1>1, <1>8, <2>1
  <2> HIDE DEF sum
  <2> QED
    BY <1>2, <1>8, <2>1, ValuesStayIn
<1>10. sum \in [0 .. n -> Nat]
  BY <1>7, <1>9
<1> QED
  BY <1>1, <1>8, <1>10

(* raw after i bytes is less than one shifted by i bytes.                    *)
LEMMA PartialSumsBound ==
    ASSUME NEW bs \in Seq(Bytes)
    PROVE  \A i \in 0 .. Len(bs) : PartialSums(bs)[i] < Power[i]
<1> DEFINE n == Len(bs)
           sum == PartialSums(bs)
<1>1. /\ sum \in [0 .. n -> Nat] /\ sum[0] = 0
      /\ \A i \in 1 .. n : sum[i] = sum[i - 1] + Power[i - 1] * bs[i]
  BY PartialSumsUnfold
<1> HIDE DEF sum
<1>2. ASSUME NEW i \in 1 .. n, sum[i - 1] < Power[i - 1] PROVE sum[i] < Power[i]
  <2>1. i - 1 \in Nat /\ (i - 1) + 1 = i /\ i - 1 \in 0 .. n
    OBVIOUS
  <2>2. Power[i] = ByteBase * Power[i - 1] /\ Power[i - 1] \in Nat
    BY <2>1, PowerUnfolds
  <2>3. bs[i] \in Nat /\ bs[i] <= ByteBase - 1 /\ ByteBase \in Nat
    BY PdoAssumption DEF Bytes
  <2>4. sum[i - 1] \in Nat /\ sum[i] = sum[i - 1] + Power[i - 1] * bs[i]
    BY <1>1, <2>1
  <2> QED
    BY <1>2, <2>2, <2>3, <2>4, DigitFits
<1> DEFINE T == {i \in Nat : i <= n => sum[i] < Power[i]}
<1>3. 0 \in T
  BY <1>1, PowerUnfolds
<1>4. ASSUME NEW i \in Nat, i \in T PROVE i + 1 \in T
  <2>1. (i + 1) - 1 = i
    OBVIOUS
  <2> QED
    BY <1>2, <1>4, <2>1
<1>5. Nat \subseteq T
  <2> HIDE DEF T
  <2> QED
    BY <1>3, <1>4, SetInduction
<1> QED
  BY <1>5 DEF sum

(* Taking out of a number the byte at place i.                               *)
LEMMA ByteAt ==
    ASSUME NEW bs \in Seq(Bytes), NEW i \in 1 .. Len(bs)
    PROVE  \A k \in i .. Len(bs) :
             (PartialSums(bs)[k] \div Power[i - 1]) % ByteBase = bs[i]
<1> DEFINE n == Len(bs)
           sum == PartialSums(bs)
           p == Power[i - 1]
           T == {k \in Nat : k \in i .. n => (sum[k] \div p) % ByteBase = bs[i]}
<1>1. /\ sum \in [0 .. n -> Nat]
      /\ \A k \in 1 .. n : sum[k] = sum[k - 1] + Power[k - 1] * bs[k]
      /\ \A k \in 0 .. n : sum[k] < Power[k]
  BY PartialSumsUnfold, PartialSumsBound
<1> HIDE DEF sum
<1>2. i - 1 \in Nat /\ i \in Nat /\ p \in Nat \ {0} /\ ByteBase \in Nat \ {0, 1}
  <2>1. i - 1 \in Nat /\ i \in Nat
    OBVIOUS
  <2>2. p \in Nat \ {0}
    BY <2>1, PowerUnfolds
  <2> QED
    BY <2>1, <2>2, ByteBaseType
<1>3. (sum[i] \div p) % ByteBase = bs[i]
  <2>1. bs[i] \in 0 .. ByteBase - 1
    BY ByteType
  <2>2. i - 1 \in 0 .. n /\ sum[i - 1] \in 0 .. p - 1
    BY <1>1, <1>2
  <2>3. sum[i] = p * bs[i] + sum[i - 1] /\ sum[i] \in Int
    <3>1. sum[i] = sum[i - 1] + p * bs[i]
      BY <1>1
    <3>2. p * bs[i] \in Int
      BY <1>2, <2>1
    <3> QED
      BY <3>1, <3>2, <2>2
  <2>4. sum[i] \div p = bs[i]
    <3> HIDE DEF p
    <3>1. bs[i] \in Int
      BY <2>1
    <3> QED
      BY <1>2, <2>2, <2>3, <3>1, DivisionIsUnique
  <2>5. bs[i] = ByteBase * 0 + bs[i]
    BY <1>2, <2>1
  <2>6. bs[i] % ByteBase = bs[i]
    BY <1>2, <2>1, <2>5, DivisionIsUnique
  <2> QED
    BY <2>4, <2>6
<1>4. ASSUME NEW k \in Nat, k \in T PROVE k + 1 \in T
  <2> SUFFICES ASSUME k + 1 \in i .. n PROVE (sum[k + 1] \div p) % ByteBase = bs[i]
    OBVIOUS
  <2>1. CASE k + 1 = i
    BY <1>3, <2>1
  <2>2. CASE k + 1 # i
    <3>1. k \in i .. n /\ k \in 0 .. n /\ (k + 1) - 1 = k /\ k + 1 \in 1 .. n
      BY <1>2, <2>2
    <3>2. (sum[k] \div p) % ByteBase = bs[i]
      BY <1>4, <3>1
    <3> DEFINE q == Power[k - i]
               b == bs[k + 1]
    <3>3. k - i \in Nat /\ q \in Nat /\ b \in Nat /\ sum[k] \in Nat
      <4>1. k - i \in Nat /\ sum[k] \in Nat
        BY <1>1, <3>1
      <4>2. q \in Nat
        BY <4>1, PowerUnfolds
      <4> QED
        BY <4>1, <4>2, <3>1, ByteType
    <3>4. Power[k] = p * (ByteBase * q)
      <4>1. k = (i - 1) + ((k - i) + 1) /\ (k - i) + 1 \in Nat
        BY <3>1, <3>3, <1>2
      <4>2. Power[k] = p * Power[(k - i) + 1]
        BY <4>1, <1>2, PowerOfSum
      <4>3. Power[(k - i) + 1] = ByteBase * q
        BY <3>3, PowerUnfolds
      <4> QED
        BY <4>2, <4>3
    <3>5. sum[k + 1] = sum[k] + p * (ByteBase * (q * b))
      <4>1. sum[k + 1] = sum[k] + Power[k] * b
        BY <1>1, <3>1
      <4> HIDE DEF q, b, p
      <4>2. (p * (ByteBase * q)) * b = p * (ByteBase * (q * b))
        BY <3>3, <1>2
      <4> QED
        BY <4>1, <4>2, <3>4
    <3> HIDE DEF q, b, p
    <3>6. q * b \in Nat /\ ByteBase * (q * b) \in Nat
      BY <3>3, <1>2
    <3>7. sum[k + 1] \div p = (sum[k] \div p) + ByteBase * (q * b)
      <4> (sum[k] + p * (ByteBase * (q * b))) \div p = (sum[k] \div p) + ByteBase * (q * b)
        BY <3>3, <3>6, <1>2, DivisionOfSum
      <4> QED
        BY <3>5
    <3>8. sum[k] \div p \in Nat
      BY <3>3, <1>2, DivisionOfNat
    <3>9. ((sum[k] \div p) + ByteBase * (q * b)) % ByteBase = (sum[k] \div p) % ByteBase
      <4> DEFINE u == sum[k] \div p
                 v == q * b
      <4>1. u \in Nat /\ v \in Nat /\ ByteBase \in Nat \ {0}
        BY <3>6, <3>8, <1>2
      <4> HIDE DEF u, v
      <4>2. (u + ByteBase * v) % ByteBase = u % ByteBase
        BY <4>1, DivisionOfSum
      <4> QED
        BY <4>2 DEF u, v
    <3> QED
      BY <3>2, <3>7, <3>9
  <2> QED
    BY <2>1, <2>2
<1>5. 0 \in T
  OBVIOUS
<1>6. Nat \subseteq T
  <2> HIDE DEF T
  <2> QED
    BY <1>4, <1>5, SetInduction
<1> QED
  BY <1>2, <1>6 DEF sum

(* What DecodePdoPayload makes of some bytes, EncodePdoPayload turns back    *)
(* into them.                                                                *)
THEOREM RoundTrip ==
    ASSUME NEW bs \in Seq(Bytes)
    PROVE  FromBytes(bs) \in Nat /\ ToBytes(FromBytes(bs), Len(bs)) = bs
<1> DEFINE n == Len(bs)
           raw == FromBytes(bs)
<1>1. raw \in Nat /\ n \in Nat
  BY PartialSumsUnfold DEF FromBytes
<1>2. ASSUME NEW i \in 1 .. n PROVE (raw \div Power[i - 1]) % ByteBase = bs[i]
  BY ByteAt DEF FromBytes
<1> HIDE DEF raw
<1>3. ToBytes(raw, n) \in Seq(Bytes) /\ Len(ToBytes(raw, n)) = n
  BY <1>1, ToBytesIsBytes
<1>4. ASSUME NEW i \in 1 .. n PROVE ToBytes(raw, n)[i] = bs[i]
  <2>1. ToBytes(raw, n)[i] = (raw \div Power[i - 1]) % ByteBase
    BY DEF ToBytes
  <2> QED
    BY <1>2, <2>1
<1>5. ToBytes(raw, n) = bs
  BY <1>3, <1>4
<1> QED
  BY <1>1, <1>5 DEF raw

-----------------------------------------------------------------------------
(* Mappings: the cursor's place in the payload, and the payload itself.      *)

LEMMA MappingType ==
    ASSUME NEW p \in Pdos
    PROVE  /\ Len(Mapping(p)) \in Nat
           /\ \A o \in 1 .. Len(Mapping(p)) : Width(Mapping(p)[o]) \in Nat
<1> DEFINE m == Mapping(p)
<1>1. m \in Seq({m[o] : o \in DOMAIN m}) /\ \A o \in DOMAIN m : m[o].bits \in Nat
  BY PdoAssumption
<1>2. Len(m) \in Nat /\ DOMAIN m = 1 .. Len(m)
  <2> HIDE DEF m
  <2> QED
    BY <1>1, LenProperties
<1> HIDE DEF m
<1>3. ASSUME NEW o \in 1 .. Len(m) PROVE Width(m[o]) \in Nat
  BY <1>1, <1>2, <1>3 DEF Width
<1> QED
  BY <1>2, <1>3 DEF m

LEMMA OffsetsUnfold ==
    ASSUME NEW p \in Pdos
    PROVE  /\ Offsets(p) \in [0 .. Len(Mapping(p)) -> Nat] /\ Offsets(p)[0] = 0
           /\ \A o \in 1 .. Len(Mapping(p)) :
                Offsets(p)[o] = Offsets(p)[o - 1] + Width(Mapping(p)[o])
<1> DEFINE n == Len(Mapping(p))
           W(o) == Width(Mapping(p)[o])
           step == [o \in 1 .. n |-> [x \in Nat |-> x + W(o)]]
           total == Offsets(p)
<1>1. n \in Nat /\ \A o \in 1 .. n : W(o) \in Nat
  BY MappingType
<1> HIDE DEF W, n
<1>2. step \in [1 .. n -> [Nat -> Nat]] /\ 0 \in Nat
  BY <1>1
<1>3. PICK f \in [0 .. n -> Nat] : Recurs(f, 0, step, n)
  <2> HIDE DEF step
  <2> QED
    BY <1>1, <1>2, RecursiveFunctionExists
<1>4. ASSUME NEW o \in 1 .. n PROVE f[o] = f[o - 1] + W(o)
  <2>1. f[o] = step[o][f[o - 1]]
    <3> HIDE DEF step
    <3> QED
      BY <1>3 DEF Recurs
  <2>2. f[o - 1] \in Nat
    BY <1>1
  <2> QED
    BY <2>1, <2>2
<1>5. f = [o \in 0 .. n |-> IF o = 0 THEN 0 ELSE f[o - 1] + W(o)]
  BY <1>3, <1>4 DEF Recurs
<1>6. total = [o \in 0 .. n |-> IF o = 0 THEN 0 ELSE total[o - 1] + W(o)]
  BY <1>5, Zenon DEF Offsets, W, n
<1> HIDE DEF total
<1>7. total[0] = 0 /\ \A o \in 1 .. n : total[o] = total[o - 1] + W(o)
  BY <1>1, <1>6
<1>8. \A o \in 0 .. n : total[o] \in Nat
  <2>1. ASSUME NEW o \in 1 .. n, total[o - 1] \in Nat PROVE total[o] \in Nat
    BY <1>1, <1>7, <2>1
  <2>2. total[0] \in Nat /\ n \in Nat
    BY <1>1, <1>7
  <2> QED
    BY <2>1, <2>2, ValuesStayIn
<1>9. total \in [0 .. n -> Nat]
  BY <1>6, <1>8
<1> QED
  BY <1>7, <1>9 DEF total, W, n

LEMMA EncodingsUnfold ==
    ASSUME NEW p \in Pdos, NEW values,
           \A o \in 1 .. Len(Mapping(p)) : values[o].n \in Int
    PROVE  /\ Encodings(p, values)[0] = <<>>
           /\ \A o \in 1 .. Len(Mapping(p)) :
                Encodings(p, values)[o] =
                    Encodings(p, values)[o - 1] \o ToBytes(values[o].n, Width(Mapping(p)[o]))
<1> DEFINE n == Len(Mapping(p))
           B(o) == ToBytes(values[o].n, Width(Mapping(p)[o]))
           step == [o \in 1 .. n |-> [x \in Seq(Bytes) |-> x \o B(o)]]
           cat == Encodings(p, values)
<1>1. n \in Nat /\ \A o \in 1 .. n : B(o) \in Seq(Bytes)
  BY MappingType, ToBytesIsBytes
<1> HIDE DEF B, n
<1>2. step \in [1 .. n -> [Seq(Bytes) -> Seq(Bytes)]] /\ <<>> \in Seq(Bytes)
  BY <1>1, ConcatProperties
<1>3. PICK f \in [0 .. n -> Seq(Bytes)] : Recurs(f, <<>>, step, n)
  <2> HIDE DEF step
  <2> QED
    BY <1>1, <1>2, RecursiveFunctionExists
<1>4. ASSUME NEW o \in 1 .. n PROVE f[o] = f[o - 1] \o B(o)
  <2>1. f[o] = step[o][f[o - 1]]
    <3> HIDE DEF step
    <3> QED
      BY <1>3 DEF Recurs
  <2>2. f[o - 1] \in Seq(Bytes)
    BY <1>1
  <2> QED
    BY <2>1, <2>2
<1>5. f = [o \in 0 .. n |-> IF o = 0 THEN <<>> ELSE f[o - 1] \o B(o)]
  BY <1>3, <1>4 DEF Recurs
<1>6. cat = [o \in 0 .. n |-> IF o = 0 THEN <<>> ELSE cat[o - 1] \o B(o)]
  BY <1>5, Zenon DEF Encodings, B, n
<1> HIDE DEF cat
<1>7. cat[0] = <<>> /\ \A o \in 1 .. n : cat[o] = cat[o - 1] \o B(o)
  <2>1. n \in Nat
    BY <1>1
  <2>2. ASSUME NEW o \in 1 .. n PROVE cat[o] = cat[o - 1] \o B(o)
    <3>1. o \in 0 .. n /\ o # 0
      BY <2>1
    <3> QED
      BY <1>6, <3>1, Zenon
  <2>3. cat[0] = <<>>
    <3>1. 0 \in 0 .. n
      BY <2>1
    <3> QED
      BY <1>6, <3>1, Zenon
  <2> QED
    BY <2>2, <2>3
<1> QED
  BY <1>7 DEF cat, B, n

(* The rest of a frame is cut into a signal's bytes and the rest after it.   *)
LEMMA RestOfFrame ==
    ASSUME NEW f \in Seq(Bytes), NEW b \in 0 .. Len(f), NEW w \in 0 .. Len(f) - b
    PROVE  LET rest == SubSeq(f, b + 1, Len(f))
           IN  /\ rest \in Seq(Bytes) /\ Len(rest) = Len(f) - b
               /\ SubSeq(rest, 1, w) = SubSeq(f, b + 1, b + w)
               /\ SubSeq(rest, 1, w) \in Seq(Bytes) /\ Len(SubSeq(rest, 1, w)) = w
               /\ SubSeq(rest, w + 1, Len(rest)) = SubSeq(f, b + w + 1, Len(f))
<1> DEFINE rest == SubSeq(f, b + 1, Len(f))
<1>1. Len(f) \in Nat /\ \A i \in 1 .. Len(f) : f[i] \in Bytes
  OBVIOUS
<1>2. /\ rest \in Seq(Bytes) /\ Len(rest) = Len(f) - b
      /\ \A i \in 1 .. Len(f) - b : rest[i] = f[b + i]
  BY <1>1, SubSeqProperties
<1> HIDE DEF rest
<1>3. /\ SubSeq(rest, 1, w) \in Seq(Bytes) /\ Len(SubSeq(rest, 1, w)) = w
      /\ \A i \in 1 .. w : SubSeq(rest, 1, w)[i] = f[b + i]
  BY <1>1, <1>2, SubSeqProperties
<1>4. /\ SubSeq(f, b + 1, b + w) \in Seq(Bytes) /\ Len(SubSeq(f, b + 1, b + w)) = w
      /\ \A i \in 1 .. w : SubSeq(f, b + 1, b + w)[i] = f[b + i]
  BY <1>1, SubSeqProperties
<1>5. SubSeq(rest, 1, w) = SubSeq(f, b + 1, b + w)
  BY <1>3, <1>4, SeqEqual
<1> DEFINE u == SubSeq(rest, w + 1, Len(rest))
           v == SubSeq(f, b + w + 1, Len(f))
           k == Len(f) - b - w
<1>6. u \in Seq(Bytes) /\ Len(u) = k /\ \A i \in 1 .. k : u[i] = f[b + w + i]
  <2>1. /\ Len(rest) \in Nat /\ w + 1 \in Int /\ Len(rest) - (w + 1) + 1 = k
        /\ \A i \in w + 1 .. Len(rest) : rest[i] \in Bytes
    BY <1>1, <1>2
  <2>2. /\ u \in Seq(Bytes) /\ Len(u) = IF w + 1 <= Len(rest) THEN k ELSE 0
        /\ \A i \in 1 .. k : u[i] = rest[(w + 1) + i - 1]
    BY <2>1, SubSeqProperties
  <2>3. ASSUME NEW i \in 1 .. k PROVE u[i] = f[b + w + i]
    <3>1. (w + 1) + i - 1 = w + i /\ w + i \in 1 .. Len(f) - b /\ b + (w + i) = b + w + i
      BY <1>1
    <3> HIDE DEF u
    <3> QED
      BY <1>2, <2>2, <3>1
  <2>4. Len(u) = k
    <3>1. Len(rest) = w + k /\ w \in Nat /\ k \in Nat
      BY <1>1, <1>2
    <3> HIDE DEF u, k
    <3> QED
      BY <2>2, <3>1
  <2> QED
    BY <2>2, <2>3, <2>4
<1>7. v \in Seq(Bytes) /\ Len(v) = k /\ \A i \in 1 .. k : v[i] = f[b + w + i]
  BY <1>1, SubSeqProperties
<1>8. u = v
  <2> HIDE DEF u, v
  <2> QED
    BY <1>6, <1>7, SeqEqual
<1> QED
  BY <1>2, <1>3, <1>5, <1>8 DEF rest

-----------------------------------------------------------------------------
(* Types.                                                                    *)

(* Whatever a text is parsed into fits the type it was parsed for.           *)
LEMMA ParsedFits ==
    ASSUME NEW k \in Entries, NEW v \in Parsed(TypeOf[k])
    PROVE  v \in [alt : Alternatives, n : Int] /\ Compatible(TypeOf[k], v)
<1> DEFINE type == TypeOf[k]
<1>1. type \in {"bool", "int", "uint", "real", "text", "unknown"} /\ Texts \subseteq Int
  BY PdoAssumption
<1> HIDE DEF type
<1>2. CASE type = "bool"
  <2>1. v \in {[alt |-> "bool", n |-> b] : b \in Texts \cap {0, 1}}
    BY <1>2, Zenon DEF Parsed, type
  <2> QED
    BY <1>1, <1>2, <2>1 DEF Alternatives, Compatible, type
<1>3. CASE type = "uint"
  <2>1. v \in {[alt |-> "uint", n |-> u % WordRange] : u \in Texts}
    BY <1>3 DEF Parsed, type
  <2>2. PICK u \in Texts : v = [alt |-> "uint", n |-> u % WordRange]
    BY <2>1
  <2>3. WordRange \in Nat \ {0}
    BY PowerUnfolds DEF WordRange
  <2>4. u % WordRange \in Int
    BY <1>1, <2>3, DivisionOf
  <2> QED
    BY <1>3, <2>2, <2>4 DEF Alternatives, Compatible, type
<1>4. CASE type = "unknown"
  <2>1. v = [alt |-> "text", n |-> 0]
    BY <1>4 DEF Parsed, type
  <2> QED
    BY <1>4, <2>1 DEF Alternatives, Compatible, type
<1>5. CASE type \in {"real", "text"}
  <2>1. v = [alt |-> type, n |-> 0]
    BY <1>5 DEF Parsed, type
  <2> QED
    BY <1>5, <2>1 DEF Alternatives, Compatible, type
<1>6. CASE type = "int"
  <2>1. v \in {[alt |-> "int", n |-> i] : i \in Texts}
    BY <1>6 DEF Parsed, type
  <2> QED
    BY <1>1, <1>6, <2>1 DEF Alternatives, Compatible, type
<1> QED
  BY <1>1, <1>2, <1>3, <1>4, <1>5, <1>6

(* A signal that is not refused lies in the payload and may be written.      *)
LEMMA AcceptedSignal ==
    ASSUME NEW t, Refusal(t) = "ok"
    PROVE  /\ ~(Width(Signal(t)) > Len(bytes[t]))
           /\ Signal(t).key \in Entries /\ Writable(Signal(t).key)
           /\ Compatible(TypeOf[Signal(t).key], RawValue(t))
BY Zenon DEF Refusal

(* The signal a thread is at, and the bytes it takes from a frame.           *)
LEMMA SignalType ==
    ASSUME TypeOK, NEW t \in Threads, pc[t] \in {"decode", "encode"}
    PROVE  /\ pdo[t] \in Pdos /\ Len(Mapping(pdo[t])) \in Nat
           /\ ordinal[t] \in 1 .. Len(Mapping(pdo[t])) + 1
           /\ HasSignal(t) =>
                ordinal[t] \in 1 .. Len(Mapping(pdo[t])) /\ Width(Signal(t)) \in Nat
<1>1. pdo[t] \in Pdos /\ ordinal[t] \in Nat \ {0} /\ ordinal[t] <= Len(Mapping(pdo[t])) + 1
  BY DEF TypeOK
<1>2. /\ Len(Mapping(pdo[t])) \in Nat
      /\ \A o \in 1 .. Len(Mapping(pdo[t])) : Width(Mapping(pdo[t])[o]) \in Nat
  BY <1>1, MappingType
<1> QED
  BY <1>1, <1>2 DEF HasSignal, Signal

LEMMA TakenBytes ==
    ASSUME TypeOK, pc["rx"] = "decode", HasSignal("rx"), Refusal("rx") = "ok"
    PROVE  LET bs == bytes["rx"]
               w  == Width(Signal("rx"))
           IN  /\ bs \in Seq(Bytes) /\ w \in 0 .. Len(bs)
               /\ Raw("rx") \in Nat /\ ToBytes(Raw("rx"), w) = SubSeq(bs, 1, w)
               /\ SubSeq(bs, w + 1, Len(bs)) \in Seq(Bytes)
<1> DEFINE bs == bytes["rx"]
           w  == Width(Signal("rx"))
<1>1. "rx" \in Threads
  BY DEF Threads
<1>2. bs \in Seq(Bytes)
  BY <1>1 DEF TypeOK
<1>3. w \in Nat
  BY <1>1, SignalType
<1>4. w \in 0 .. Len(bs)
  BY <1>2, <1>3, AcceptedSignal
<1>5. Raw("rx") = FromBytes(SubSeq(bs, 1, w))
  BY DEF Raw
<1> HIDE DEF bs, w
<1>6. SubSeq(bs, 1, w) \in Seq(Bytes) /\ Len(SubSeq(bs, 1, w)) = w
  BY <1>2, <1>4
<1>7. SubSeq(bs, w + 1, Len(bs)) \in Seq(Bytes)
  BY <1>2, <1>4
<1>8. Raw("rx") \in Nat /\ ToBytes(Raw("rx"), w) = SubSeq(bs, 1, w)
  BY <1>5, <1>6, RoundTrip
<1> QED
  BY <1>2, <1>4, <1>7, <1>8 DEF bs, w

(* What a write keeps: the types of the values, of everything else nothing   *)
(* but the histories changes.                                                *)
LEMMA StoreTypes ==
    ASSUME TypeOK, NEW k \in Entries, NEW v \in [alt : Alternatives, n : Int],
           Compatible(TypeOf[k], v), Store(k, v)
    PROVE  /\ od' \in [Entries -> [alt : Alternatives, n : Int]]
           /\ \A e \in Entries : FitsOrOverridden(e, od'[e])
           /\ DOMAIN snaps' = Threads
<1>1. od' = [od EXCEPT ![k] = v] /\ od \in [Entries -> [alt : Alternatives, n : Int]]
  BY DEF Store, TypeOK
<1>2. ASSUME NEW e \in Entries PROVE FitsOrOverridden(e, od'[e])
  <2>1. CASE e = k
    BY <1>1, <2>1 DEF FitsOrOverridden
  <2>2. CASE e # k
    BY <1>1, <2>2 DEF TypeOK
  <2> QED
    BY <2>1, <2>2
<1>3. DOMAIN snaps' = Threads
  BY DEF Store
<1> QED
  BY <1>1, <1>2, <1>3

LEMMA InitialTypes == Init => TypeOK
<1> SUFFICES ASSUME Init PROVE TypeOK
  OBVIOUS
<1>1. ASSUME NEW k \in Entries
      PROVE od[k] \in [alt : Alternatives, n : Int] /\ FitsOrOverridden(k, od[k])
  <2>1. od[k] \in InitialValues(k)
    BY DEF Init
  <2>2. CASE od[k] = NoValue
    BY <2>2 DEF NoValue, Alternatives, Compatible, FitsOrOverridden
  <2>3. CASE od[k] \in Parsed(TypeOf[k])
    BY <2>3, ParsedFits DEF FitsOrOverridden
  <2>4. CASE od[k] \in Parsed("uint")
    <3>1. od[k] \in {[alt |-> "uint", n |-> u % WordRange] : u \in Texts}
      BY <2>4 DEF Parsed
    <3>2. PICK u \in Texts : od[k] = [alt |-> "uint", n |-> u % WordRange]
      BY <3>1
    <3>3. WordRange \in Nat \ {0} /\ u \in Int
      BY PowerUnfolds, PdoAssumption DEF WordRange
    <3>4. u % WordRange \in Int
      BY <3>3, DivisionOf
    <3> QED
      BY <3>2, <3>4 DEF Alternatives, FitsOrOverridden
  <2> QED
    BY <2>1, <2>2, <2>3, <2>4 DEF InitialValues
<1>2. od \in [Entries -> [alt : Alternatives, n : Int]]
  BY <1>1 DEF Init
<1>3. /\ pc \in [Threads -> {"idle", "encode", "decode", "sync"}]
      /\ \A s \in Senders : pc[s] \in {"idle", "encode"}
      /\ pdo \in [Threads -> Pdos \cup {<<>>}]
      /\ ordinal \in [Threads -> Nat \ {0}]
      /\ bytes \in [Threads -> Seq(Bytes)]
  BY DEF Init, Threads
<1> QED
  BY <1>1, <1>2, <1>3 DEF Init, TypeOK, Threads

(* Where a thread's call stands.                                             *)
CallOK ==
    /\ pc \in [Threads -> {"idle", "encode", "decode", "sync"}]
    /\ \A s \in Senders : pc[s] \in {"idle", "encode"}
    /\ pdo \in [Threads -> Pdos \cup {<<>>}]
    /\ ordinal \in [Threads -> Nat \ {0}]
    /\ bytes \in [Threads -> Seq(Bytes)]
    /\ \A t \in Threads :
         IF pc[t] \in {"idle", "sync"}
         THEN pdo[t] = <<>> /\ ordinal[t] = 1 /\ bytes[t] = <<>>
         ELSE pdo[t] \in Pdos /\ ordinal[t] <= Len(Mapping(pdo[t])) + 1

LEMMA BeginKeepsCalls ==
    ASSUME CallOK, NEW t \in Threads, NEW p \in Pdos, NEW bs \in Seq(Bytes),
           pc[t] \in {"idle", "sync"},
           pc' = [pc EXCEPT ![t] = "encode"] \/ (t = "rx" /\ pc' = [pc EXCEPT ![t] = "decode"]),
           pdo' = [pdo EXCEPT ![t] = p], bytes' = [bytes EXCEPT ![t] = bs],
           ordinal' = ordinal
    PROVE  CallOK'
<1>1. "rx" \notin Senders /\ Len(Mapping(p)) \in Nat
  BY MappingType, PdoAssumption
<1>2. ordinal[t] = 1 /\ 1 <= Len(Mapping(p)) + 1
  BY <1>1 DEF CallOK
<1>3. /\ pc' \in [Threads -> {"idle", "encode", "decode", "sync"}]
      /\ \A s \in Senders : pc'[s] \in {"idle", "encode"}
      /\ \A s \in Threads : s # t => pc'[s] = pc[s]
      /\ pc'[t] \in {"encode", "decode"}
  <2>1. PICK at \in {"encode", "decode"} :
            pc' = [pc EXCEPT ![t] = at] /\ (t \in Senders => at = "encode")
    BY <1>1
  <2>2. pc \in [Threads -> {"idle", "encode", "decode", "sync"}] /\ Senders \subseteq Threads
    BY DEF CallOK, Threads
  <2> QED
    BY <2>1, <2>2 DEF CallOK
<1>4. /\ pdo' \in [Threads -> Pdos \cup {<<>>}] /\ bytes' \in [Threads -> Seq(Bytes)]
      /\ ordinal' \in [Threads -> Nat \ {0}]
      /\ \A s \in Threads : s # t =>
            pdo'[s] = pdo[s] /\ bytes'[s] = bytes[s] /\ ordinal'[s] = ordinal[s]
      /\ pdo'[t] = p /\ ordinal'[t] = 1
  BY <1>2 DEF CallOK
<1>5. ASSUME NEW s \in Threads
      PROVE  IF pc'[s] \in {"idle", "sync"}
             THEN pdo'[s] = <<>> /\ ordinal'[s] = 1 /\ bytes'[s] = <<>>
             ELSE pdo'[s] \in Pdos /\ ordinal'[s] <= Len(Mapping(pdo'[s])) + 1
  <2>1. CASE s = t
    BY <1>2, <1>3, <1>4, <2>1
  <2>2. CASE s # t
    BY <1>3, <1>4, <2>2 DEF CallOK
  <2> QED
    BY <2>1, <2>2
<1> QED
  BY <1>3, <1>4, <1>5 DEF CallOK, Mapping

LEMMA AdvanceKeepsCalls ==
    ASSUME TypeOK, NEW t \in Threads, pc[t] \in {"decode", "encode"}, HasSignal(t),
           NEW rest \in Seq(Bytes), Advance(t, rest)
    PROVE  CallOK'
<1>1. /\ pdo[t] \in Pdos /\ Len(Mapping(pdo[t])) \in Nat
      /\ ordinal[t] \in 1 .. Len(Mapping(pdo[t]))
  BY SignalType
<1>2. /\ pc' = pc /\ pdo' = pdo
      /\ ordinal' = [ordinal EXCEPT ![t] = ordinal[t] + 1]
      /\ bytes' = [bytes EXCEPT ![t] = rest]
  BY DEF Advance
<1>3. CallOK
  BY DEF CallOK, TypeOK
<1>4. ASSUME NEW s \in Threads
      PROVE  IF pc'[s] \in {"idle", "sync"}
             THEN pdo'[s] = <<>> /\ ordinal'[s] = 1 /\ bytes'[s] = <<>>
             ELSE pdo'[s] \in Pdos /\ ordinal'[s] <= Len(Mapping(pdo'[s])) + 1
  <2>1. CASE s = t
    <3>1. ordinal'[s] = ordinal[t] + 1 /\ pdo'[s] = pdo[t] /\ pc'[s] = pc[t]
      BY <1>2, <1>3, <2>1 DEF CallOK
    <3>2. pdo'[s] \in Pdos /\ ordinal'[s] <= Len(Mapping(pdo'[s])) + 1
      BY <1>1, <3>1
    <3> QED
      BY <3>1, <3>2
  <2>2. CASE s # t
    BY <1>2, <1>3, <2>2 DEF CallOK
  <2> QED
    BY <2>1, <2>2
<1>5. ordinal' \in [Threads -> Nat \ {0}] /\ bytes' \in [Threads -> Seq(Bytes)]
  <2>1. ordinal[t] + 1 \in Nat \ {0}
    BY <1>1
  <2> QED
    BY <1>2, <1>3, <2>1 DEF CallOK
<1> QED
  BY <1>2, <1>3, <1>4, <1>5 DEF CallOK, Mapping

LEMMA FinishKeepsCalls ==
    ASSUME CallOK, NEW t \in Threads, Finish(t)
    PROVE  CallOK'
<1>1. "rx" \notin Senders
  BY PdoAssumption
<1>2. /\ pc' \in [Threads -> {"idle", "encode", "decode", "sync"}]
      /\ pc'[t] \in {"idle", "sync"} /\ (t # "rx" => pc'[t] = "idle")
      /\ \A s \in Threads : s # t => pc'[s] = pc[s]
  BY DEF Finish, CallOK
<1>3. /\ pdo' \in [Threads -> Pdos \cup {<<>>}] /\ ordinal' \in [Threads -> Nat \ {0}]
      /\ bytes' \in [Threads -> Seq(Bytes)]
      /\ pdo'[t] = <<>> /\ ordinal'[t] = 1 /\ bytes'[t] = <<>>
      /\ \A s \in Threads : s # t =>
            pdo'[s] = pdo[s] /\ bytes'[s] = bytes[s] /\ ordinal'[s] = ordinal[s]
  BY DEF Finish, CallOK
<1>4. \A s \in Senders : pc'[s] \in {"idle", "encode"}
  BY <1>1, <1>2 DEF CallOK, Threads
<1>5. ASSUME NEW s \in Threads
      PROVE  IF pc'[s] \in {"idle", "sync"}
             THEN pdo'[s] = <<>> /\ ordinal'[s] = 1 /\ bytes'[s] = <<>>
             ELSE pdo'[s] \in Pdos /\ ordinal'[s] <= Len(Mapping(pdo'[s])) + 1
  <2>1. CASE s = t
    BY <1>2, <1>3, <2>1
  <2>2. CASE s # t
    BY <1>2, <1>3, <2>2 DEF CallOK
  <2> QED
    BY <2>1, <2>2
<1> QED
  BY <1>2, <1>3, <1>4, <1>5 DEF CallOK, Mapping

LEMMA TypeStep == TypeOK /\ [Next]_vars => TypeOK'
<1> SUFFICES ASSUME TypeOK, [Next]_vars PROVE TypeOK'
  OBVIOUS
<1>1. "rx" \in Threads /\ Senders \subseteq Threads /\ "rx" \notin Senders
  BY PdoAssumption DEF Threads
<1>2. CallOK /\ pc \in [Threads -> {"idle", "encode", "decode", "sync"}]
  BY DEF TypeOK, CallOK
<1> DEFINE Values == /\ od \in [Entries -> [alt : Alternatives, n : Int]]
                     /\ \A k \in Entries : FitsOrOverridden(k, od[k])
           Frames == /\ frame \in Seq(Bytes) /\ intact \in BOOLEAN
                     /\ pc["rx"] # "decode" => frame = <<>> /\ intact
           Syncs  == /\ syncTodo \subseteq SyncTpdos
                     /\ syncTodo # {} => pc["rx"] \in {"sync", "encode"}
<1>3. Values /\ Frames /\ Syncs /\ DOMAIN snaps = Threads
  BY DEF TypeOK
<1>4. CallOK' /\ Values' /\ Frames' /\ Syncs' /\ DOMAIN snaps' = Threads => TypeOK'
  BY Zenon DEF TypeOK, CallOK
<1>5. ASSUME NEW id \in Ids, FrameSync(id) PROVE TypeOK'
  <2>1. CallOK' /\ Values' /\ DOMAIN snaps' = Threads
    BY <1>1, <1>2, <1>3, <1>5 DEF FrameSync, CallOK, Mapping
  <2>2. Frames' /\ Syncs'
    BY <1>1, <1>2, <1>3, <1>5 DEF FrameSync
  <2> QED
    BY <1>4, <2>1, <2>2
<1>6. ASSUME NEW id \in Ids, FrameRpdo(id) PROVE TypeOK'
  <2>1. PICK n \in ByCobId(id), data \in Payloads :
            /\ pdo' = [pdo EXCEPT !["rx"] = Receive(n)]
            /\ bytes' = [bytes EXCEPT !["rx"] = data] /\ frame' = data
    BY <1>6 DEF FrameRpdo
  <2>2. Receive(n) \in Pdos /\ data \in Seq(Bytes)
    BY PdoAssumption DEF ByCobId, Pdos, Bytes
  <2>3. CallOK'
    BY <1>1, <1>2, <1>6, <2>1, <2>2, BeginKeepsCalls DEF FrameRpdo
  <2>4. Values' /\ DOMAIN snaps' = Threads
    BY <1>3, <1>6 DEF FrameRpdo
  <2>5. Frames' /\ Syncs'
    BY <1>1, <1>2, <1>3, <1>6, <2>1, <2>2 DEF FrameRpdo
  <2> QED
    BY <1>4, <2>3, <2>4, <2>5
<1>7. ASSUME DecodeSignal PROVE TypeOK'
  <2>1. /\ pc["rx"] = "decode" /\ HasSignal("rx") /\ Refusal("rx") = "ok"
        /\ Store(Signal("rx").key, RawValue("rx"))
        /\ Advance("rx", SubSeq(bytes["rx"], Width(Signal("rx")) + 1, Len(bytes["rx"])))
        /\ UNCHANGED <<syncTodo, frame, intact>>
    BY <1>7 DEF DecodeSignal
  <2>2. /\ Raw("rx") \in Nat
        /\ SubSeq(bytes["rx"], Width(Signal("rx")) + 1, Len(bytes["rx"])) \in Seq(Bytes)
    BY <2>1, TakenBytes
  <2>3. CallOK' /\ pc' = pc
    BY <1>1, <2>1, <2>2, AdvanceKeepsCalls DEF Advance
  <2>4. RawValue("rx") \in [alt : Alternatives, n : Int]
    BY <2>2 DEF RawValue, Alternatives
  <2>5. Values' /\ DOMAIN snaps' = Threads
    BY <2>1, <2>4, AcceptedSignal, StoreTypes
  <2>6. Frames' /\ Syncs'
    BY <1>3, <2>1, <2>3
  <2> QED
    BY <1>4, <2>3, <2>5, <2>6
<1>8. ASSUME pc["rx"] = "decode", DecodeLeave PROVE TypeOK'
  <2>1. Finish("rx") /\ frame' = <<>> /\ intact' = TRUE /\ UNCHANGED <<od, syncTodo, snaps>>
    BY <1>8 DEF DecodeLeave
  <2>2. CallOK'
    BY <1>1, <1>2, <2>1, FinishKeepsCalls
  <2>3. Values' /\ Frames' /\ DOMAIN snaps' = Threads
    BY <1>3, <2>1
  <2>4. Syncs'
    BY <1>3, <1>8, <2>1
  <2> QED
    BY <1>4, <2>2, <2>3, <2>4
<1>9. ASSUME NEW t \in Threads, NEW n \in Tpdos, pc[t] \in {"idle", "sync"},
             EncodeBegin(t, n), syncTodo' \subseteq syncTodo,
             t # "rx" => syncTodo' = syncTodo
      PROVE  TypeOK'
  <2>1. /\ pc' = [pc EXCEPT ![t] = "encode"] /\ pdo' = [pdo EXCEPT ![t] = Transmit(n)]
        /\ snaps' = [snaps EXCEPT ![t] = {ValuesOf(od, Transmit(n))}]
        /\ UNCHANGED <<od, ordinal, bytes, frame, intact>>
    BY <1>9 DEF EncodeBegin
  <2>2. Transmit(n) \in Pdos
    BY DEF Pdos
  <2>3. bytes[t] \in Seq(Bytes) /\ bytes' = [bytes EXCEPT ![t] = bytes[t]]
    BY <1>2, <2>1 DEF CallOK
  <2>4. CallOK'
    BY <1>2, <1>9, <2>1, <2>2, <2>3, BeginKeepsCalls
  <2>5. Values' /\ DOMAIN snaps' = Threads
    BY <1>3, <2>1
  <2>6. Frames'
    BY <1>1, <1>2, <1>3, <1>9, <2>1
  <2>7. Syncs'
    BY <1>1, <1>2, <1>3, <1>9, <2>1
  <2> QED
    BY <1>4, <2>4, <2>5, <2>6, <2>7
<1>10. ASSUME SendSynchronousTpdo PROVE TypeOK'
  <2>1. PICK n \in syncTodo : EncodeBegin("rx", n) /\ syncTodo' = syncTodo \ {n}
    BY <1>10 DEF SendSynchronousTpdo
  <2>2. n \in Tpdos /\ pc["rx"] = "sync"
    BY <1>3, <1>10, PdoAssumption DEF SendSynchronousTpdo
  <2> QED
    BY <1>1, <1>9, <2>1, <2>2
<1>11. ASSUME NEW t \in Senders, SendTpdo(t) PROVE TypeOK'
  BY <1>1, <1>9, <1>11 DEF SendTpdo
<1>12. ASSUME NEW t \in Threads, EncodeSignal(t) PROVE TypeOK'
  <2>1. /\ pc[t] = "encode" /\ HasSignal(t) /\ Signal(t).key \in Entries
        /\ Advance(t, bytes[t] \o ToBytes(od[Signal(t).key].n, Width(Signal(t))))
        /\ UNCHANGED <<od, syncTodo, frame, intact, snaps>>
    BY <1>12 DEF EncodeSignal, SignalEncodes
  <2>2. bytes[t] \o ToBytes(od[Signal(t).key].n, Width(Signal(t))) \in Seq(Bytes)
    <3>1. Width(Signal(t)) \in Nat /\ od[Signal(t).key].n \in Int /\ bytes[t] \in Seq(Bytes)
      BY <1>2, <1>3, <2>1, SignalType DEF CallOK
    <3>2. ToBytes(od[Signal(t).key].n, Width(Signal(t))) \in Seq(Bytes)
      BY <3>1, ToBytesIsBytes
    <3> QED
      BY <3>1, <3>2, ConcatProperties
  <2>3. CallOK' /\ pc' = pc
    BY <2>1, <2>2, AdvanceKeepsCalls DEF Advance
  <2>4. Values' /\ Frames' /\ Syncs' /\ DOMAIN snaps' = Threads
    BY <1>3, <2>1, <2>3
  <2> QED
    BY <1>4, <2>3, <2>4
<1>13. ASSUME NEW t \in Threads, pc[t] = "encode", EncodeLeave(t) PROVE TypeOK'
  <2>1. /\ Finish(t) /\ snaps' = [snaps EXCEPT ![t] = {}]
        /\ UNCHANGED <<od, syncTodo, frame, intact>>
    BY <1>13 DEF EncodeLeave
  <2>2. CallOK'
    BY <1>2, <2>1, FinishKeepsCalls
  <2>3. Values' /\ DOMAIN snaps' = Threads
    BY <1>3, <2>1
  <2>4. /\ t = "rx" => pc'["rx"] = IF syncTodo # {} THEN "sync" ELSE "idle"
        /\ t # "rx" => pc'["rx"] = pc["rx"]
    BY <1>1, <1>2, <2>1 DEF Finish
  <2>5. Frames'
    BY <1>3, <1>13, <2>1, <2>4
  <2>6. Syncs'
    BY <1>3, <1>13, <2>1, <2>4
  <2> QED
    BY <1>4, <2>2, <2>3, <2>5, <2>6
<1>14. ASSUME NEW k \in Entries, KeywordWrite(k) PROVE TypeOK'
  <2>1. PICK v \in Parsed(TypeOf[k]) : Compatible(TypeOf[k], v) /\ Store(k, v)
    BY <1>14 DEF KeywordWrite
  <2>2. /\ UNCHANGED <<pc, pdo, ordinal, bytes, syncTodo, frame>>
        /\ intact' = (pc["rx"] # "decode")
    BY <1>14 DEF KeywordWrite
  <2>3. Values' /\ DOMAIN snaps' = Threads
    BY <2>1, ParsedFits, StoreTypes
  <2>4. CallOK'
    BY <1>2, <2>2 DEF CallOK, Mapping
  <2>5. Frames' /\ Syncs'
    BY <1>3, <2>2
  <2> QED
    BY <1>4, <2>3, <2>4, <2>5
<1>15. CASE UNCHANGED vars
  BY <1>15 DEF vars, TypeOK, Mapping
<1> QED
  BY <1>5, <1>6, <1>7, <1>8, <1>10, <1>11, <1>12, <1>13, <1>14, <1>15
  DEF Next, RxStep, EncodeStep, DecodeThrows, DecodeEnd, EncodeThrows, EncodeEnd, ReadyToSend

(* Every value in the dictionary fits its entry's declared type, whoever     *)
(* wrote it, and a thread between two calls keeps nothing of the last one:   *)
(* Write, DecodePdoPayload, EncodePdoPayload and the handlers around them.   *)
THEOREM TypeCorrect == Spec => []TypeOK
<1>1. Init => TypeOK
  BY InitialTypes
<1>2. TypeOK /\ [Next]_vars => TypeOK'
  BY TypeStep
<1> QED
  BY <1>1, <1>2, PTL DEF Spec

-----------------------------------------------------------------------------
(* Decoding.                                                                 *)

(* FrameInv of a call that has decoded the first n signals of PDO p out of   *)
(* data into dictionary d and has rest left.                                 *)
FrameOK(d, p, n, rest, data, whole) ==
    /\ \A o \in 1 .. n : Mapping(p)[o].key \in Entries
    /\ Before(p, n) <= Len(data)
    /\ rest = SubSeq(data, Before(p, n) + 1, Len(data))
    /\ whole => \A o \in 1 .. n :
         (\A q \in o + 1 .. n : Mapping(p)[q].key # Mapping(p)[o].key) =>
            /\ Before(p, o) <= Len(data)
            /\ ToBytes(d[Mapping(p)[o].key].n, Width(Mapping(p)[o])) =
                 SubSeq(data, Before(p, o - 1) + 1, Before(p, o))

LEMMA FrameInvIs ==
    /\ FrameInv <=> (pc["rx"] = "decode" =>
         FrameOK(od, pdo["rx"], ordinal["rx"] - 1, bytes["rx"], frame, intact))
    /\ FrameInv' <=> (pc'["rx"] = "decode" =>
         FrameOK(od', pdo'["rx"], ordinal'["rx"] - 1, bytes'["rx"], frame', intact'))
BY DEF FrameInv, FrameOK, Delivered, Before, Offsets, Mapping, Width, ToBytes

LEMMA FrameBegins ==
    ASSUME NEW d, NEW p \in Pdos, NEW data \in Seq(Bytes), NEW whole
    PROVE  FrameOK(d, p, 0, data, data, whole)
<1>1. Before(p, 0) = 0
  BY OffsetsUnfold DEF Before
<1>2. SubSeq(data, 1, Len(data)) = data /\ 0 <= Len(data)
  OBVIOUS
<1> QED
  BY <1>1, <1>2 DEF FrameOK

LEMMA FrameGoesOn ==
    ASSUME NEW d \in [Entries -> [alt : Alternatives, n : Int]], NEW p \in Pdos,
           NEW n \in Nat, n + 1 \in 1 .. Len(Mapping(p)),
           Mapping(p)[n + 1].key \in Entries,
           NEW data \in Seq(Bytes), NEW rest, NEW whole, FrameOK(d, p, n, rest, data, whole),
           NEW w, w = Width(Mapping(p)[n + 1]), w \in 0 .. Len(rest),
           NEW raw \in Nat, ToBytes(raw, w) = SubSeq(rest, 1, w)
    PROVE  FrameOK([d EXCEPT ![Mapping(p)[n + 1].key] = [alt |-> "uint", n |-> raw]],
                   p, n + 1, SubSeq(rest, w + 1, Len(rest)), data, whole)
<1> DEFINE m == Mapping(p)
           k == m[n + 1].key
           e == [d EXCEPT ![k] = [alt |-> "uint", n |-> raw]]
           b == Before(p, n)
<1>1. /\ b \in Nat /\ b <= Len(data) /\ Before(p, n + 1) = b + w
      /\ rest = SubSeq(data, b + 1, Len(data))
  <2>1. n \in 0 .. Len(m) /\ (n + 1) - 1 = n
    BY MappingType
  <2> QED
    BY <2>1, OffsetsUnfold DEF Before, FrameOK
<1>2. /\ Len(rest) = Len(data) - b
      /\ SubSeq(rest, 1, w) = SubSeq(data, b + 1, b + w)
      /\ SubSeq(rest, w + 1, Len(rest)) = SubSeq(data, b + w + 1, Len(data))
  <2>1. b \in 0 .. Len(data)
    BY <1>1
  <2>2. Len(rest) = Len(data) - b
    <3>1. 0 \in 0 .. Len(data) - b
      BY <2>1
    <3> QED
      BY <1>1, <2>1, <3>1, RestOfFrame
  <2>3. w \in 0 .. Len(data) - b
    BY <2>2
  <2> QED
    BY <1>1, <2>1, <2>3, RestOfFrame
<1>3. b + w <= Len(data)
  <2>1. w \in 0 .. Len(data) - b /\ Len(data) \in Nat
    BY <1>2
  <2> HIDE DEF b
  <2> QED
    BY <1>1, <2>1
<1>4. e[k].n = raw /\ \A x \in Entries : x # k => e[x] = d[x]
  OBVIOUS
<1>5. \A o \in 1 .. n + 1 : m[o].key \in Entries
  BY DEF FrameOK
<1>6. ASSUME whole, NEW o \in 1 .. n + 1, \A q \in o + 1 .. n + 1 : m[q].key # m[o].key
      PROVE  /\ Before(p, o) <= Len(data)
             /\ ToBytes(e[m[o].key].n, Width(m[o])) = SubSeq(data, Before(p, o - 1) + 1, Before(p, o))
  <2>1. CASE o = n + 1
    <3>1. o - 1 = n
      BY <2>1
    <3> HIDE DEF e, b
    <3> QED
      BY <1>1, <1>2, <1>3, <1>4, <2>1, <3>1 DEF b
  <2>2. CASE o # n + 1
    <3>1. o \in 1 .. n /\ n + 1 \in o + 1 .. n + 1
      BY <2>2
    <3>2. m[o].key # k /\ \A q \in o + 1 .. n : m[q].key # m[o].key
      BY <1>6, <3>1
    <3>3. e[m[o].key] = d[m[o].key]
      BY <1>4, <1>5, <3>2
    <3> HIDE DEF e
    <3> QED
      BY <1>6, <3>1, <3>2, <3>3 DEF FrameOK
  <2> QED
    BY <2>1, <2>2
<1> HIDE DEF e, b
<1> QED
  BY <1>1, <1>2, <1>3, <1>5, <1>6 DEF FrameOK, e, k

LEMMA FrameStep == TypeOK /\ FrameInv /\ [Next]_vars => FrameInv'
<1> SUFFICES ASSUME TypeOK, FrameInv, [Next]_vars, pc'["rx"] = "decode"
             PROVE  FrameOK(od', pdo'["rx"], ordinal'["rx"] - 1, bytes'["rx"], frame', intact')
  BY FrameInvIs
<1>1. "rx" \in Threads /\ Senders \subseteq Threads /\ "rx" \notin Senders
  BY PdoAssumption DEF Threads
<1>2. pc["rx"] = "decode" =>
        FrameOK(od, pdo["rx"], ordinal["rx"] - 1, bytes["rx"], frame, intact)
  BY FrameInvIs
<1>3. /\ pc \in [Threads -> {"idle", "encode", "decode", "sync"}]
      /\ pdo \in [Threads -> Pdos \cup {<<>>}] /\ ordinal \in [Threads -> Nat \ {0}]
      /\ bytes \in [Threads -> Seq(Bytes)]
      /\ od \in [Entries -> [alt : Alternatives, n : Int]] /\ frame \in Seq(Bytes)
  BY DEF TypeOK
<1>4. ASSUME UNCHANGED <<od, frame, intact>>, pc'["rx"] = pc["rx"], pdo'["rx"] = pdo["rx"],
             ordinal'["rx"] = ordinal["rx"], bytes'["rx"] = bytes["rx"]
      PROVE  FrameOK(od', pdo'["rx"], ordinal'["rx"] - 1, bytes'["rx"], frame', intact')
  BY <1>2, <1>4
<1>5. ASSUME NEW id \in Ids, FrameSync(id)
      PROVE  FALSE
  BY <1>1, <1>3, <1>5 DEF FrameSync
<1>6. ASSUME NEW id \in Ids, FrameRpdo(id)
      PROVE  FrameOK(od', pdo'["rx"], ordinal'["rx"] - 1, bytes'["rx"], frame', intact')
  <2>1. PICK n \in ByCobId(id), data \in Payloads :
            /\ pdo' = [pdo EXCEPT !["rx"] = Receive(n)]
            /\ bytes' = [bytes EXCEPT !["rx"] = data] /\ frame' = data
    BY <1>6 DEF FrameRpdo
  <2>2. Receive(n) \in Pdos /\ data \in Seq(Bytes)
    BY PdoAssumption DEF ByCobId, Pdos, Bytes
  <2>3. pdo'["rx"] = Receive(n) /\ bytes'["rx"] = data /\ ordinal'["rx"] - 1 = 0
    BY <1>1, <1>3, <1>6, <2>1 DEF FrameRpdo, TypeOK
  <2> QED
    BY <2>1, <2>2, <2>3, FrameBegins
<1>7. ASSUME DecodeSignal
      PROVE  FrameOK(od', pdo'["rx"], ordinal'["rx"] - 1, bytes'["rx"], frame', intact')
  <2> DEFINE p == pdo["rx"]
             n == ordinal["rx"] - 1
             w == Width(Signal("rx"))
             bs == bytes["rx"]
  <2>1. /\ pc["rx"] = "decode" /\ HasSignal("rx") /\ Refusal("rx") = "ok"
        /\ Store(Signal("rx").key, RawValue("rx"))
        /\ Advance("rx", SubSeq(bs, w + 1, Len(bs)))
        /\ UNCHANGED <<frame, intact>>
    BY <1>7 DEF DecodeSignal
  <2>2. /\ p \in Pdos /\ n \in Nat /\ n + 1 \in 1 .. Len(Mapping(p))
        /\ n + 1 = ordinal["rx"] /\ Signal("rx") = Mapping(p)[n + 1]
    BY <1>1, <2>1, SignalType DEF Signal
  <2>3. w \in 0 .. Len(bs) /\ Raw("rx") \in Nat /\ ToBytes(Raw("rx"), w) = SubSeq(bs, 1, w)
    BY <2>1, TakenBytes
  <2>4. Signal("rx").key \in Entries
    BY <2>1, AcceptedSignal
  <2>5. /\ od' = [od EXCEPT ![Signal("rx").key] = [alt |-> "uint", n |-> Raw("rx")]]
        /\ pdo'["rx"] = p /\ ordinal'["rx"] - 1 = n + 1
        /\ bytes'["rx"] = SubSeq(bs, w + 1, Len(bs))
    <3>1. /\ pdo' = pdo /\ ordinal' = [ordinal EXCEPT !["rx"] = ordinal["rx"] + 1]
          /\ bytes' = [bytes EXCEPT !["rx"] = SubSeq(bs, w + 1, Len(bs))]
      BY <2>1 DEF Advance
    <3>2. ordinal'["rx"] = ordinal["rx"] + 1 /\ ordinal["rx"] \in Nat
      BY <1>1, <1>3, <3>1
    <3>3. ordinal'["rx"] - 1 = n + 1
      BY <3>2
    <3>4. bytes'["rx"] = SubSeq(bs, w + 1, Len(bs))
      <4> HIDE DEF bs, w
      <4> QED
        BY <1>1, <1>3, <3>1
    <3>5. od' = [od EXCEPT ![Signal("rx").key] = [alt |-> "uint", n |-> Raw("rx")]]
      BY <2>1 DEF Store, RawValue
    <3> HIDE DEF n, w, bs
    <3> QED
      BY <3>1, <3>3, <3>4, <3>5
  <2>6. FrameOK(od, p, n, bs, frame, intact) /\ w = Width(Mapping(p)[n + 1])
    BY <1>2, <2>1, <2>2
  <2> HIDE DEF p, n, w, bs
  <2>7. FrameOK([od EXCEPT ![Mapping(p)[n + 1].key] = [alt |-> "uint", n |-> Raw("rx")]],
                p, n + 1, SubSeq(bs, w + 1, Len(bs)), frame, intact)
    BY <1>3, <2>2, <2>3, <2>4, <2>6, FrameGoesOn
  <2> QED
    BY <2>1, <2>2, <2>5, <2>7
<1>8. ASSUME NEW t \in Threads, Finish(t), UNCHANGED <<od, frame, intact>> \/ t = "rx"
      PROVE  FrameOK(od', pdo'["rx"], ordinal'["rx"] - 1, bytes'["rx"], frame', intact')
  <2>1. t # "rx"
    BY <1>1, <1>3, <1>8 DEF Finish
  <2>2. /\ pc'["rx"] = pc["rx"] /\ pdo'["rx"] = pdo["rx"]
        /\ ordinal'["rx"] = ordinal["rx"] /\ bytes'["rx"] = bytes["rx"]
    BY <1>1, <1>3, <1>8, <2>1 DEF Finish
  <2> QED
    BY <1>4, <1>8, <2>1, <2>2
<1>9. ASSUME NEW t \in Threads, NEW n \in Tpdos, EncodeBegin(t, n)
      PROVE  FrameOK(od', pdo'["rx"], ordinal'["rx"] - 1, bytes'["rx"], frame', intact')
  <2>1. t # "rx"
    BY <1>1, <1>3, <1>9 DEF EncodeBegin
  <2> QED
    BY <1>1, <1>3, <1>4, <1>9, <2>1 DEF EncodeBegin
<1>10. ASSUME SendSynchronousTpdo PROVE FALSE
  BY <1>1, <1>3, <1>10 DEF SendSynchronousTpdo, EncodeBegin
<1>11. ASSUME NEW t \in Threads, EncodeSignal(t)
       PROVE  FrameOK(od', pdo'["rx"], ordinal'["rx"] - 1, bytes'["rx"], frame', intact')
  <2>1. pc[t] = "encode" /\ UNCHANGED <<pc, pdo, od, frame, intact>>
    BY <1>11 DEF EncodeSignal, Advance
  <2>2. t # "rx"
    BY <2>1
  <2>3. ordinal'["rx"] = ordinal["rx"] /\ bytes'["rx"] = bytes["rx"]
    BY <1>1, <1>3, <1>11, <2>2 DEF EncodeSignal, Advance
  <2> QED
    BY <1>4, <2>1, <2>3
<1>12. ASSUME NEW k \in Entries, KeywordWrite(k)
       PROVE  FrameOK(od', pdo'["rx"], ordinal'["rx"] - 1, bytes'["rx"], frame', intact')
  <2>1. UNCHANGED <<pc, pdo, ordinal, bytes, frame>> /\ intact' = (pc["rx"] # "decode")
    BY <1>12 DEF KeywordWrite
  <2> QED
    BY <1>2, <2>1 DEF FrameOK
<1>13. CASE UNCHANGED vars
  BY <1>4, <1>13 DEF vars
<1>14. ASSUME DecodeThrows \/ DecodeEnd
       PROVE  FrameOK(od', pdo'["rx"], ordinal'["rx"] - 1, bytes'["rx"], frame', intact')
  BY <1>1, <1>8, <1>14 DEF DecodeThrows, DecodeEnd, DecodeLeave
<1>15. ASSUME NEW t \in Threads, EncodeThrows(t) \/ EncodeEnd(t)
       PROVE  FrameOK(od', pdo'["rx"], ordinal'["rx"] - 1, bytes'["rx"], frame', intact')
  BY <1>8, <1>15 DEF EncodeThrows, EncodeEnd, EncodeLeave
<1>16. ASSUME NEW t \in Senders, SendTpdo(t)
       PROVE  FrameOK(od', pdo'["rx"], ordinal'["rx"] - 1, bytes'["rx"], frame', intact')
  BY <1>1, <1>9, <1>16 DEF SendTpdo
<1> QED
  BY <1>5, <1>6, <1>7, <1>10, <1>11, <1>12, <1>13, <1>14, <1>15, <1>16
  DEF Next, RxStep, EncodeStep

-----------------------------------------------------------------------------
(* Encoding.                                                                 *)

(* SnapInv of a call that has encoded the first n signals of PDO p into bs   *)
(* and has seen the PDO's values as the members of seen.                     *)
SnapOK(d, p, n, bs, seen) ==
    /\ IsFiniteSet(seen) /\ ValuesOf(d, p) \in seen
    /\ Cardinality(seen) = 1 =>
         /\ \A o \in 1 .. n : IsInteger(ValuesOf(d, p)[o])
         /\ bs = Encodings(p, ValuesOf(d, p))[n]

LEMMA SnapInvIs ==
    /\ SnapInv <=> \A t \in Threads : pc[t] = "encode" =>
         SnapOK(od, pdo[t], ordinal[t] - 1, bytes[t], snaps[t])
    /\ SnapInv' <=> \A t \in Threads : pc'[t] = "encode" =>
         SnapOK(od', pdo'[t], ordinal'[t] - 1, bytes'[t], snaps'[t])
BY DEF SnapInv, SnapOK, ValuesOf, Encodings, Mapping, Width, ToBytes, IsInteger, Threads

LEMMA ValuesTyped ==
    ASSUME NEW d \in [Entries -> [alt : Alternatives, n : Int]], NEW p \in Pdos,
           NEW o \in 1 .. Len(Mapping(p))
    PROVE  ValuesOf(d, p)[o].n \in Int
BY DEF ValuesOf, NoValue

LEMMA OneMember ==
    ASSUME NEW S, IsFiniteSet(S), Cardinality(S) = 1, NEW x \in S, NEW y \in S
    PROVE  x = y
BY FS_Singleton

LEMMA SnapBegins ==
    ASSUME NEW d \in [Entries -> [alt : Alternatives, n : Int]], NEW p \in Pdos
    PROVE  SnapOK(d, p, 0, <<>>, {ValuesOf(d, p)})
<1>1. Encodings(p, ValuesOf(d, p))[0] = <<>>
  BY ValuesTyped, EncodingsUnfold
<1>2. IsFiniteSet({ValuesOf(d, p)})
  BY FS_Singleton
<1> QED
  BY <1>1, <1>2 DEF SnapOK

(* A write adds the values the PDO has now: one value in all means that the  *)
(* write changed none of its entries.                                        *)
LEMMA SnapSeesWrite ==
    ASSUME NEW d, NEW e, NEW p, NEW n, NEW bs, NEW seen, SnapOK(d, p, n, bs, seen)
    PROVE  SnapOK(e, p, n, bs, seen \cup {ValuesOf(e, p)})
<1> DEFINE now == seen \cup {ValuesOf(e, p)}
<1>1. IsFiniteSet(now) /\ ValuesOf(e, p) \in now /\ ValuesOf(d, p) \in now
  BY FS_AddElement DEF SnapOK
<1>2. ASSUME Cardinality(now) = 1
      PROVE  ValuesOf(e, p) = ValuesOf(d, p) /\ now = seen
  <2>1. ValuesOf(e, p) = ValuesOf(d, p)
    BY <1>1, <1>2, OneMember
  <2> QED
    BY <2>1 DEF SnapOK
<1> QED
  BY <1>1, <1>2, Zenon DEF SnapOK

LEMMA SnapGoesOn ==
    ASSUME NEW d \in [Entries -> [alt : Alternatives, n : Int]], NEW p \in Pdos,
           NEW n \in Nat, n + 1 \in 1 .. Len(Mapping(p)),
           NEW k \in Entries, k = Mapping(p)[n + 1].key, IsInteger(d[k]),
           NEW bs, NEW seen, SnapOK(d, p, n, bs, seen)
    PROVE  SnapOK(d, p, n + 1, bs \o ToBytes(d[k].n, Width(Mapping(p)[n + 1])), seen)
<1> DEFINE v == ValuesOf(d, p)
           cat == Encodings(p, v)
<1>1. v[n + 1] = d[k]
  BY DEF ValuesOf
<1>2. \A o \in 1 .. Len(Mapping(p)) : v[o].n \in Int
  BY ValuesTyped
<1> HIDE DEF v
<1>3. cat[n + 1] = cat[n] \o ToBytes(d[k].n, Width(Mapping(p)[n + 1]))
  <2>1. (n + 1) - 1 = n
    OBVIOUS
  <2> QED
    BY <1>1, <1>2, <2>1, EncodingsUnfold
<1>4. (\A o \in 1 .. n : IsInteger(v[o])) => \A o \in 1 .. n + 1 : IsInteger(v[o])
  <2>1. \A o \in 1 .. n + 1 : o \in 1 .. n \/ o = n + 1
    OBVIOUS
  <2> QED
    BY <1>1, <2>1
<1> HIDE DEF cat
<1> QED
  BY <1>3, <1>4 DEF SnapOK, v, cat

LEMMA SnapStep == TypeOK /\ SnapInv /\ [Next]_vars => SnapInv'
<1> SUFFICES ASSUME TypeOK, SnapInv, [Next]_vars, NEW t \in Threads, pc'[t] = "encode"
             PROVE  SnapOK(od', pdo'[t], ordinal'[t] - 1, bytes'[t], snaps'[t])
  BY SnapInvIs
<1>1. pc[t] = "encode" => SnapOK(od, pdo[t], ordinal[t] - 1, bytes[t], snaps[t])
  BY SnapInvIs
<1>2. /\ pc \in [Threads -> {"idle", "encode", "decode", "sync"}]
      /\ pdo \in [Threads -> Pdos \cup {<<>>}] /\ ordinal \in [Threads -> Nat \ {0}]
      /\ bytes \in [Threads -> Seq(Bytes)]
      /\ od \in [Entries -> [alt : Alternatives, n : Int]] /\ DOMAIN snaps = Threads
      /\ syncTodo \subseteq Tpdos
  BY PdoAssumption DEF TypeOK
<1>3. "rx" \in Threads /\ Senders \subseteq Threads
  BY DEF Threads
<1>4. ASSUME od' = od, pc'[t] = pc[t], pdo'[t] = pdo[t],
             ordinal'[t] = ordinal[t], bytes'[t] = bytes[t], snaps'[t] = snaps[t]
      PROVE  SnapOK(od', pdo'[t], ordinal'[t] - 1, bytes'[t], snaps'[t])
  BY <1>1, <1>4
<1>5. ASSUME NEW k \in Entries, NEW v, Store(k, v), pc'[t] = pc[t], pdo'[t] = pdo[t],
             ordinal'[t] = ordinal[t], bytes'[t] = bytes[t]
      PROVE  SnapOK(od', pdo'[t], ordinal'[t] - 1, bytes'[t], snaps'[t])
  <2>1. snaps'[t] = snaps[t] \cup {ValuesOf(od', pdo[t])}
    BY <1>5 DEF Store
  <2> QED
    BY <1>1, <1>5, <2>1, SnapSeesWrite
<1>6. ASSUME NEW id \in Ids, FrameSync(id) \/ FrameRpdo(id)
      PROVE  SnapOK(od', pdo'[t], ordinal'[t] - 1, bytes'[t], snaps'[t])
  <2>1. t # "rx"
    BY <1>2, <1>3, <1>6 DEF FrameSync, FrameRpdo
  <2>2. /\ od' = od /\ snaps' = snaps /\ ordinal' = ordinal
        /\ pc'[t] = pc[t] /\ pdo'[t] = pdo[t] /\ bytes'[t] = bytes[t]
    BY <1>2, <1>3, <1>6, <2>1 DEF FrameSync, FrameRpdo
  <2> QED
    BY <1>4, <2>2
<1>7. ASSUME DecodeSignal
      PROVE  SnapOK(od', pdo'[t], ordinal'[t] - 1, bytes'[t], snaps'[t])
  <2>1. /\ pc["rx"] = "decode" /\ Refusal("rx") = "ok"
        /\ Store(Signal("rx").key, RawValue("rx"))
        /\ Advance("rx", SubSeq(bytes["rx"], Width(Signal("rx")) + 1, Len(bytes["rx"])))
    BY <1>7 DEF DecodeSignal
  <2>2. t # "rx" /\ pc' = pc /\ pdo' = pdo
    BY <2>1 DEF Advance
  <2>3. ordinal'[t] = ordinal[t] /\ bytes'[t] = bytes[t]
    BY <1>2, <1>3, <2>1, <2>2 DEF Advance
  <2>4. Signal("rx").key \in Entries
    BY <2>1, AcceptedSignal
  <2> QED
    BY <1>5, <2>1, <2>2, <2>3, <2>4
<1>8. ASSUME NEW s \in Threads, Finish(s), od' = od,
             snaps' = snaps \/ snaps' = [snaps EXCEPT ![s] = {}]
      PROVE  SnapOK(od', pdo'[t], ordinal'[t] - 1, bytes'[t], snaps'[t])
  <2>1. s # t
    BY <1>2, <1>8 DEF Finish
  <2>2. snaps'[t] = snaps[t]
    BY <1>2, <1>8, <2>1
  <2>3. /\ pc'[t] = pc[t] /\ pdo'[t] = pdo[t]
        /\ ordinal'[t] = ordinal[t] /\ bytes'[t] = bytes[t]
    BY <1>2, <1>8, <2>1 DEF Finish
  <2> QED
    BY <1>4, <1>8, <2>2, <2>3
<1>9. ASSUME NEW s \in Threads, NEW n \in Tpdos, pc[s] \in {"idle", "sync"}, EncodeBegin(s, n)
      PROVE  SnapOK(od', pdo'[t], ordinal'[t] - 1, bytes'[t], snaps'[t])
  <2>1. /\ pc' = [pc EXCEPT ![s] = "encode"] /\ pdo' = [pdo EXCEPT ![s] = Transmit(n)]
        /\ snaps' = [snaps EXCEPT ![s] = {ValuesOf(od, Transmit(n))}]
        /\ UNCHANGED <<od, ordinal, bytes>>
    BY <1>9 DEF EncodeBegin
  <2>2. CASE s = t
    <3>1. ordinal[t] - 1 = 0 /\ bytes[t] = <<>>
      BY <1>9, <2>2 DEF TypeOK
    <3>2. pdo'[t] = Transmit(n) /\ snaps'[t] = {ValuesOf(od, Transmit(n))}
      BY <1>2, <2>1, <2>2
    <3>3. Transmit(n) \in Pdos
      BY DEF Pdos
    <3> QED
      BY <1>2, <2>1, <3>1, <3>2, <3>3, SnapBegins
  <2>3. CASE s # t
    <3>1. pc'[t] = pc[t] /\ pdo'[t] = pdo[t] /\ snaps'[t] = snaps[t]
      BY <1>2, <2>1, <2>3
    <3> QED
      BY <1>4, <2>1, <3>1
  <2> QED
    BY <2>2, <2>3
<1>10. ASSUME NEW s \in Threads, EncodeSignal(s)
       PROVE  SnapOK(od', pdo'[t], ordinal'[t] - 1, bytes'[t], snaps'[t])
  <2> DEFINE key == Signal(s).key
             more == bytes[s] \o ToBytes(od[key].n, Width(Signal(s)))
  <2>1. /\ pc[s] = "encode" /\ HasSignal(s) /\ key \in Entries /\ IsInteger(od[key])
        /\ UNCHANGED <<pc, pdo, od, snaps>>
        /\ ordinal' = [ordinal EXCEPT ![s] = ordinal[s] + 1]
        /\ bytes' = [bytes EXCEPT ![s] = more]
    BY <1>10 DEF EncodeSignal, SignalEncodes, Advance
  <2>2. CASE s = t
    <3> DEFINE n == ordinal[t] - 1
    <3>1. /\ pdo[t] \in Pdos /\ n \in Nat /\ n + 1 \in 1 .. Len(Mapping(pdo[t]))
          /\ n + 1 = ordinal[t] /\ Signal(s) = Mapping(pdo[t])[n + 1]
      <4>1. /\ pdo[t] \in Pdos /\ Len(Mapping(pdo[t])) \in Nat
            /\ ordinal[t] \in 1 .. Len(Mapping(pdo[t]))
        BY <2>1, <2>2, SignalType
      <4>2. n \in Nat /\ n + 1 = ordinal[t]
        BY <4>1
      <4> HIDE DEF n
      <4> QED
        BY <2>2, <4>1, <4>2 DEF Signal
    <3>2. SnapOK(od, pdo[t], n, bytes[t], snaps[t])
      BY <1>1, <2>1, <2>2
    <3>3. bytes'[t] = more /\ ordinal'[t] - 1 = n + 1
      <4>1. ordinal'[t] = ordinal[t] + 1 /\ ordinal[t] \in Nat
        BY <1>2, <2>1, <2>2
      <4>2. ordinal'[t] - 1 = n + 1
        BY <4>1
      <4>3. bytes'[t] = more
        <5> HIDE DEF more
        <5> QED
          BY <1>2, <2>1, <2>2
      <4> HIDE DEF n, more
      <4> QED
        BY <4>2, <4>3
    <3>4. key = Mapping(pdo[t])[n + 1].key
      BY <3>1
    <3>5. more = bytes[t] \o ToBytes(od[key].n, Width(Mapping(pdo[t])[n + 1]))
      BY <2>2, <3>1
    <3> HIDE DEF n, key, more
    <3>6. SnapOK(od, pdo[t], n + 1,
                 bytes[t] \o ToBytes(od[key].n, Width(Mapping(pdo[t])[n + 1])), snaps[t])
      BY <1>2, <2>1, <3>1, <3>2, <3>4, SnapGoesOn
    <3> QED
      BY <2>1, <3>3, <3>5, <3>6
  <2>3. CASE s # t
    <3>1. ordinal'[t] = ordinal[t] /\ bytes'[t] = bytes[t]
      <4> HIDE DEF more
      <4> QED
        BY <1>2, <2>1, <2>3
    <3> QED
      BY <1>4, <2>1, <3>1
  <2> QED
    BY <2>2, <2>3
<1>11. ASSUME NEW k \in Entries, KeywordWrite(k)
       PROVE  SnapOK(od', pdo'[t], ordinal'[t] - 1, bytes'[t], snaps'[t])
  <2>1. PICK v : Store(k, v)
    BY <1>11 DEF KeywordWrite
  <2>2. UNCHANGED <<pc, pdo, ordinal, bytes>>
    BY <1>11 DEF KeywordWrite
  <2> QED
    BY <1>5, <2>1, <2>2
<1>12. CASE UNCHANGED vars
  BY <1>4, <1>12 DEF vars
<1>13. ASSUME DecodeThrows \/ DecodeEnd
       PROVE  SnapOK(od', pdo'[t], ordinal'[t] - 1, bytes'[t], snaps'[t])
  BY <1>3, <1>8, <1>13 DEF DecodeThrows, DecodeEnd, DecodeLeave
<1>14. ASSUME NEW s \in Threads, EncodeThrows(s) \/ EncodeEnd(s)
       PROVE  SnapOK(od', pdo'[t], ordinal'[t] - 1, bytes'[t], snaps'[t])
  BY <1>8, <1>14 DEF EncodeThrows, EncodeEnd, EncodeLeave
<1>15. ASSUME SendSynchronousTpdo
       PROVE  SnapOK(od', pdo'[t], ordinal'[t] - 1, bytes'[t], snaps'[t])
  BY <1>2, <1>3, <1>9, <1>15 DEF SendSynchronousTpdo
<1>16. ASSUME NEW s \in Senders, SendTpdo(s)
       PROVE  SnapOK(od', pdo'[t], ordinal'[t] - 1, bytes'[t], snaps'[t])
  BY <1>3, <1>9, <1>16 DEF SendTpdo
<1> QED
  BY <1>6, <1>7, <1>10, <1>11, <1>12, <1>13, <1>14, <1>15, <1>16
  DEF Next, RxStep, EncodeStep

-----------------------------------------------------------------------------
(* What follows from them.                                                   *)

(* Half-way through a call, a frame's decoded part is in the dictionary and  *)
(* a TPDO's encoded part in the payload, as the loops of DecodePdoPayload    *)
(* and EncodePdoPayload have it after each signal.                           *)
THEOREM ExchangeInvariant == Spec => []ExchangeInv
<1>1. Init => TypeOK /\ ExchangeInv
  <2>1. ASSUME Init PROVE \A t \in Threads : pc[t] = "idle"
    BY <2>1 DEF Init
  <2>2. "rx" \in Threads
    BY DEF Threads
  <2> QED
    BY <2>1, <2>2, InitialTypes DEF ExchangeInv, FrameInv, SnapInv
<1>2. TypeOK /\ ExchangeInv /\ [Next]_vars => TypeOK' /\ ExchangeInv'
  BY TypeStep, FrameStep, SnapStep DEF ExchangeInv
<1> QED
  BY <1>1, <1>2, PTL DEF Spec

(* A frame decoded to its end is in the dictionary byte for byte, unless a   *)
(* keyword wrote meanwhile: encoding an entry gives back its bytes of it.    *)
THEOREM DecodeDeliversHolds == Spec => []DecodeDelivers
<1>1. TypeOK /\ ExchangeInv => DecodeDelivers
  <2> SUFFICES ASSUME TypeOK, FrameInv, pc["rx"] = "decode", ~HasSignal("rx"), intact
               PROVE  Delivered(Len(Mapping(pdo["rx"])))
    BY DEF DecodeDelivers, ExchangeInv
  <2>1. ordinal["rx"] - 1 = Len(Mapping(pdo["rx"]))
    <3>1. "rx" \in Threads
      BY DEF Threads
    <3>2. /\ Len(Mapping(pdo["rx"])) \in Nat
          /\ ordinal["rx"] \in 1 .. Len(Mapping(pdo["rx"])) + 1
      BY <3>1, SignalType
    <3> QED
      BY <3>2 DEF HasSignal
  <2>2. Delivered(ordinal["rx"] - 1)
    BY Zenon DEF FrameInv
  <2> QED
    BY <2>1, <2>2
<1> QED
  BY <1>1, TypeCorrect, ExchangeInvariant, PTL

(* A TPDO whose entries kept their values for the length of the call leaves  *)
(* with exactly them: no signal is missing, repeated or out of place.        *)
THEOREM SnapshotUnlessOverlappedHolds == Spec => []SnapshotUnlessOverlapped
<1>1. TypeOK /\ ExchangeInv => SnapshotUnlessOverlapped
  <2> SUFFICES ASSUME TypeOK, SnapInv, NEW t \in Threads, ReadyToSend(t),
                      Cardinality(snaps[t]) = 1, NEW values \in snaps[t]
               PROVE  EncodesTo(pdo[t], values, bytes[t])
    BY DEF SnapshotUnlessOverlapped, ExchangeInv
  <2>1. pc[t] = "encode" /\ ~HasSignal(t)
    BY DEF ReadyToSend
  <2>2. ordinal[t] - 1 = Len(Mapping(pdo[t]))
    <3>1. /\ Len(Mapping(pdo[t])) \in Nat
          /\ ordinal[t] \in 1 .. Len(Mapping(pdo[t])) + 1
      BY <2>1, SignalType
    <3> QED
      BY <2>1, <3>1 DEF HasSignal
  <2>3. SnapOK(od, pdo[t], Len(Mapping(pdo[t])), bytes[t], snaps[t])
    BY <2>1, <2>2, SnapInvIs
  <2>4. values = ValuesOf(od, pdo[t])
    BY <2>3, OneMember DEF SnapOK
  <2> QED
    BY <2>3, <2>4 DEF SnapOK, EncodesTo
<1> QED
  BY <1>1, TypeCorrect, ExchangeInvariant, PTL

(* Only DecodeSignal and KeywordWrite write the dictionary, and both refuse  *)
(* an entry declared ro or const and a value that does not fit its type: a   *)
(* wrongly typed value can only be one that was there at start-up.           *)
THEOREM WritesAreCheckedHolds == Spec => WritesAreChecked
<1> DEFINE Checked == \A k \in Entries : od'[k] # od[k] =>
                         Writable(k) /\ Compatible(TypeOf[k], od'[k])
<1>1. TypeOK /\ [Next]_vars => [Checked]_vars
  <2> SUFFICES ASSUME TypeOK, [Next]_vars, NEW k \in Entries, od'[k] # od[k]
               PROVE  Writable(k) /\ Compatible(TypeOf[k], od'[k])
    OBVIOUS
  <2>1. \A e \in Entries : \A v : Store(e, v) => e = k /\ od'[k] = v
    BY DEF TypeOK, Store
  <2>2. CASE DecodeSignal
    <3>1. /\ Store(Signal("rx").key, RawValue("rx"))
          /\ Signal("rx").key \in Entries /\ Writable(Signal("rx").key)
          /\ Compatible(TypeOf[Signal("rx").key], RawValue("rx"))
      BY <2>2, AcceptedSignal DEF DecodeSignal
    <3> QED
      BY <2>1, <3>1
  <2>3. ASSUME NEW e \in Entries, KeywordWrite(e)
        PROVE  Writable(k) /\ Compatible(TypeOf[k], od'[k])
    <3>1. Writable(e) /\ \E v : Compatible(TypeOf[e], v) /\ Store(e, v)
      BY <2>3 DEF KeywordWrite
    <3> QED
      BY <2>1, <3>1
  <2>4. CASE ~DecodeSignal /\ \A e \in Entries : ~KeywordWrite(e)
    BY <2>4 DEF Next, RxStep, EncodeStep, FrameSync, FrameRpdo, DecodeThrows, DecodeEnd,
       DecodeLeave, SendSynchronousTpdo, SendTpdo, EncodeBegin, EncodeSignal, EncodeThrows,
       EncodeEnd, EncodeLeave, vars
  <2> QED
    BY <2>2, <2>3, <2>4
<1> QED
  BY <1>1, TypeCorrect, PTL DEF Spec, WritesAreChecked

(* DecodePdoPayload stops at the first signal that a short frame does not    *)
(* hold whole: an entry it changes has all its bytes in the frame.           *)
THEOREM NothingBeyondPayloadHolds == Spec => NothingBeyondPayload
<1> DEFINE Held == \A k \in Entries :
               ordinal'["rx"] # ordinal["rx"] /\ od'[k] # od[k] =>
                  \E o \in 1 .. Len(Mapping(pdo["rx"])) :
                      /\ Mapping(pdo["rx"])[o].key = k
                      /\ Before(pdo["rx"], o) <= Len(frame)
<1>1. TypeOK /\ ExchangeInv /\ [Next]_vars => [Held]_vars
  <2> SUFFICES ASSUME TypeOK, FrameInv, [Next]_vars, NEW k \in Entries,
                      ordinal'["rx"] # ordinal["rx"], od'[k] # od[k]
               PROVE  \E o \in 1 .. Len(Mapping(pdo["rx"])) :
                          /\ Mapping(pdo["rx"])[o].key = k
                          /\ Before(pdo["rx"], o) <= Len(frame)
    BY DEF ExchangeInv
  <2>1. DecodeSignal
    BY DEF Next, RxStep, EncodeStep, FrameSync, FrameRpdo, DecodeThrows, DecodeEnd,
       DecodeLeave, SendSynchronousTpdo, SendTpdo, EncodeBegin, EncodeSignal, EncodeThrows,
       EncodeEnd, EncodeLeave, KeywordWrite, vars
  <2>2. /\ pc["rx"] = "decode" /\ HasSignal("rx")
        /\ Store(Signal("rx").key, RawValue("rx"))
        /\ pc' = pc /\ pdo' = pdo /\ frame' = frame
        /\ ordinal' = [ordinal EXCEPT !["rx"] = ordinal["rx"] + 1]
    BY <2>1 DEF DecodeSignal, Advance
  <2>3. "rx" \in Threads
    BY DEF Threads
  <2>4. ordinal["rx"] \in 1 .. Len(Mapping(pdo["rx"]))
    BY <2>2, <2>3, SignalType
  <2>5. Mapping(pdo["rx"])[ordinal["rx"]].key = k
    BY <2>2 DEF Store, Signal, TypeOK
  <2>6. ordinal'["rx"] - 1 = ordinal["rx"]
    <3>1. ordinal'["rx"] = ordinal["rx"] + 1 /\ ordinal["rx"] \in Nat
      BY <2>2, <2>3 DEF TypeOK
    <3> QED
      BY <3>1
  <2>7. FrameInv'
    BY FrameStep
  <2>8. Before(pdo["rx"], ordinal["rx"]) <= Len(frame)
    BY <2>2, <2>6, <2>7, FrameInvIs DEF FrameOK
  <2> QED
    BY <2>4, <2>5, <2>8
<1> QED
  BY <1>1, TypeCorrect, ExchangeInvariant, PTL DEF Spec, NothingBeyondPayload

=============================================================================
