--------------------------- MODULE TransportProofs ---------------------------
(***************************************************************************)
(* For bytes of any number of values, length fields and connections of any *)
(* size, and all messages that fit: send_message and recv_message keep the *)
(* two ends in step whatever pieces the bytes move in, and implement an    *)
(* exchange of whole messages.                                             *)
(*                                                                         *)
(* For cells of any number of values, seeds and rings of any size, all     *)
(* messages whose counts fit and any buffer: what the wire format writes   *)
(* it reads back, what is cut it rejects, and it accepts nothing else.     *)
(***************************************************************************)
EXTENDS Transport, WireProtocol, SequenceTheorems, WellFoundedInduction, TLAPS

(* Induction over the natural numbers, for sets of them. *)

LEMMA LessIsWellFounded == IsWellFoundedOn({p \in Nat \X Nat : p[1] < p[2]}, Nat)
BY NatLessThanWellFounded DEF OpToRel

\* Numbers have a least one.
LEMMA LeastNumber ==
  ASSUME NEW T, T \subseteq Nat, T # {}
  PROVE  \E x \in T : \A y \in T : x <= y
<1>1. PICK x \in T : \A y \in T : ~ (<<y, x>> \in {p \in Nat \X Nat : p[1] < p[2]})
  BY LessIsWellFounded, WFMin
<1>2. \A y \in T : ~ (y < x)
  BY <1>1
<1>3. QED
  BY <1>2

\* A set that holds 0 and, below n, the successor of what it holds.
LEMMA Induction ==
  ASSUME NEW n \in Nat, NEW T, 0 \in T, \A k \in 0 .. n - 1 : k \in T => k + 1 \in T
  PROVE  \A k \in 0 .. n : k \in T
<1> SUFFICES ASSUME NEW m \in 0 .. n, m \notin T PROVE FALSE
  OBVIOUS
<1> DEFINE Missing == {k \in 0 .. n : k \notin T}
<1>1. PICK k \in Missing : \A j \in Missing : k <= j
  <2>1. Missing \subseteq Nat /\ Missing # {}
    OBVIOUS
  <2>2. QED
    BY <2>1, LeastNumber
<1>2. k - 1 \in 0 .. n - 1 /\ k - 1 \notin Missing
  BY <1>1
<1>3. k - 1 \in T
  BY <1>2
<1>4. (k - 1) + 1 \in T
  BY <1>2, <1>3
<1>5. QED
  BY <1>1, <1>4

----------------------------------------------------------------------------
(* Powers of Base. *)

\* power lists the powers of Base.
Powers(power, n) ==
  power \in [0 .. n -> Nat \ {0}] /\ power[0] = 1
  /\ \A k \in 1 .. n : power[k] = Base * power[k - 1]

LEMMA BaseFacts == Base \in Nat \ {0, 1} /\ LenBytes \in Nat \ {0} /\ Capacity \in Nat \ {0}
BY TransportAssumption

LEMMA PowersExist == ASSUME NEW n \in Nat PROVE \E power : Powers(power, n)
<1> DEFINE T == {m \in 0 .. n : \E power : Powers(power, m)}
<1>1. 0 \in T
  <2>1. Powers([k \in 0 .. 0 |-> 1], 0)
    BY DEF Powers
  <2>2. QED
    BY <2>1
<1>2. ASSUME NEW k \in 0 .. n - 1, k \in T PROVE k + 1 \in T
  <2>1. PICK f : Powers(f, k)
    BY <1>2
  <2> DEFINE next == Base * f[k]
             g == [i \in 0 .. k + 1 |-> IF i = k + 1 THEN next ELSE f[i]]
  <2>2. next \in Nat \ {0}
    <3>1. f[k] \in Nat \ {0}
      BY <2>1 DEF Powers
    <3>2. Base \in Nat \ {0}
      BY BaseFacts
    <3>3. QED
      BY <3>1, <3>2
  <2>3. next = Base * f[k]
    OBVIOUS
  <2> HIDE DEF next
  <2>4. \A i \in 0 .. k : g[i] = f[i] /\ f[i] \in Nat \ {0}
    BY <2>1 DEF Powers
  <2>5. g \in [0 .. k + 1 -> Nat \ {0}] /\ g[0] = 1 /\ g[k + 1] = Base * g[k]
    BY <2>1, <2>2, <2>3, <2>4 DEF Powers
  <2> HIDE DEF g
  <2>6. \A i \in 1 .. k + 1 : g[i] = Base * g[i - 1]
    <3> SUFFICES ASSUME NEW i \in 1 .. k + 1 PROVE g[i] = Base * g[i - 1]
      OBVIOUS
    <3>1. CASE i = k + 1
      <4>1. i - 1 = k
        BY <3>1
      <4>2. QED
        BY <2>5, <3>1, <4>1
    <3>2. CASE i # k + 1
      <4>1. i \in 1 .. k /\ i \in 0 .. k /\ i - 1 \in 0 .. k
        BY <3>2
      <4>2. f[i] = Base * f[i - 1]
        BY <2>1, <4>1 DEF Powers
      <4>3. QED
        BY <2>4, <4>1, <4>2
    <3>3. QED
      BY <3>1, <3>2
  <2>7. Powers(g, k + 1)
    BY <2>5, <2>6 DEF Powers
  <2>8. QED
    BY <2>7
<1> HIDE DEF T
<1>3. n \in T
  BY <1>1, <1>2, Induction
<1>4. QED
  BY <1>3 DEF T

LEMMA PowerIs == ASSUME NEW n \in Nat, NEW power, Powers(power, n) PROVE Power(n) = power[n]
<1> DEFINE Def(g) == g = [i \in 0 .. n |-> IF i = 0 THEN 1 ELSE Base * g[i - 1]]
           g == CHOOSE g : Def(g)
           T == {i \in 0 .. n : g[i] = power[i]}
<1>1. Def(power)
  BY DEF Powers
<1>2. Def(g)
  BY <1>1
<1>3. Power(n) = g[n]
  BY DEF Power
<1> HIDE DEF g
<1>4. 0 \in T
  BY <1>2 DEF Powers
<1>5. ASSUME NEW k \in 0 .. n - 1, k \in T PROVE k + 1 \in T
  <2>1. k + 1 \in 0 .. n /\ k + 1 # 0 /\ (k + 1) - 1 = k /\ k + 1 \in 1 .. n
    OBVIOUS
  <2>2. g[k + 1] = Base * g[k]
    BY <1>2, <2>1
  <2>3. power[k + 1] = Base * power[k]
    BY <2>1 DEF Powers
  <2>4. g[k + 1] = power[k + 1]
    BY <1>5, <2>2, <2>3
  <2>5. QED
    BY <2>1, <2>4
<1> HIDE DEF T
<1>6. n \in T
  BY <1>4, <1>5, Induction
<1>7. QED
  BY <1>3, <1>6 DEF T

LEMMA PowerSteps ==
  ASSUME NEW k \in Nat
  PROVE  Power(0) = 1 /\ Power(k) \in Nat \ {0} /\ Power(k + 1) = Base * Power(k)
<1>1. PICK f : Powers(f, k + 1)
  BY PowersExist
<1>2. \A i \in 0 .. k + 1 : Power(i) = f[i]
  <2> SUFFICES ASSUME NEW i \in 0 .. k + 1 PROVE Power(i) = f[i]
    OBVIOUS
  <2> DEFINE g == [j \in 0 .. i |-> f[j]]
  <2>1. Powers(g, i)
    BY <1>1 DEF Powers
  <2>2. Power(i) = g[i]
    BY <2>1, PowerIs
  <2>3. QED
    BY <2>2
<1>3. QED
  BY <1>1, <1>2 DEF Powers

----------------------------------------------------------------------------
(* The length field. *)

\* The least digits of n are its residue, one digit more is the next residue.
LEMMA NextDigit ==
  ASSUME NEW n \in Nat, NEW p \in Nat \ {0}, NEW b \in Nat \ {0}
  PROVE  n % (b * p) = (n % p) + ((n \div p) % b) * p
<1> DEFINE q == n \div p
           r == n % p
           q2 == q \div b
           d == q % b
<1>1. q \in Nat /\ r \in 0 .. p - 1 /\ n = p * q + r
  OBVIOUS
<1>2. q2 \in Nat /\ d \in 0 .. b - 1 /\ q = b * q2 + d
  <2> HIDE DEF q
  <2>1. QED
    BY <1>1
<1> HIDE DEF q, r, q2, d
<1>3. n = (b * p) * q2 + (d * p + r)
  <2>1. n = p * (b * q2 + d) + r
    BY <1>1, <1>2
  <2>2. p * (b * q2 + d) = (b * p) * q2 + d * p
    BY <1>1, <1>2
  <2>3. QED
    BY <1>1, <1>2, <2>1, <2>2
<1>4. b * p \in Nat \ {0} /\ d * p \in Nat /\ d * p + r \in 0 .. (b * p) - 1
  <2>1. b * p \in Nat \ {0} /\ d * p \in Nat
    BY <1>2
  <2>2. (b - 1) * p - d * p = (b - 1 - d) * p /\ (b - 1 - d) * p >= 0
    BY <1>2
  <2>3. b * p = (b - 1) * p + p
    BY <1>2
  <2>4. QED
    BY <1>1, <1>2, <2>1, <2>2, <2>3
<1> DEFINE m == b * p
           s == d * p + r
<1>5. m \in Nat \ {0} /\ s \in 0 .. m - 1 /\ n = m * q2 + s
  BY <1>1, <1>3, <1>4
<1> HIDE DEF m, s
<1>6. n % m = s
  BY <1>2, <1>5
<1>7. QED
  BY <1>1, <1>6 DEF m, s, q, r, d

LEMMA ValueIs ==
  ASSUME NEW bytes, NEW value \in [0 .. LenBytes -> Int], value[0] = 0,
         \A i \in 1 .. LenBytes : value[i] = value[i - 1] + bytes[i] * Power(i - 1)
  PROVE  Value(bytes) = value[LenBytes]
<1> DEFINE n == LenBytes
           Def(g) == g = [i \in 0 .. n |-> IF i = 0 THEN 0
                                           ELSE g[i - 1] + bytes[i] * Power(i - 1)]
           g == CHOOSE g : Def(g)
           T == {i \in 0 .. n : g[i] = value[i]}
<1>1. Def(value)
  OBVIOUS
<1>2. Def(g)
  BY <1>1
<1>3. Value(bytes) = g[n]
  BY DEF Value
<1>4. n \in Nat
  BY BaseFacts
<1> HIDE DEF g
<1>5. 0 \in T
  BY <1>2, <1>4
<1>6. ASSUME NEW k \in 0 .. n - 1, k \in T PROVE k + 1 \in T
  <2>1. k + 1 \in 0 .. n /\ k + 1 # 0 /\ (k + 1) - 1 = k /\ k + 1 \in 1 .. n
    BY <1>4
  <2>2. g[k + 1] = g[k] + bytes[k + 1] * Power(k)
    BY <1>2, <2>1
  <2>3. value[k + 1] = value[k] + bytes[k + 1] * Power(k)
    BY <2>1
  <2>4. g[k + 1] = value[k + 1]
    BY <1>6, <2>2, <2>3
  <2>5. QED
    BY <2>1, <2>4
<1> HIDE DEF T, n
<1>7. n \in T
  <2>1. \A k \in 0 .. n : k \in T
    BY <1>4, <1>5, <1>6, Induction
  <2>2. QED
    BY <1>4, <2>1
<1>8. QED
  BY <1>3, <1>7 DEF T, n

\* The receiver reads the length the sender wrote.
LEMMA LengthIsRead ==
  ASSUME NEW size \in Nat, size < LenMod
  PROVE  /\ Len32(size) \in Seq(Bytes) /\ Len(Len32(size)) = LenBytes
         /\ Value(Len32(size)) = size
<1>1. LenMod \in Nat \ {0} /\ LenMod = Power(LenBytes) /\ LenBytes \in Nat
  BY PowerSteps, BaseFacts DEF LenMod
<1>2. size % LenMod = size
  BY <1>1
<1>3. \A i \in 1 .. LenBytes : i - 1 \in Nat /\ Power(i - 1) \in Nat \ {0}
  BY <1>1, PowerSteps
<1>4. \A i \in 1 .. LenBytes :
        /\ (size \div Power(i - 1)) % Base \in Bytes
        /\ Len32(size)[i] = (size \div Power(i - 1)) % Base
  <2> SUFFICES ASSUME NEW i \in 1 .. LenBytes
               PROVE  /\ (size \div Power(i - 1)) % Base \in Bytes
                      /\ Len32(size)[i] = (size \div Power(i - 1)) % Base
    OBVIOUS
  <2>1. size \div Power(i - 1) \in Int
    BY <1>3
  <2>2. (size \div Power(i - 1)) % Base \in Bytes
    BY <2>1, BaseFacts DEF Bytes
  <2>3. QED
    BY <1>2, <2>2 DEF Len32
<1>5. Len32(size) \in Seq(Bytes) /\ Len(Len32(size)) = LenBytes
  <2>1. Len32(size) \in [1 .. LenBytes -> Bytes]
    BY <1>4 DEF Len32
  <2>2. QED
    BY <1>1, <2>1
<1> DEFINE value == [i \in 0 .. LenBytes |-> size % Power(i)]
<1>6. value \in [0 .. LenBytes -> Int] /\ value[0] = 0
  <2>1. \A i \in 0 .. LenBytes : size % Power(i) \in Int
    <3> SUFFICES ASSUME NEW i \in 0 .. LenBytes PROVE size % Power(i) \in Int
      OBVIOUS
    <3>1. Power(i) \in Nat \ {0}
      BY <1>1, PowerSteps
    <3>2. QED
      BY <3>1
  <2>2. size % Power(0) = 0
    <3>1. Power(0) = 1
      BY PowerSteps
    <3>2. QED
      BY <3>1
  <2>3. QED
    BY <1>1, <2>1, <2>2
<1>7. ASSUME NEW i \in 1 .. LenBytes
      PROVE  value[i] = value[i - 1] + Len32(size)[i] * Power(i - 1)
  <2>1. i - 1 \in Nat /\ (i - 1) + 1 = i /\ i \in 0 .. LenBytes /\ i - 1 \in 0 .. LenBytes
    BY <1>1
  <2>2. Power(i) = Base * Power(i - 1) /\ Power(i - 1) \in Nat \ {0}
    BY <2>1, PowerSteps
  <2>3. size % (Base * Power(i - 1))
          = (size % Power(i - 1)) + ((size \div Power(i - 1)) % Base) * Power(i - 1)
    BY <2>2, NextDigit, BaseFacts
  <2>4. QED
    BY <1>4, <2>1, <2>2, <2>3
<1> HIDE DEF value
<1>8. Value(Len32(size)) = value[LenBytes]
  BY <1>6, <1>7, ValueIs
<1>9. value[LenBytes] = size
  BY <1>1, <1>2 DEF value
<1>10. QED
  BY <1>5, <1>8, <1>9

----------------------------------------------------------------------------
(* The bytes of a message and pieces of them. *)

\* The bytes of a message, and where its parts begin and end in them.
Wire(m) == (Parts(m)[1] \o Parts(m)[2]) \o Parts(m)[3]
PartLen(m, k) == IF k = 1 THEN 1 ELSE IF k = 2 THEN LenBytes ELSE Len(m.payload)
Before(k) == IF k = 1 THEN 0 ELSE IF k = 2 THEN 1 ELSE 1 + LenBytes
Total(m) == 1 + LenBytes + Len(m.payload)

\* s is the bytes of w from a to b.
Slice(s, w, a, b) ==
  /\ s \in Seq(Bytes) /\ a \in Nat /\ b \in a .. Len(w) /\ Len(s) = b - a
  /\ \A i \in 1 .. b - a : s[i] = w[a + i]

LEMMA SliceEqual ==
  ASSUME NEW w, NEW a, NEW b, NEW s, NEW t, Slice(s, w, a, b), Slice(t, w, a, b)
  PROVE  s = t
<1>1. s \in Seq(Bytes) /\ t \in Seq(Bytes) /\ Len(s) = b - a /\ Len(t) = b - a
  BY DEF Slice
<1>2. \A i \in 1 .. Len(s) : s[i] = t[i]
  BY <1>1 DEF Slice
<1>3. QED
  BY <1>1, <1>2, SeqEqual

\* Pieces that meet make one.
LEMMA SliceConcat ==
  ASSUME NEW w \in Seq(Bytes), NEW a, NEW b, NEW c, NEW s, NEW t,
         Slice(s, w, a, b), Slice(t, w, b, c)
  PROVE  Slice(s \o t, w, a, c)
<1>1. /\ s \in Seq(Bytes) /\ t \in Seq(Bytes) /\ Len(s) = b - a /\ Len(t) = c - b
      /\ Len(w) \in Nat /\ a \in Nat /\ b \in a .. Len(w) /\ c \in b .. Len(w)
  BY DEF Slice
<1>2. /\ s \o t \in Seq(Bytes) /\ Len(s \o t) = Len(s) + Len(t)
      /\ \A i \in 1 .. Len(s) + Len(t) : (s \o t)[i] = IF i <= Len(s) THEN s[i] ELSE t[i - Len(s)]
  BY <1>1, ConcatProperties
<1>3. b \in Nat /\ c \in a .. Len(w) /\ Len(s \o t) = c - a
  BY <1>1, <1>2
<1>4. ASSUME NEW i \in 1 .. c - a PROVE (s \o t)[i] = w[a + i]
  <2>1. i \in 1 .. Len(s) + Len(t)
    BY <1>1, <1>3
  <2>2. CASE i <= Len(s)
    <3>1. i \in 1 .. b - a /\ (s \o t)[i] = s[i]
      BY <1>1, <1>2, <1>3, <2>1, <2>2
    <3>2. QED
      BY <3>1 DEF Slice
  <2>3. CASE ~ (i <= Len(s))
    <3>1. i - Len(s) \in 1 .. c - b /\ (s \o t)[i] = t[i - Len(s)]
      BY <1>1, <1>2, <1>3, <2>1, <2>3
    <3>2. t[i - Len(s)] = w[b + (i - Len(s))]
      BY <3>1 DEF Slice
    <3>3. b + (i - Len(s)) = a + i
      BY <1>1, <1>3
    <3>4. QED
      BY <3>1, <3>2, <3>3
  <2>4. QED
    BY <2>2, <2>3
<1>5. QED
  BY <1>1, <1>2, <1>3, <1>4 DEF Slice

\* A piece of a piece.
LEMMA SliceOfSlice ==
  ASSUME NEW w \in Seq(Bytes), NEW a, NEW b, NEW s, Slice(s, w, a, b),
         NEW x \in Nat, NEW y \in x .. b - a
  PROVE  Slice(SubSeq(s, x + 1, y), w, a + x, a + y)
<1>1. /\ s \in Seq(Bytes) /\ Len(s) = b - a /\ Len(w) \in Nat /\ a \in Nat /\ b \in a .. Len(w)
      /\ b \in Nat /\ y \in Nat
  BY DEF Slice
<1>2. \A i \in x + 1 .. y : s[i] \in Bytes
  <2> SUFFICES ASSUME NEW i \in x + 1 .. y PROVE s[i] \in Bytes
    OBVIOUS
  <2>1. i \in 1 .. Len(s)
    BY <1>1
  <2>2. QED
    BY <1>1, <2>1
<1>3. x + 1 \in Int /\ y \in Int
  BY <1>1
<1>4. /\ SubSeq(s, x + 1, y) \in Seq(Bytes)
      /\ Len(SubSeq(s, x + 1, y)) = IF x + 1 <= y THEN y - (x + 1) + 1 ELSE 0
      /\ \A i \in 1 .. y - (x + 1) + 1 : SubSeq(s, x + 1, y)[i] = s[(x + 1) + i - 1]
  BY <1>2, <1>3, SubSeqProperties
<1>5. /\ a + x \in Nat /\ a + y \in a + x .. Len(w) /\ (a + y) - (a + x) = y - x
      /\ y - (x + 1) + 1 = y - x /\ Len(SubSeq(s, x + 1, y)) = y - x
  BY <1>1, <1>4
<1>6. ASSUME NEW i \in 1 .. y - x PROVE SubSeq(s, x + 1, y)[i] = w[(a + x) + i]
  <2>1. (x + 1) + i - 1 = x + i /\ x + i \in 1 .. b - a /\ a + (x + i) = (a + x) + i
    BY <1>1
  <2>2. SubSeq(s, x + 1, y)[i] = s[x + i]
    BY <1>4, <1>5, <2>1
  <2>3. s[x + i] = w[a + (x + i)]
    BY <2>1 DEF Slice
  <2>4. QED
    BY <2>1, <2>2, <2>3
<1>7. QED
  BY <1>4, <1>5, <1>6 DEF Slice

LEMMA SliceIsPrefix ==
  ASSUME NEW w \in Seq(Bytes), NEW b, NEW s, Slice(s, w, 0, b)
  PROVE  Len(s) = b /\ b \in 0 .. Len(w) /\ s = SubSeq(w, 1, b)
<1>1. /\ Len(s) = b /\ b \in 0 .. Len(w) /\ Len(w) \in Nat /\ s \in Seq(Bytes) /\ b \in Nat
      /\ \A i \in 1 .. b : s[i] = w[i]
  BY DEF Slice
<1>2. Slice(w, w, 0, Len(w))
  BY <1>1 DEF Slice
<1>3. 0 \in Nat /\ b \in 0 .. Len(w) - 0 /\ 0 + 1 = 1 /\ 0 + 0 = 0 /\ 0 + b = b
  BY <1>1
<1>4. Slice(SubSeq(w, 0 + 1, b), w, 0 + 0, 0 + b)
  BY <1>2, <1>3, SliceOfSlice
<1>5. Slice(SubSeq(w, 1, b), w, 0, b)
  BY <1>3, <1>4
<1>6. QED
  BY <1>1, <1>5, SliceEqual

LEMMA MessageFacts ==
  ASSUME NEW m \in Messages
  PROVE  /\ m = [type |-> m.type, payload |-> m.payload]
         /\ m.type \in Bytes /\ m.payload \in Seq(Bytes) /\ Len(m.payload) \in Nat
         /\ Len(m.payload) < LenMod
BY TransportAssumption

\* The parts of a message are where Before says.
LEMMA WireFacts ==
  ASSUME NEW m \in Messages
  PROVE  /\ Wire(m) \in Seq(Bytes) /\ Len(Wire(m)) = Total(m) /\ Total(m) \in Nat
         /\ \A k \in 1 .. 3 : Slice(Parts(m)[k], Wire(m), Before(k), Before(k) + PartLen(m, k))
         /\ \A k \in 1 .. 3 : Len(Parts(m)[k]) = PartLen(m, k) /\ PartLen(m, k) \in Nat
<1> DEFINE a == Parts(m)[1]
           b == Parts(m)[2]
           c == Parts(m)[3]
           l == Len(m.payload)
<1>1. a = <<m.type>> /\ b = Len32(Len(m.payload)) /\ c = m.payload
  BY DEF Parts
<1>2. /\ a \in Seq(Bytes) /\ b \in Seq(Bytes) /\ c \in Seq(Bytes)
      /\ Len(a) = 1 /\ Len(b) = LenBytes /\ Len(c) = l /\ l \in Nat /\ LenBytes \in Nat
  BY <1>1, MessageFacts, LengthIsRead, BaseFacts
<1>3. Wire(m) = (a \o b) \o c
  BY DEF Wire
<1> HIDE DEF a, b, c, l
<1> DEFINE front == a \o b
<1>4. /\ front \in Seq(Bytes) /\ Len(front) = 1 + LenBytes
      /\ \A i \in 1 .. Len(a) + Len(b) : front[i] = IF i <= Len(a) THEN a[i] ELSE b[i - Len(a)]
  BY <1>2, ConcatProperties
<1>0. Wire(m) = front \o c
  BY <1>3
<1> HIDE DEF front
<1>5. /\ Wire(m) \in Seq(Bytes) /\ Len(Wire(m)) = Len(front) + Len(c)
      /\ \A i \in 1 .. Len(front) + Len(c) :
           Wire(m)[i] = IF i <= Len(front) THEN front[i] ELSE c[i - Len(front)]
  <2>1. ASSUME NEW x \in Seq(Bytes), NEW y \in Seq(Bytes), NEW z, z = x \o y
        PROVE  /\ z \in Seq(Bytes) /\ Len(z) = Len(x) + Len(y)
               /\ \A i \in 1 .. Len(x) + Len(y) : z[i] = IF i <= Len(x) THEN x[i] ELSE y[i - Len(x)]
    BY <2>1, ConcatProperties
  <2>2. QED
    BY <1>2, <1>0, <1>4, <2>1
<1>6. Len(Wire(m)) = 1 + LenBytes + l
  BY <1>2, <1>4, <1>5
<1>7. Slice(a, Wire(m), 0, 1)
  <2>1. Wire(m)[1] = a[1]
    <3>1. 1 \in 1 .. Len(a) + Len(b) /\ 1 \in 1 .. Len(front) + Len(c) /\ 1 <= Len(front)
      BY <1>2, <1>4
    <3>2. QED
      BY <1>2, <1>4, <1>5, <3>1
  <2>2. \A i \in 1 .. 1 - 0 : i = 1 /\ 0 + i = 1
    OBVIOUS
  <2>3. 1 \in 0 .. Len(Wire(m)) /\ Len(a) = 1 - 0
    BY <1>2, <1>6
  <2>4. QED
    BY <1>2, <2>1, <2>2, <2>3 DEF Slice
<1>8. Slice(b, Wire(m), 1, 1 + LenBytes)
  <2>1. ASSUME NEW i \in 1 .. (1 + LenBytes) - 1 PROVE b[i] = Wire(m)[1 + i]
    <3>1. /\ 1 + i \in 1 .. Len(a) + Len(b) /\ 1 + i \in 1 .. Len(front) + Len(c)
          /\ 1 + i <= Len(front) /\ ~ (1 + i <= Len(a)) /\ (1 + i) - Len(a) = i
      BY <1>2, <1>4
    <3>2. QED
      BY <1>4, <1>5, <3>1
  <2>2. 1 + LenBytes \in 1 .. Len(Wire(m)) /\ Len(b) = (1 + LenBytes) - 1
    BY <1>2, <1>6
  <2>3. QED
    BY <1>2, <2>1, <2>2 DEF Slice
<1>9. Slice(c, Wire(m), 1 + LenBytes, (1 + LenBytes) + l)
  <2>1. ASSUME NEW i \in 1 .. ((1 + LenBytes) + l) - (1 + LenBytes)
        PROVE  c[i] = Wire(m)[(1 + LenBytes) + i]
    <3> DEFINE at == (1 + LenBytes) + i
    <3>1. /\ at \in 1 .. Len(front) + Len(c) /\ ~ (at <= Len(front)) /\ at - Len(front) = i
      BY <1>2, <1>4
    <3> HIDE DEF at
    <3>2. Wire(m)[at] = c[i]
      BY <1>5, <3>1
    <3>3. QED
      BY <3>2 DEF at
  <2>2. /\ (1 + LenBytes) + l \in 1 + LenBytes .. Len(Wire(m)) /\ 1 + LenBytes \in Nat
        /\ Len(c) = ((1 + LenBytes) + l) - (1 + LenBytes)
    BY <1>2, <1>6
  <2>3. QED
    BY <1>2, <2>1, <2>2 DEF Slice
<1>10. ASSUME NEW k \in 1 .. 3
       PROVE  /\ Slice(Parts(m)[k], Wire(m), Before(k), Before(k) + PartLen(m, k))
              /\ Len(Parts(m)[k]) = PartLen(m, k) /\ PartLen(m, k) \in Nat
  <2>1. CASE k = 1
    <3>1. Before(k) = 0 /\ PartLen(m, k) = 1 /\ Parts(m)[k] = a
      BY <2>1 DEF Before, PartLen, a
    <3>2. QED
      BY <1>2, <1>7, <3>1
  <2>2. CASE k = 2
    <3>1. Before(k) = 1 /\ PartLen(m, k) = LenBytes /\ Parts(m)[k] = b
      BY <2>2 DEF Before, PartLen, b
    <3>2. QED
      BY <1>2, <1>8, <3>1
  <2>3. CASE k = 3
    <3>1. Before(k) = 1 + LenBytes /\ PartLen(m, k) = l /\ Parts(m)[k] = c
      BY <2>3 DEF Before, PartLen, c, l
    <3>2. QED
      BY <1>2, <1>9, <3>1
  <2>4. QED
    BY <2>1, <2>2, <2>3
<1>11. Total(m) = 1 + LenBytes + l
  BY DEF Total, l
<1>12. Total(m) \in Nat
  BY <1>2, <1>11
<1>13. QED
  BY <1>5, <1>6, <1>10, <1>11, <1>12

----------------------------------------------------------------------------
(* The inductive invariant. *)

\* The bytes in the parts of a frame.
Read(f) == Len(f[1]) + Len(f[2]) + Len(f[3])

\* f has the parts of m before k, and nothing after it.
Filled(m, f, k) ==
  \A j \in 1 .. 3 : /\ j < k => Len(f[j]) = PartLen(m, j)
                    /\ j > k => Len(f[j]) = 0

\* Nothing of m is lost or changes places on the way: f has been read of it and
\* s follows.
Channel(m, f, s) ==
  /\ f \in [1 .. 3 -> Seq(Bytes)]
  /\ \A k \in 1 .. 3 : /\ Slice(f[k], Wire(m), Before(k), Before(k) + Len(f[k]))
                       /\ Len(f[k]) <= PartLen(m, k)
  /\ Slice(s, Wire(m), Read(f), Read(f) + Len(s)) /\ Len(s) <= Capacity
  /\ \E k \in 1 .. 3 : Filled(m, f, k)

\* The bytes that have been sent to e.
SentTo(e) == Read(frame[e]) + Len(stream[e])

Types ==
  /\ out \in [Ends -> Messages] /\ closed \in [Ends -> BOOLEAN]
  /\ pc \in [Ends -> {"send", "recv", "done", "failed"}]
  /\ part \in [Ends -> 1 .. 3] /\ moved \in [Ends -> Nat]
  /\ stream \in [Ends -> Seq(Bytes)] /\ frame \in [Ends -> [1 .. 3 -> Seq(Bytes)]]
  /\ got \in [Ends -> Messages \cup {Nothing}]

Carried(e) == Channel(out[Peer(e)], frame[e], stream[e])

\* e waits for the rest of a part.
Reading(e) ==
  pc[e] = "recv" =>
    /\ Filled(out[Peer(e)], frame[e], part[e])
    /\ Len(frame[e][part[e]]) < PartLen(out[Peer(e)], part[e])
    /\ moved[e] = 0 /\ got[e] = Nothing

\* e has sent what its place in send_message says.
Sending(e) ==
  /\ pc[e] = "send" =>
       /\ moved[e] < PartLen(out[e], part[e])
       /\ SentTo(Peer(e)) = Before(part[e]) + moved[e]
  /\ pc[e] = "done" \/ (e = Client /\ pc[e] = "recv") => SentTo(Peer(e)) = Total(out[e])

\* The client reads nothing before it has sent, the server sends nothing before
\* it has read.
Turns ==
  /\ pc[Client] = "send" => Read(frame[Client]) = 0 /\ got[Client] = Nothing
  /\ got[Server] = Nothing => SentTo(Client) = 0
  /\ pc[Server] \in {"send", "done"} => got[Server] # Nothing
  /\ pc[Client] = "done" => got[Client] # Nothing
  /\ \A e \in Ends : got[e] \in {Nothing, out[Peer(e)]}

IInv == Types /\ Turns /\ \A e \in Ends : Carried(e) /\ Reading(e) /\ Sending(e)

LEMMA PeerFacts ==
  ASSUME NEW e \in Ends
  PROVE  /\ Peer(e) \in Ends /\ Peer(e) # e /\ Peer(Peer(e)) = e
         /\ \A f \in Ends : f = e \/ f = Peer(e)
         /\ Client \in Ends /\ Server \in Ends /\ Client # Server
         /\ Peer(Client) = Server /\ Peer(Server) = Client
BY TransportAssumption DEF Ends, Peer

----------------------------------------------------------------------------
(* Bytes on their way. *)

\* A frame that is filled up to k has the bytes before k and those of part k.
LEMMA ReadIs ==
  ASSUME NEW m \in Messages, NEW f, NEW s, Channel(m, f, s), NEW k \in 1 .. 3, Filled(m, f, k)
  PROVE  /\ Read(f) = Before(k) + Len(f[k]) /\ Read(f) \in Nat /\ Before(k) \in Nat
         /\ Len(f[k]) \in Nat /\ Len(s) \in Nat
<1>1. \A j \in 1 .. 3 : Len(f[j]) \in Nat
  <2> SUFFICES ASSUME NEW j \in 1 .. 3 PROVE Len(f[j]) \in Nat
    OBVIOUS
  <2>1. f[j] \in Seq(Bytes)
    BY DEF Channel, Slice
  <2>2. QED
    BY <2>1
<1>2. s \in Seq(Bytes)
  BY DEF Channel, Slice
<1>3. LenBytes \in Nat
  BY BaseFacts
<1>4. Read(f) = Before(k) + Len(f[k])
  <2>1. Len(f[1]) \in Nat /\ Len(f[2]) \in Nat /\ Len(f[3]) \in Nat
    BY <1>1
  <2>2. CASE k = 1
    <3>1. Len(f[2]) = 0 /\ Len(f[3]) = 0 /\ Before(k) = 0
      BY <2>2 DEF Filled, Before
    <3>2. QED
      BY <2>1, <2>2, <3>1 DEF Read
  <2>3. CASE k = 2
    <3>1. Len(f[1]) = 1 /\ Len(f[3]) = 0 /\ Before(k) = 1
      BY <2>3 DEF Filled, Before, PartLen
    <3>2. QED
      BY <2>1, <2>3, <3>1 DEF Read
  <2>4. CASE k = 3
    <3>1. Len(f[1]) = 1 /\ Len(f[2]) = LenBytes /\ Before(k) = 1 + LenBytes
      BY <2>4 DEF Filled, Before, PartLen
    <3>2. QED
      BY <1>3, <2>1, <2>4, <3>1 DEF Read
  <2>5. QED
    BY <2>2, <2>3, <2>4
<1>5. Before(k) \in Nat
  BY <1>3 DEF Before
<1>6. QED
  BY <1>1, <1>2, <1>4, <1>5

\* A part that is read in full is the part that was sent.
LEMMA PartIs ==
  ASSUME NEW m \in Messages, NEW f, NEW s, Channel(m, f, s), NEW k \in 1 .. 3,
         Len(f[k]) = PartLen(m, k)
  PROVE  f[k] = Parts(m)[k]
<1>1. Slice(f[k], Wire(m), Before(k), Before(k) + PartLen(m, k))
  BY DEF Channel
<1>2. Slice(Parts(m)[k], Wire(m), Before(k), Before(k) + PartLen(m, k))
  BY WireFacts
<1>3. QED
  BY <1>1, <1>2, SliceEqual

\* g is f with n bytes of s in part k, and t what is left of s.
Taken(m, f, s, k, n, g, t) ==
  /\ n \in 1 .. Len(s) /\ Len(f[k]) + n <= PartLen(m, k)
  /\ g = [f EXCEPT ![k] = @ \o SubSeq(s, 1, n)] /\ t = SubSeq(s, n + 1, Len(s))

\* As many bytes are counted as before.
Conserved(f, s, k, n, g, t) ==
  Len(g[k]) = Len(f[k]) + n /\ Read(g) + Len(t) = Read(f) + Len(s)

\* recv() moves bytes of the part that is being read.
LEMMA ReadMore ==
  ASSUME NEW m \in Messages, NEW f, NEW s, NEW k \in 1 .. 3, NEW n, NEW g, NEW t,
         Channel(m, f, s), Filled(m, f, k), Taken(m, f, s, k, n, g, t)
  PROVE  Channel(m, g, t) /\ Filled(m, g, k) /\ Conserved(f, s, k, n, g, t)
<1> DEFINE w == Wire(m)
           r == Read(f)
           chunk == SubSeq(s, 1, n)
           bytes == f[k] \o chunk
<1>0. /\ n \in 1 .. Len(s) /\ Len(f[k]) + n <= PartLen(m, k)
      /\ g = [f EXCEPT ![k] = @ \o SubSeq(s, 1, n)] /\ t = SubSeq(s, n + 1, Len(s))
  BY DEF Taken
<1>1. /\ r = Before(k) + Len(f[k]) /\ r \in Nat /\ Before(k) \in Nat /\ Len(f[k]) \in Nat
      /\ Len(s) \in Nat /\ n \in Nat
  <2>1. Len(s) \in Nat
    BY ReadIs
  <2>2. QED
    BY <1>0, <2>1, ReadIs
<1> HIDE DEF r
<1>2. w \in Seq(Bytes) /\ Len(w) = Total(m) /\ Total(m) \in Nat /\ PartLen(m, k) \in Nat
  BY WireFacts
<1>3. /\ f \in [1 .. 3 -> Seq(Bytes)] /\ Slice(s, w, r, r + Len(s))
      /\ Slice(f[k], w, Before(k), r) /\ Len(s) <= Capacity
  BY <1>1 DEF Channel, r
<1>4. Slice(chunk, w, r, r + n)
  <2> DEFINE b == r + Len(s)
  <2>1. 0 \in Nat /\ n \in 0 .. b - r /\ 0 + 1 = 1 /\ r + 0 = r
    BY <1>0, <1>1
  <2>2. Slice(s, w, r, b)
    BY <1>3
  <2> HIDE DEF b
  <2>3. Slice(SubSeq(s, 0 + 1, n), w, r + 0, r + n)
    BY <1>2, <2>1, <2>2, SliceOfSlice
  <2>4. QED
    BY <2>1, <2>3
<1>5. Slice(t, w, r + n, r + Len(s))
  <2> DEFINE b == r + Len(s)
  <2>1. n \in Nat /\ Len(s) \in n .. b - r
    BY <1>0, <1>1
  <2>2. Slice(s, w, r, b)
    BY <1>3
  <2> HIDE DEF b
  <2>3. Slice(t, w, r + n, r + Len(s))
    BY <1>0, <1>2, <2>1, <2>2, SliceOfSlice
  <2>4. QED
    BY <2>3
<1>6. Slice(bytes, w, Before(k), r + n)
  BY <1>2, <1>3, <1>4, SliceConcat
<1> HIDE DEF chunk
<1>7. /\ bytes \in Seq(Bytes) /\ Len(bytes) = Len(f[k]) + n
      /\ Len(t) = Len(s) - n /\ r + n = Before(k) + Len(bytes)
  <2>1. Len(bytes) = (r + n) - Before(k) /\ bytes \in Seq(Bytes)
    BY <1>6 DEF Slice
  <2>2. Len(t) = (r + Len(s)) - (r + n)
    BY <1>5 DEF Slice
  <2>3. (r + n) - Before(k) = Len(f[k]) + n
    <3> DEFINE x == Before(k)
               y == Len(f[k])
    <3>1. x \in Nat /\ y \in Nat /\ n \in Nat /\ r = x + y
      BY <1>1
    <3> HIDE DEF x, y
    <3>2. (r + n) - x = y + n
      BY <3>1
    <3>3. QED
      BY <3>2 DEF x, y
  <2>4. (r + Len(s)) - (r + n) = Len(s) - n /\ r + n = Before(k) + (Len(f[k]) + n)
    <3> DEFINE x == Before(k)
               y == Len(f[k])
               z == Len(s)
    <3>1. x \in Nat /\ y \in Nat /\ n \in Nat /\ z \in Nat /\ r = x + y
      BY <1>1
    <3> HIDE DEF x, y, z
    <3>2. (r + z) - (r + n) = z - n /\ r + n = x + (y + n)
      BY <3>1
    <3>3. QED
      BY <3>2 DEF x, y, z
  <2>5. QED
    BY <2>1, <2>2, <2>3, <2>4
<1>8. g = [f EXCEPT ![k] = bytes]
  BY <1>0 DEF chunk
<1> HIDE DEF bytes, w, r
<1>9. /\ g \in [1 .. 3 -> Seq(Bytes)] /\ g[k] = bytes
      /\ \A j \in 1 .. 3 : j # k => g[j] = f[j]
  BY <1>3, <1>7, <1>8
<1>10. Filled(m, g, k)
  BY <1>9 DEF Filled
<1>11. Read(g) = r + n
  <2>1. \A j \in 1 .. 3 : Len(f[j]) \in Nat
    <3> SUFFICES ASSUME NEW j \in 1 .. 3 PROVE Len(f[j]) \in Nat
      OBVIOUS
    <3>1. f[j] \in Seq(Bytes)
      BY DEF Channel, Slice
    <3>2. QED
      BY <3>1
  <2>2. Len(g[k]) = Len(f[k]) + n
    BY <1>7, <1>9
  <2>3. \A j \in 1 .. 3 : j # k => Len(g[j]) = Len(f[j])
    BY <1>9
  <2> DEFINE a1 == Len(f[1])
             a2 == Len(f[2])
             a3 == Len(f[3])
             b1 == Len(g[1])
             b2 == Len(g[2])
             b3 == Len(g[3])
  <2>4. a1 \in Nat /\ a2 \in Nat /\ a3 \in Nat
    BY <2>1
  <2>5. /\ k = 1 => b1 = a1 + n /\ b2 = a2 /\ b3 = a3
        /\ k = 2 => b1 = a1 /\ b2 = a2 + n /\ b3 = a3
        /\ k = 3 => b1 = a1 /\ b2 = a2 /\ b3 = a3 + n
    BY <2>2, <2>3
  <2>6. Read(g) = (b1 + b2) + b3 /\ r = (a1 + a2) + a3
    BY DEF Read, r
  <2> HIDE DEF a1, a2, a3, b1, b2, b3
  <2>7. (b1 + b2) + b3 = ((a1 + a2) + a3) + n
    BY <1>1, <2>4, <2>5
  <2>8. QED
    BY <2>6, <2>7
<1>12. Read(g) + Len(t) = r + Len(s) /\ Len(t) <= Capacity
  <2>1. Read(g) = r + n /\ Len(t) = Len(s) - n
    BY <1>7, <1>11
  <2>2. (r + n) + (Len(s) - n) = r + Len(s) /\ Len(s) - n <= Capacity
    <3> DEFINE z == Len(s)
    <3>1. z \in Nat /\ n \in Nat /\ r \in Nat /\ z <= Capacity /\ Capacity \in Nat
      BY <1>1, <1>3, BaseFacts
    <3> HIDE DEF z
    <3>2. (r + n) + (z - n) = r + z /\ z - n <= Capacity
      BY <3>1
    <3>3. QED
      BY <3>2 DEF z
  <2>3. QED
    BY <2>1, <2>2
<1>13. \A j \in 1 .. 3 : /\ Slice(g[j], Wire(m), Before(j), Before(j) + Len(g[j]))
                         /\ Len(g[j]) <= PartLen(m, j)
  <2> SUFFICES ASSUME NEW j \in 1 .. 3
               PROVE  /\ Slice(g[j], Wire(m), Before(j), Before(j) + Len(g[j]))
                      /\ Len(g[j]) <= PartLen(m, j)
    OBVIOUS
  <2>1. CASE j = k
    BY <1>0, <1>6, <1>7, <1>9, <2>1 DEF w
  <2>2. CASE j # k
    BY <1>9, <2>2 DEF Channel
  <2>3. QED
    BY <2>1, <2>2
<1>14. Channel(m, g, t)
  <2>1. Slice(t, Wire(m), Read(g), Read(g) + Len(t))
    BY <1>5, <1>11, <1>12 DEF w
  <2>2. QED
    BY <1>9, <1>10, <1>12, <1>13, <2>1 DEF Channel
<1>15. Conserved(f, s, k, n, g, t)
  BY <1>7, <1>9, <1>12 DEF r, Conserved
<1>16. QED
  BY <1>10, <1>14, <1>15

\* What has been read and what follows it are the parts before k, and sent bytes
\* of part k.
At(f, s, k, sent) == Read(f) + Len(s) = Before(k) + sent

\* t is s with n more bytes of part k of m.
More(m, s, k, sent, n, t) ==
  /\ sent \in Nat /\ n \in Nat \ {0} /\ sent + n <= PartLen(m, k) /\ Len(s) + n <= Capacity
  /\ t = s \o SubSeq(Parts(m)[k], sent + 1, sent + n)

\* send() adds bytes of the part that is being sent.
LEMMA SendMore ==
  ASSUME NEW m \in Messages, NEW f, NEW s, NEW k \in 1 .. 3, NEW sent, NEW n, NEW t,
         Channel(m, f, s), At(f, s, k, sent), More(m, s, k, sent, n, t)
  PROVE  Channel(m, f, t) /\ At(f, t, k, sent + n)
<1> DEFINE w == Wire(m)
           r == Read(f)
           chunk == SubSeq(Parts(m)[k], sent + 1, sent + n)
<1>0. /\ sent \in Nat /\ n \in Nat \ {0} /\ sent + n <= PartLen(m, k)
      /\ Len(s) + n <= Capacity /\ Read(f) + Len(s) = Before(k) + sent
  BY DEF More, At
<1>1. /\ w \in Seq(Bytes) /\ PartLen(m, k) \in Nat
      /\ Slice(Parts(m)[k], w, Before(k), Before(k) + PartLen(m, k))
  BY WireFacts
<1>2. Before(k) \in Nat
  BY BaseFacts DEF Before
<1>3. Slice(chunk, w, Before(k) + sent, Before(k) + (sent + n))
  <2>1. sent \in Nat /\ sent + n \in sent .. (Before(k) + PartLen(m, k)) - Before(k)
    BY <1>0, <1>1, <1>2
  <2>2. QED
    BY <1>1, <2>1, SliceOfSlice
<1> HIDE DEF chunk, w, r
<1>4. Slice(s, w, r, r + Len(s)) /\ r + Len(s) = Before(k) + sent
  BY <1>0 DEF Channel, w, r
<1>5. Slice(t, w, r, Before(k) + (sent + n))
  <2>1. t = s \o chunk
    BY DEF More, chunk
  <2>2. QED
    BY <1>1, <1>3, <1>4, <2>1, SliceConcat
<1>6. Len(s) \in Nat /\ r \in Nat
  BY <1>4 DEF Slice
<1>7. Len(t) = (Before(k) + (sent + n)) - r
  BY <1>5 DEF Slice
<1>8. Len(t) = Len(s) + n /\ r + Len(t) = Before(k) + (sent + n)
  <2> DEFINE x == Before(k)
             y == Len(s)
             z == Len(t)
  <2>1. /\ x \in Nat /\ y \in Nat /\ r \in Nat /\ sent \in Nat /\ n \in Nat
        /\ z = (x + (sent + n)) - r /\ r + y = x + sent
    BY <1>0, <1>2, <1>4, <1>6, <1>7
  <2> HIDE DEF x, y, z
  <2>2. z = y + n /\ r + z = x + (sent + n)
    BY <2>1
  <2>3. QED
    BY <2>2 DEF x, y, z
<1>9. Slice(t, Wire(m), Read(f), Read(f) + Len(t)) /\ Len(t) <= Capacity
  BY <1>0, <1>5, <1>8 DEF w, r
<1>10. At(f, t, k, sent + n)
  BY <1>8 DEF At, r
<1>11. QED
  BY <1>9, <1>10 DEF Channel

\* The receiver knows how long a part is when it comes to it.
LEMMA ExpectedIs ==
  ASSUME NEW e \in Ends, out[Peer(e)] \in Messages, Carried(e), part[e] \in 1 .. 3,
         Filled(out[Peer(e)], frame[e], part[e])
  PROVE  Expected(e) = PartLen(out[Peer(e)], part[e])
<1> DEFINE m == out[Peer(e)]
<1>1. CASE part[e] = 3
  <2>1. Len(frame[e][2]) = PartLen(m, 2) /\ 2 \in 1 .. 3
    BY <1>1 DEF Filled
  <2>2. frame[e][2] = Parts(m)[2]
    BY <2>1, PartIs DEF Carried
  <2>3. Value(frame[e][2]) = Len(m.payload)
    BY <2>2, LengthIsRead, MessageFacts DEF Parts
  <2>4. QED
    BY <1>1, <2>3 DEF Expected, PartLen
<1>2. CASE part[e] # 3
  BY <1>2 DEF Expected, PartLen
<1>3. QED
  BY <1>1, <1>2

----------------------------------------------------------------------------
(* The invariant is inductive. *)

LEMMA Triple ==
  ASSUME NEW S, NEW a \in S, NEW b \in S, NEW c \in S
  PROVE  <<a, b, c>> \in [1 .. 3 -> S]
<1>1. \A k \in 1 .. 3 : k = 1 \/ k = 2 \/ k = 3
  OBVIOUS
<1>2. QED
  BY <1>1

LEMMA InitInvariant == Init => IInv
<1> SUFFICES ASSUME Init PROVE IInv
  OBVIOUS
<1>1. Types
  <2>1. <<<<>>, <<>>, <<>>>> \in [1 .. 3 -> Seq(Bytes)]
    BY EmptySeq, Triple
  <2>2. QED
    BY <2>1 DEF Init, Types
<1> DEFINE f == <<<<>>, <<>>, <<>>>>
<1>2. /\ f \in [1 .. 3 -> Seq(Bytes)] /\ \A k \in 1 .. 3 : f[k] = <<>>
      /\ <<>> \in Seq(Bytes) /\ Len(<<>>) = 0
  <2>1. <<>> \in Seq(Bytes) /\ Len(<<>>) = 0
    BY EmptySeq
  <2>2. f \in [1 .. 3 -> Seq(Bytes)]
    BY EmptySeq, Triple
  <2>3. f \in [1 .. 3 -> {<<>>}]
    BY Triple
  <2>4. QED
    BY <2>1, <2>2, <2>3
<1> HIDE DEF f
<1>3. Read(f) = 0
  BY <1>2 DEF Read
<1>4. ASSUME NEW m \in Messages PROVE Channel(m, f, <<>>) /\ Filled(m, f, 1)
  <2>1. Filled(m, f, 1)
    BY <1>2 DEF Filled
  <2>2. ASSUME NEW a \in 0 .. Len(Wire(m)) PROVE Slice(<<>>, Wire(m), a, a)
    <3>1. Len(Wire(m)) \in Nat
      BY WireFacts
    <3>2. QED
      BY <1>2, <3>1 DEF Slice
  <2>3. ASSUME NEW k \in 1 .. 3
        PROVE  /\ Slice(f[k], Wire(m), Before(k), Before(k) + Len(f[k]))
               /\ Len(f[k]) <= PartLen(m, k)
    <3>1. Slice(Parts(m)[k], Wire(m), Before(k), Before(k) + PartLen(m, k)) /\ PartLen(m, k) \in Nat
      BY WireFacts
    <3>2. /\ Before(k) \in Nat /\ Len(Wire(m)) \in Nat
          /\ Before(k) + PartLen(m, k) \in Before(k) .. Len(Wire(m))
      BY <3>1, WireFacts DEF Slice
    <3>3. Before(k) \in 0 .. Len(Wire(m)) /\ Before(k) + 0 = Before(k)
      BY <3>1, <3>2
    <3>4. Slice(<<>>, Wire(m), Before(k), Before(k))
      BY <2>2, <3>3
    <3>5. QED
      BY <1>2, <3>1, <3>3, <3>4
  <2>4. 0 \in 0 .. Len(Wire(m)) /\ 0 + Len(<<>>) = 0 /\ Len(<<>>) <= Capacity
    BY <1>2, WireFacts, BaseFacts
  <2>5. Slice(<<>>, Wire(m), Read(f), Read(f) + Len(<<>>))
    BY <1>3, <2>2, <2>4
  <2>6. \E k \in 1 .. 3 : Filled(m, f, k)
    BY <2>1
  <2>7. QED
    BY <1>2, <2>1, <2>3, <2>4, <2>5, <2>6 DEF Channel
<1>5. ASSUME NEW e \in Ends
      PROVE  /\ out[Peer(e)] \in Messages /\ out[e] \in Messages
             /\ frame[e] = f /\ stream[e] = <<>> /\ part[e] = 1 /\ moved[e] = 0
             /\ got[e] = Nothing /\ pc[e] = IF e = Client THEN "send" ELSE "recv"
  BY PeerFacts DEF Init, f
<1>6. ASSUME NEW e \in Ends PROVE SentTo(e) = 0
  <2>1. SentTo(e) = 0 + Len(<<>>)
    BY <1>3, <1>5 DEF SentTo
  <2>2. QED
    BY <1>2, <2>1
<1>7. \A m \in Messages : PartLen(m, 1) = 1 /\ Before(1) = 0
  BY DEF PartLen, Before
<1>8. ASSUME NEW e \in Ends PROVE Carried(e) /\ Reading(e) /\ Sending(e)
  <2>1. Carried(e)
    BY <1>4, <1>5 DEF Carried
  <2>2. Reading(e)
    <3>1. Filled(out[Peer(e)], f, 1) /\ Len(f[1]) = 0 /\ PartLen(out[Peer(e)], 1) = 1
      BY <1>2, <1>4, <1>5, <1>7
    <3>2. QED
      BY <1>5, <3>1 DEF Reading
  <2>3. Sending(e)
    <3>1. SentTo(Peer(e)) = 0 /\ Before(1) + 0 = 0 /\ PartLen(out[e], 1) = 1
      BY <1>5, <1>6, <1>7, PeerFacts
    <3>2. pc[e] # "done" /\ ~ (e = Client /\ pc[e] = "recv")
      BY <1>5
    <3>3. QED
      BY <1>5, <3>1, <3>2 DEF Sending
  <2>4. QED
    BY <2>1, <2>2, <2>3
<1>9. Turns
  <2>1. Client \in Ends /\ Server \in Ends /\ Client # Server
    BY TransportAssumption DEF Ends
  <2>2. pc[Server] = "recv" /\ SentTo(Client) = 0 /\ Read(frame[Client]) = 0
    BY <1>3, <1>5, <1>6, <2>1
  <2>3. QED
    BY <1>5, <2>1, <2>2 DEF Turns
<1>10. QED
  BY <1>1, <1>8, <1>9 DEF IInv

\* An end that fails, or closes, leaves everything else.
LEMMA EndsInvariant ==
  ASSUME IInv, NEW e \in Ends, NEW x \in {"failed", pc[e]}, pc' = [pc EXCEPT ![e] = x],
         closed' \in [Ends -> BOOLEAN], UNCHANGED <<out, got, part, moved, frame, stream>>
  PROVE  IInv'
<1>1. Types'
  BY DEF IInv, Types
<1>2. \A d \in Ends : pc'[d] = pc[d] \/ pc'[d] = "failed"
  BY DEF IInv, Types
<1>3. \A d \in Ends : SentTo(d)' = SentTo(d)
  BY DEF SentTo
<1>4. ASSUME NEW d \in Ends PROVE Carried(d)' /\ Reading(d)' /\ Sending(d)'
  <2>1. Carried(d) /\ Reading(d) /\ Sending(d)
    BY DEF IInv
  <2>2. Carried(d)'
    BY <2>1 DEF Carried
  <2>3. Reading(d)'
    BY <1>2, <2>1 DEF Reading
  <2>4. Sending(d)'
    BY <1>2, <1>3, <2>1, PeerFacts DEF Sending
  <2>5. QED
    BY <2>2, <2>3, <2>4
<1>5. Turns'
  <2>1. Client \in Ends /\ Server \in Ends
    BY TransportAssumption DEF Ends
  <2>2. QED
    BY <1>2, <1>3, <2>1 DEF IInv, Turns
<1>6. QED
  BY <1>1, <1>4, <1>5 DEF IInv

\* A part that is sent or read in full leads to the next, or is the last one.
LEMMA NextPart ==
  ASSUME NEW m \in Messages, NEW k \in 1 .. 3
  PROVE  /\ k = 3 \/ (k = 2 /\ m.payload = <<>>) => Before(k) + PartLen(m, k) = Total(m)
         /\ ~ (k = 3 \/ (k = 2 /\ m.payload = <<>>)) =>
              /\ k + 1 \in 1 .. 3 /\ PartLen(m, k + 1) \in Nat \ {0}
              /\ Before(k + 1) = Before(k) + PartLen(m, k)
         /\ m.payload = <<>> <=> Len(m.payload) = 0
<1> DEFINE l == Len(m.payload)
<1>1. m.payload \in Seq(Bytes) /\ l \in Nat /\ LenBytes \in Nat \ {0}
  BY MessageFacts, BaseFacts
<1>2. m.payload = <<>> <=> l = 0
  BY <1>1, EmptySeq
<1>3. CASE k = 1
  <2>1. /\ PartLen(m, 1) = 1 /\ PartLen(m, 1 + 1) = LenBytes
        /\ Before(1) = 0 /\ Before(1 + 1) = 1
    BY DEF PartLen, Before
  <2>2. QED
    BY <1>1, <1>2, <1>3, <2>1
<1>4. CASE k = 2
  <2>1. /\ PartLen(m, 2) = LenBytes /\ PartLen(m, 2 + 1) = l
        /\ Before(2) = 1 /\ Before(2 + 1) = 1 + LenBytes
    BY DEF PartLen, Before
  <2>2. Total(m) = 1 + LenBytes + l
    BY DEF Total
  <2> HIDE DEF l
  <2>3. l = 0 => 1 + LenBytes = Total(m)
    BY <1>1, <2>2
  <2>4. QED
    BY <1>1, <1>2, <1>4, <2>1, <2>3 DEF l
<1>5. CASE k = 3
  <2>1. Before(3) = 1 + LenBytes /\ PartLen(m, 3) = l /\ Total(m) = 1 + LenBytes + l
    BY DEF PartLen, Before, Total
  <2>2. QED
    BY <1>2, <1>5, <2>1
<1>6. QED
  BY <1>3, <1>4, <1>5

\* A frame with no bytes is filled up to its first part.
LEMMA NothingRead ==
  ASSUME NEW m \in Messages, NEW f, NEW s, Channel(m, f, s), Read(f) = 0
  PROVE  Filled(m, f, 1) /\ Len(f[1]) < PartLen(m, 1)
<1>1. \A j \in 1 .. 3 : Len(f[j]) \in Nat
  <2> SUFFICES ASSUME NEW j \in 1 .. 3 PROVE Len(f[j]) \in Nat
    OBVIOUS
  <2>1. f[j] \in Seq(Bytes)
    BY DEF Channel, Slice
  <2>2. QED
    BY <2>1
<1> DEFINE a1 == Len(f[1])
           a2 == Len(f[2])
           a3 == Len(f[3])
<1>2. a1 \in Nat /\ a2 \in Nat /\ a3 \in Nat /\ (a1 + a2) + a3 = 0
  <2>1. Read(f) = (a1 + a2) + a3
    BY DEF Read
  <2>2. a1 \in Nat /\ a2 \in Nat /\ a3 \in Nat
    BY <1>1
  <2>3. QED
    BY <2>1, <2>2
<1> HIDE DEF a1, a2, a3
<1>3. a1 = 0 /\ a2 = 0 /\ a3 = 0
  BY <1>2
<1>4. \A j \in 1 .. 3 : Len(f[j]) = 0
  BY <1>3 DEF a1, a2, a3
<1>5. QED
  BY <1>4 DEF Filled, PartLen

LEMMA SendInvariant == ASSUME IInv, NEW e \in Ends, Send(e) PROVE IInv'
<1> DEFINE p == Peer(e)
           m == out[e]
           k == part[e]
           f == frame[p]
           s == stream[p]
<1>1. /\ pc[e] = "send" /\ UNCHANGED <<out, got, frame, closed>>
      /\ p \in Ends /\ p # e /\ Peer(p) = e
      /\ m \in Messages /\ k \in 1 .. 3 /\ moved[e] \in Nat
      /\ Channel(m, f, s) /\ f = frame[p] /\ s = stream[p]
      /\ moved[e] < PartLen(m, k) /\ Read(f) + Len(s) = Before(k) + moved[e]
  BY PeerFacts DEF Send, IInv, Types, Carried, Sending, SentTo
<1>2. Current(e) = Parts(m)[k] /\ Len(Current(e)) = PartLen(m, k) /\ PartLen(m, k) \in Nat
  BY <1>1, WireFacts DEF Current
<1>3. PICK n \in 1 .. Len(Current(e)) - moved[e] :
        /\ Len(stream[Peer(e)]) + n <= Capacity
        /\ stream' = [stream EXCEPT ![Peer(e)] = @ \o SubSeq(Current(e), moved[e] + 1, moved[e] + n)]
        /\ SentPart(e, moved[e] + n)
  BY DEF Send
<1> DEFINE t == s \o SubSeq(Parts(m)[k], moved[e] + 1, moved[e] + n)
<1>4. n \in Nat \ {0} /\ moved[e] + n \in Nat /\ moved[e] + n <= PartLen(m, k)
  BY <1>1, <1>2, <1>3
<1>5. Channel(m, f, t) /\ Read(f) + Len(t) = Before(k) + (moved[e] + n)
  <2>1. At(f, s, k, moved[e]) /\ More(m, s, k, moved[e], n, t)
    BY <1>1, <1>3, <1>4 DEF At, More
  <2>2. m \in Messages /\ k \in 1 .. 3 /\ Channel(m, f, s)
    BY <1>1
  <2> HIDE DEF t, m, k, f, s
  <2>3. Channel(m, f, t) /\ At(f, t, k, moved[e] + n)
    BY <2>1, <2>2, SendMore
  <2>4. QED
    BY <2>3 DEF At
<1>6. stream' = [stream EXCEPT ![p] = t] /\ t \in Seq(Bytes)
  BY <1>2, <1>3, <1>5 DEF Channel, Slice
<1> DEFINE now == moved[e] + n
           Finished == k = 3 \/ (k = 2 /\ m.payload = <<>>)
<1>7. /\ now < PartLen(m, k) => moved' = [moved EXCEPT ![e] = now] /\ UNCHANGED <<pc, part>>
      /\ ~ (now < PartLen(m, k)) /\ Finished =>
           /\ pc' = [pc EXCEPT ![e] = NextCall(e)]
           /\ part' = [part EXCEPT ![e] = 1] /\ moved' = [moved EXCEPT ![e] = 0]
      /\ ~ (now < PartLen(m, k)) /\ ~ Finished =>
           /\ part' = [part EXCEPT ![e] = k + 1] /\ moved' = [moved EXCEPT ![e] = 0]
           /\ UNCHANGED pc
  BY <1>2, <1>3 DEF SentPart
<1>8. /\ NextCall(e) = IF e = Client THEN "recv" ELSE "done"
      /\ ~ Finished => k + 1 \in 1 .. 3
  BY <1>1, NextPart DEF NextCall
<1> HIDE DEF p, m, k, f, s, t, now, Finished
<1>9. Types'
  <2>1. stream' \in [Ends -> Seq(Bytes)]
    BY <1>6 DEF IInv, Types
  <2>2. now \in Nat
    BY <1>4 DEF now
  <2>3. pc' \in [Ends -> {"send", "recv", "done", "failed"}]
    BY <1>7, <1>8 DEF IInv, Types
  <2>4. part' \in [Ends -> 1 .. 3]
    <3>1. part' = part \/ part' = [part EXCEPT ![e] = 1]
          \/ (k + 1 \in 1 .. 3 /\ part' = [part EXCEPT ![e] = k + 1])
      BY <1>7, <1>8
    <3>2. part \in [Ends -> 1 .. 3] /\ 1 \in 1 .. 3
      BY DEF IInv, Types
    <3>3. QED
      BY <3>1, <3>2
  <2>5. moved' \in [Ends -> Nat]
    <3>1. moved' = [moved EXCEPT ![e] = now] \/ moved' = [moved EXCEPT ![e] = 0]
      BY <1>7
    <3>2. moved \in [Ends -> Nat] /\ 0 \in Nat
      BY DEF IInv, Types
    <3>3. QED
      BY <2>2, <3>1, <3>2
  <2>6. QED
    BY <1>1, <2>1, <2>3, <2>4, <2>5 DEF IInv, Types
<1>10. \A d \in Ends : d # e => pc'[d] = pc[d] /\ part'[d] = part[d] /\ moved'[d] = moved[d]
  BY <1>7 DEF IInv, Types
<1>11. stream'[p] = t /\ stream'[e] = stream[e]
  BY <1>1, <1>6 DEF IInv, Types
<1>12. Carried(e)' /\ Carried(p)'
  <2>1. Carried(e)'
    BY <1>1, <1>11 DEF IInv, Carried
  <2>2. Carried(p)'
    BY <1>1, <1>5, <1>11 DEF Carried, m, f
  <2>3. QED
    BY <2>1, <2>2
<1>13. /\ SentTo(p)' = Before(k) + now /\ SentTo(e)' = SentTo(e)
  BY <1>1, <1>5, <1>11 DEF SentTo, now, f
<1>14. Turns'
  <2>1. Client \in Ends /\ Server \in Ends /\ (e = Client \/ e = Server) /\ Client # Server
        /\ (e = Server => p = Client) /\ (e = Client => p = Server)
    BY PeerFacts DEF Ends, p
  <2>2. pc'[Client] = "send" => pc[Client] = "send"
    BY <1>1, <1>10, <2>1
  <2>3. got[Server] = Nothing => SentTo(Client)' = 0
    <3>1. CASE e = Server
      BY <1>1, <3>1 DEF IInv, Turns
    <3>2. CASE e = Client
      BY <1>13, <3>2 DEF IInv, Turns
    <3>3. QED
      BY <2>1, <3>1, <3>2
  <2>4. pc'[Server] \in {"send", "done"} => got[Server] # Nothing
    <3>1. CASE e = Server
      BY <1>1, <3>1 DEF IInv, Turns
    <3>2. CASE e = Client
      BY <1>10, <2>1, <3>2 DEF IInv, Turns
    <3>3. QED
      BY <2>1, <3>1, <3>2
  <2>5. pc'[Client] = "done" => got[Client] # Nothing
    <3>1. CASE e = Client
      BY <1>1, <1>7, <1>8, <3>1 DEF IInv, Types
    <3>2. CASE e = Server
      BY <1>10, <2>1, <3>2 DEF IInv, Turns
    <3>3. QED
      BY <2>1, <3>1, <3>2
  <2>6. QED
    BY <1>1, <2>2, <2>3, <2>4, <2>5 DEF IInv, Turns
<1>15. Reading(p)'
  BY <1>1, <1>10 DEF IInv, Reading
<1>16. Reading(e)'
  <2> SUFFICES ASSUME pc'[e] = "recv" PROVE Reading(e)'
    BY DEF Reading
  <2>1. /\ e = Client /\ pc' = [pc EXCEPT ![e] = NextCall(e)]
        /\ part'[e] = 1 /\ moved'[e] = 0
    BY <1>1, <1>7, <1>8 DEF IInv, Types
  <2>2. Read(frame[e]) = 0 /\ got[e] = Nothing
    BY <1>1, <2>1 DEF IInv, Turns
  <2>3. Channel(out[p], frame[e], stream[e]) /\ out[p] \in Messages
    BY <1>1 DEF IInv, Types, Carried, p
  <2>4. Filled(out[p], frame[e], 1) /\ Len(frame[e][1]) < PartLen(out[p], 1)
    BY <2>2, <2>3, NothingRead
  <2>5. QED
    BY <1>1, <2>1, <2>2, <2>4 DEF Reading, p
<1>17. Sending(p)'
  BY <1>1, <1>10, <1>13 DEF IInv, Sending
<1>18. Sending(e)'
  <2>1. CASE now < PartLen(m, k)
    <3>1. pc'[e] = "send" /\ moved'[e] = now /\ part'[e] = k /\ out'[e] = m
      BY <1>1, <1>7, <2>1 DEF IInv, Types, k, m
    <3>2. QED
      BY <1>13, <2>1, <3>1 DEF Sending, p
  <2>2. CASE ~ (now < PartLen(m, k)) /\ Finished
    <3>1. pc'[e] \in {"recv", "done"} /\ out'[e] = m
      BY <1>1, <1>7, <1>8, <2>2 DEF IInv, Types, m
    <3>2. now = PartLen(m, k)
      BY <1>2, <1>4, <2>2 DEF now, m, k
    <3>3. SentTo(p)' = Total(m)
      BY <1>1, <1>13, <2>2, <3>2, NextPart DEF Finished
    <3>4. QED
      BY <3>1, <3>3 DEF Sending, p
  <2>3. CASE ~ (now < PartLen(m, k)) /\ ~ Finished
    <3>1. pc'[e] = "send" /\ part'[e] = k + 1 /\ moved'[e] = 0 /\ out'[e] = m
      BY <1>1, <1>7, <2>3 DEF IInv, Types, m
    <3>2. now = PartLen(m, k)
      BY <1>2, <1>4, <2>3 DEF now, m, k
    <3>3. /\ k + 1 \in 1 .. 3 /\ PartLen(m, k + 1) \in Nat \ {0}
          /\ Before(k + 1) = Before(k) + PartLen(m, k)
      BY <1>1, <2>3, NextPart DEF Finished
    <3>4. Before(k) \in Nat
      BY BaseFacts DEF Before
    <3>5. SentTo(p)' = Before(k + 1) + 0 /\ 0 < PartLen(m, k + 1)
      BY <1>2, <1>13, <3>2, <3>3, <3>4
    <3>6. QED
      BY <3>1, <3>5 DEF Sending, p
  <2>4. QED
    BY <2>1, <2>2, <2>3
<1>19. \A d \in Ends : d = e \/ d = p
  BY PeerFacts DEF p
<1>20. QED
  BY <1>9, <1>12, <1>14, <1>15, <1>16, <1>17, <1>18, <1>19 DEF IInv

LEMMA RecvInvariant == ASSUME IInv, NEW e \in Ends, Recv(e) PROVE IInv'
<1> DEFINE p == Peer(e)
           m == out[p]
           k == part[e]
           f == frame[e]
           s == stream[e]
<1>1. /\ pc[e] = "recv" /\ UNCHANGED <<out, closed>>
      /\ p \in Ends /\ p # e /\ Peer(p) = e
      /\ m \in Messages /\ k \in 1 .. 3
      /\ Channel(m, f, s) /\ Filled(m, f, k) /\ Len(f[k]) < PartLen(m, k)
      /\ moved[e] = 0 /\ got[e] = Nothing
  BY PeerFacts DEF Recv, IInv, Types, Carried, Reading
<1>2. PICK n \in 1 .. Len(stream[e]) :
        /\ Len(frame[e][part[e]]) + n <= Expected(e)
        /\ frame' = [frame EXCEPT ![e] = ReadSoFar(e, n)]
        /\ stream' = [stream EXCEPT ![e] = SubSeq(@, n + 1, Len(@))]
        /\ ReceivedPart(e, ReadSoFar(e, n))
  BY DEF Recv
<1>3. Expected(e) = PartLen(m, k)
  BY <1>1, ExpectedIs DEF IInv
<1> DEFINE g == [f EXCEPT ![k] = @ \o SubSeq(s, 1, n)]
           t == SubSeq(s, n + 1, Len(s))
<1>4. ReadSoFar(e, n) = g
  BY DEF ReadSoFar
<1>5. frame' = [frame EXCEPT ![e] = g] /\ stream' = [stream EXCEPT ![e] = t]
  BY <1>2, <1>4
<1>6. n \in 1 .. Len(s) /\ Len(f[k]) + n <= PartLen(m, k)
  BY <1>2, <1>3
<1>7. Taken(m, f, s, k, n, g, t)
  BY <1>6 DEF Taken
<1> DEFINE Finished == k = 3 \/ (k = 2 /\ Value(g[2]) = 0)
           full == [type |-> g[1][1], payload |-> g[3]]
<1>8. /\ Len(g[k]) < PartLen(m, k) => UNCHANGED <<pc, part, moved, got>>
      /\ ~ (Len(g[k]) < PartLen(m, k)) /\ Finished =>
           /\ got' = [got EXCEPT ![e] = full]
           /\ pc' = [pc EXCEPT ![e] = IF e = Server THEN "send" ELSE "done"]
           /\ part' = [part EXCEPT ![e] = 1] /\ UNCHANGED moved
      /\ ~ (Len(g[k]) < PartLen(m, k)) /\ ~ Finished =>
           /\ part' = [part EXCEPT ![e] = k + 1] /\ UNCHANGED <<pc, moved, got>>
  BY <1>2, <1>3, <1>4 DEF ReceivedPart
<1> HIDE DEF p, m, k, f, s, g, t, Finished, full
<1>9. /\ Channel(m, g, t) /\ Filled(m, g, k) /\ Len(g[k]) = Len(f[k]) + n
      /\ Read(g) + Len(t) = Read(f) + Len(s)
  BY <1>1, <1>7, ReadMore DEF Conserved
<1>10. /\ g \in [1 .. 3 -> Seq(Bytes)] /\ t \in Seq(Bytes)
       /\ Len(g[k]) \in Nat /\ PartLen(m, k) \in Nat /\ Len(g[k]) <= PartLen(m, k)
  <2>1. g \in [1 .. 3 -> Seq(Bytes)] /\ t \in Seq(Bytes) /\ Len(g[k]) <= PartLen(m, k)
    BY <1>1, <1>9 DEF Channel, Slice
  <2>2. g[k] \in Seq(Bytes)
    BY <1>1, <2>1
  <2>3. QED
    BY <1>1, <2>1, <2>2, WireFacts
<1>11. ~ (Len(g[k]) < PartLen(m, k)) => Len(g[k]) = PartLen(m, k)
  BY <1>10
\* The last part is complete with the message.
<1>12. ASSUME ~ (Len(g[k]) < PartLen(m, k)), k \in {2, 3}
       PROVE  /\ Value(g[2]) = Len(m.payload)
              /\ Finished => full = m
  <2>1. Len(g[1]) = PartLen(m, 1) /\ Len(g[2]) = PartLen(m, 2)
    BY <1>9, <1>11, <1>12 DEF Filled
  <2>2. g[1] = Parts(m)[1] /\ g[2] = Parts(m)[2]
    BY <1>1, <1>9, <2>1, PartIs
  <2>3. Value(g[2]) = Len(m.payload)
    BY <1>1, <2>2, LengthIsRead, MessageFacts DEF Parts
  <2>4. ASSUME Finished PROVE full = m
    <3>1. Len(g[3]) = PartLen(m, 3)
      <4>1. CASE k = 3
        BY <1>11, <1>12, <4>1
      <4>2. CASE k = 2
        BY <1>9, <2>3, <2>4, <4>2 DEF Filled, PartLen, Finished
      <4>3. QED
        BY <1>12, <4>1, <4>2
    <3>2. g[3] = Parts(m)[3]
      BY <1>1, <1>9, <3>1, PartIs
    <3>3. full = [type |-> m.type, payload |-> m.payload]
      BY <2>2, <3>2 DEF Parts, full
    <3>4. QED
      BY <1>1, <3>3, MessageFacts
  <2>5. QED
    BY <2>3, <2>4
<1>13. ~ (Len(g[k]) < PartLen(m, k)) /\ Finished => full = m
  BY <1>12 DEF Finished
<1>14. ASSUME ~ (Len(g[k]) < PartLen(m, k)), ~ Finished
       PROVE  /\ k + 1 \in 1 .. 3 /\ Filled(m, g, k + 1) /\ Len(g[k + 1]) < PartLen(m, k + 1)
  <2>1. k \in {1, 2} /\ (k = 2 => Value(g[2]) # 0)
    BY <1>1, <1>14 DEF Finished
  <2>2. ~ (k = 3 \/ (k = 2 /\ m.payload = <<>>))
    BY <1>1, <1>12, <1>14, <2>1, NextPart
  <2>3. k + 1 \in 1 .. 3 /\ PartLen(m, k + 1) \in Nat \ {0}
    BY <1>1, <2>2, NextPart
  <2>4. Filled(m, g, k + 1)
    <3>1. \A j \in 1 .. 3 : (j < k + 1 => j < k \/ j = k) /\ (j > k + 1 => j > k)
      BY <2>1
    <3>2. QED
      BY <1>9, <1>11, <1>14, <3>1 DEF Filled
  <2>5. Len(g[k + 1]) = 0
    <3>1. k + 1 > k
      BY <2>1
    <3>2. QED
      BY <1>9, <2>3, <3>1 DEF Filled
  <2>6. QED
    BY <2>3, <2>4, <2>5
<1>15. /\ pc' \in [Ends -> {"send", "recv", "done", "failed"}]
       /\ moved' = moved /\ (pc' = pc \/ pc'[e] = IF e = Server THEN "send" ELSE "done")
  BY <1>8 DEF IInv, Types
<1>16. part' \in [Ends -> 1 .. 3]
  <2>1. part' = part \/ part' = [part EXCEPT ![e] = 1]
        \/ (k + 1 \in 1 .. 3 /\ part' = [part EXCEPT ![e] = k + 1])
    BY <1>8, <1>14
  <2>2. part \in [Ends -> 1 .. 3] /\ 1 \in 1 .. 3
    BY DEF IInv, Types
  <2>3. QED
    BY <2>1, <2>2
<1>17. got' \in [Ends -> Messages \cup {Nothing}]
       /\ (got' = got \/ got' = [got EXCEPT ![e] = m])
  <2>1. got' = got \/ got' = [got EXCEPT ![e] = m]
    BY <1>8, <1>13
  <2>2. QED
    BY <1>1, <2>1 DEF IInv, Types
<1>18. Types'
  <2>1. stream' \in [Ends -> Seq(Bytes)] /\ frame' \in [Ends -> [1 .. 3 -> Seq(Bytes)]]
    BY <1>5, <1>10 DEF IInv, Types
  <2>2. QED
    BY <1>1, <1>15, <1>16, <1>17, <2>1 DEF IInv, Types
<1>19. /\ pc'[p] = pc[p] /\ part'[p] = part[p] /\ got'[p] = got[p]
       /\ frame'[p] = frame[p] /\ stream'[p] = stream[p]
       /\ frame'[e] = g /\ stream'[e] = t /\ out' = out
  BY <1>1, <1>5, <1>8 DEF IInv, Types
<1>20. SentTo(p)' = SentTo(p) /\ SentTo(e)' = SentTo(e)
  BY <1>9, <1>19 DEF SentTo, f, s
<1>21. Carried(e)' /\ Carried(p)'
  <2>1. Carried(p)'
    BY <1>1, <1>19 DEF IInv, Carried
  <2>2. Carried(e)'
    BY <1>9, <1>19 DEF Carried, m, p
  <2>3. QED
    BY <2>1, <2>2
<1>22. Reading(p)' /\ Sending(p)'
  <2>1. Reading(p) /\ Sending(p)
    BY <1>1 DEF IInv
  <2>2. Reading(p)'
    BY <1>15, <1>19, <2>1 DEF Reading
  <2>3. Sending(p)'
    BY <1>1, <1>15, <1>19, <1>20, <2>1 DEF Sending
  <2>4. QED
    BY <2>2, <2>3
<1>23. e \in {Client, Server} /\ Client # Server /\ (e = Server => p = Client)
       /\ (e = Client => p = Server) /\ Client \in Ends /\ Server \in Ends
  BY PeerFacts DEF Ends, p
<1>24. Turns'
  <2>1. pc'[Client] = "send" => Read(frame'[Client]) = 0 /\ got'[Client] = Nothing
    <3>1. CASE e = Client
      BY <1>1, <1>15, <1>23, <3>1
    <3>2. CASE e = Server
      BY <1>19, <1>23, <3>2 DEF IInv, Turns
    <3>3. QED
      BY <1>23, <3>1, <3>2
  <2>2. got'[Server] = Nothing => SentTo(Client)' = 0
    <3>1. got'[Server] = Nothing => got[Server] = Nothing
      BY <1>1, <1>17, <1>19, <1>23
    <3>2. SentTo(Client)' = SentTo(Client)
      BY <1>20, <1>23
    <3>3. QED
      BY <3>1, <3>2 DEF IInv, Turns
  <2>3. pc'[Server] \in {"send", "done"} => got'[Server] # Nothing
    <3>1. CASE e = Server
      <4>1. m # Nothing
        BY <1>1, TransportAssumption
      <4>2. pc'[e] = "recv" \/ got'[e] = m
        BY <1>1, <1>8, <1>13 DEF IInv, Types
      <4>3. QED
        BY <3>1, <4>1, <4>2
    <3>2. CASE e = Client
      BY <1>19, <1>23, <3>2 DEF IInv, Turns
    <3>3. QED
      BY <1>23, <3>1, <3>2
  <2>4. \A d \in Ends : got'[d] \in {Nothing, out'[Peer(d)]}
    <3>1. got'[e] \in {Nothing, m}
      BY <1>1, <1>17 DEF IInv, Types
    <3>2. got'[p] \in {Nothing, out[e]}
      BY <1>1, <1>19 DEF IInv, Turns
    <3>3. QED
      BY <1>1, <1>19, <3>1, <3>2, PeerFacts DEF m, p
  <2>5. pc'[Client] = "done" => got'[Client] # Nothing
    <3>1. CASE e = Client
      <4>1. m # Nothing
        BY <1>1, TransportAssumption
      <4>2. pc'[e] = "recv" \/ got'[e] = m
        BY <1>1, <1>8, <1>13 DEF IInv, Types
      <4>3. QED
        BY <3>1, <4>1, <4>2
    <3>2. CASE e = Server
      BY <1>19, <1>23, <3>2 DEF IInv, Turns
    <3>3. QED
      BY <1>23, <3>1, <3>2
  <2>6. QED
    BY <2>1, <2>2, <2>3, <2>4, <2>5 DEF Turns
<1>25. Reading(e)'
  <2> SUFFICES ASSUME pc'[e] = "recv" PROVE Reading(e)'
    BY DEF Reading
  <2>1. CASE Len(g[k]) < PartLen(m, k)
    <3>1. part'[e] = k /\ got'[e] = Nothing /\ moved'[e] = 0
      BY <1>1, <1>8, <2>1 DEF k
    <3>2. QED
      BY <1>9, <1>19, <2>1, <3>1 DEF Reading, m, p
  <2>2. CASE ~ (Len(g[k]) < PartLen(m, k)) /\ Finished
    BY <1>8, <2>2 DEF IInv, Types
  <2>3. CASE ~ (Len(g[k]) < PartLen(m, k)) /\ ~ Finished
    <3>1. part'[e] = k + 1 /\ got'[e] = Nothing /\ moved'[e] = 0
      BY <1>1, <1>8, <2>3 DEF IInv, Types
    <3>2. QED
      BY <1>14, <1>19, <2>3, <3>1 DEF Reading, m, p
  <2>4. QED
    BY <2>1, <2>2, <2>3
<1>26. Sending(e)'
  <2>1. CASE pc' = pc
    BY <1>1, <1>19, <1>20, <2>1 DEF IInv, Sending, p
  <2>2. CASE pc' # pc /\ e = Server
    <3>1. pc'[e] = "send" /\ part'[e] = 1 /\ moved'[e] = 0
      BY <1>1, <1>8, <2>2 DEF IInv, Types
    <3>2. SentTo(p) = 0
      BY <1>1, <1>23, <2>2 DEF IInv, Turns
    <3>3. SentTo(p)' = Before(1) + 0 /\ PartLen(out'[e], 1) = 1
      BY <1>20, <3>2 DEF Before, PartLen
    <3>4. QED
      BY <1>23, <2>2, <3>1, <3>3 DEF Sending, p
  <2>3. CASE pc' # pc /\ e = Client
    <3>1. pc'[e] = "done"
      BY <1>15, <1>23, <2>3
    <3>2. SentTo(p) = Total(out[e])
      BY <1>1, <2>3 DEF IInv, Sending, p
    <3>3. QED
      BY <1>19, <1>20, <3>1, <3>2 DEF Sending, p
  <2>4. QED
    BY <1>23, <2>1, <2>2, <2>3
<1>27. \A d \in Ends : d = e \/ d = p
  BY PeerFacts DEF p
<1>28. QED
  BY <1>18, <1>21, <1>22, <1>24, <1>25, <1>26, <1>27 DEF IInv

LEMMA StepInvariant == IInv /\ [Next]_vars => IInv'
<1> SUFFICES ASSUME IInv, [Next]_vars PROVE IInv'
  OBVIOUS
<1>1. ASSUME NEW e \in Ends, SendFails(e) \/ RecvFails(e) \/ Close(e) PROVE IInv'
  <2>1. \E x \in {"failed", pc[e]} : pc' = [pc EXCEPT ![e] = x]
    BY <1>1 DEF SendFails, RecvFails, Close
  <2>2. closed' \in [Ends -> BOOLEAN] /\ UNCHANGED <<out, got, part, moved, frame, stream>>
    BY <1>1 DEF SendFails, RecvFails, Close, IInv, Types
  <2>3. QED
    BY <2>1, <2>2, EndsInvariant
<1>2. CASE UNCHANGED vars
  <2>1. pc' = [pc EXCEPT ![Client] = pc[Client]]
    BY <1>2 DEF vars, IInv, Types
  <2>2. closed' \in [Ends -> BOOLEAN] /\ UNCHANGED <<out, got, part, moved, frame, stream>>
    BY <1>2 DEF vars, IInv, Types
  <2>3. Client \in Ends
    BY DEF Ends
  <2>4. QED
    BY <2>1, <2>2, <2>3, EndsInvariant
<1>3. QED
  BY <1>1, <1>2, SendInvariant, RecvInvariant DEF Next, End

LEMMA InvariantHolds == Spec => []IInv
<1>1. QED
  BY InitInvariant, StepInvariant, PTL DEF Spec

----------------------------------------------------------------------------
(* The two ends are in step. *)

LEMMA FlattenIs ==
  ASSUME NEW q, Len(q) = 3
  PROVE  FlattenSeq(q) = (q[1] \o q[2]) \o q[3]
<1> DEFINE Def(h) == h = [i \in 1 .. Len(q) |-> IF i = 1 THEN q[i] ELSE h[i - 1] \o q[i]]
           h == CHOOSE h : Def(h)
           a == q[1] \o q[2]
           b == a \o q[3]
           h0 == [i \in 1 .. Len(q) |-> IF i = 1 THEN q[1] ELSE IF i = 2 THEN a ELSE b]
<1>1. Def(h0)
  <2>1. /\ 1 \in 1 .. 3 /\ 2 \in 1 .. 3 /\ 3 \in 1 .. 3 /\ 2 - 1 = 1 /\ 3 - 1 = 2
        /\ \A i \in 1 .. 3 : i = 1 \/ i = 2 \/ i = 3
    OBVIOUS
  <2>2. h0[1] = q[1] /\ h0[2] = h0[1] \o q[2] /\ h0[3] = h0[2] \o q[3]
    BY <2>1
  <2>3. \A i \in 1 .. 3 : h0[i] = IF i = 1 THEN q[i] ELSE h0[i - 1] \o q[i]
    BY <2>1, <2>2
  <2>4. h0 = [i \in 1 .. Len(q) |-> h0[i]]
    OBVIOUS
  <2> HIDE DEF h0
  <2>5. QED
    BY <2>3, <2>4
<1>2. Def(h)
  BY <1>1
<1>3. FlattenSeq(q) = h[3]
  BY DEF FlattenSeq
<1> HIDE DEF h
<1>4. h[1] = q[1]
  BY <1>2
<1>5. h[2] = h[1] \o q[2] /\ h[3] = h[2] \o q[3]
  <2>1. /\ 2 \in 1 .. 3 /\ 3 \in 1 .. 3 /\ 2 - 1 = 1 /\ 3 - 1 = 2 /\ 2 # 1 /\ 3 # 1
    OBVIOUS
  <2>2. \A i \in 1 .. 3 : i # 1 => h[i] = h[i - 1] \o q[i]
    BY <1>2
  <2>3. h[2] = h[2 - 1] \o q[2] /\ h[3] = h[3 - 1] \o q[3]
    BY <2>1, <2>2
  <2>4. QED
    BY <2>1, <2>3
<1>6. QED
  BY <1>3, <1>4, <1>5

LEMMA FunctionIsSeq ==
  ASSUME NEW n \in Nat, NEW S, NEW f \in [1 .. n -> S]
  PROVE  f \in Seq(S) /\ Len(f) = n
OBVIOUS

LEMMA EmptySlice ==
  ASSUME NEW w \in Seq(Bytes), NEW a \in 0 .. Len(w), NEW s \in Seq(Bytes), Len(s) = 0
  PROVE  Slice(s, w, a, a)
<1>1. Len(w) \in Nat
  OBVIOUS
<1>2. QED
  BY <1>1 DEF Slice

\* What has been read begins the message.
LEMMA FrameIsPrefix ==
  ASSUME NEW m \in Messages, NEW f, NEW s, Channel(m, f, s)
  PROVE  Slice((f[1] \o f[2]) \o f[3], Wire(m), 0, Read(f))
<1> DEFINE w == Wire(m)
           l1 == Len(f[1])
           l2 == Len(f[2])
           l3 == Len(f[3])
<1>1. PICK k \in 1 .. 3 : Filled(m, f, k)
  BY DEF Channel
<1>2. w \in Seq(Bytes) /\ Len(w) \in Nat
  BY WireFacts
<1>3. /\ Slice(f[1], w, Before(1), Before(1) + l1) /\ Slice(f[2], w, Before(2), Before(2) + l2)
      /\ Slice(f[3], w, Before(3), Before(3) + l3)
  BY DEF Channel
<1>4. /\ f[1] \in Seq(Bytes) /\ f[2] \in Seq(Bytes) /\ f[3] \in Seq(Bytes)
      /\ l1 \in Nat /\ l2 \in Nat /\ l3 \in Nat
  <2>1. f[1] \in Seq(Bytes) /\ f[2] \in Seq(Bytes) /\ f[3] \in Seq(Bytes)
    BY <1>3 DEF Slice
  <2>2. QED
    BY <2>1
<1>5. Before(1) = 0 /\ Before(2) = 1 /\ Before(3) = 1 + LenBytes /\ LenBytes \in Nat
  BY BaseFacts DEF Before
<1>6. /\ k = 1 => Len(f[2]) = 0 /\ Len(f[3]) = 0
      /\ k = 2 => l1 = 1 /\ Len(f[3]) = 0
      /\ k = 3 => l1 = 1 /\ l2 = LenBytes
  BY <1>1 DEF Filled, PartLen
<1>7. Read(f) = (l1 + l2) + l3
  BY DEF Read
<1>8. /\ k = 1 => l2 = 0 /\ l3 = 0
      /\ k = 2 => l3 = 0
  BY <1>6
<1> HIDE DEF w, l1, l2, l3
<1>9. Slice(f[1], w, 0, l1)
  BY <1>3, <1>4, <1>5
<1>10. Slice(f[2], w, l1, l1 + l2)
  <2>1. CASE k = 1
    <3>1. l1 \in 0 .. Len(w)
      BY <1>9 DEF Slice
    <3>2. Slice(f[2], w, l1, l1)
      BY <1>2, <1>4, <1>6, <2>1, <3>1, EmptySlice
    <3>3. l1 + l2 = l1
      BY <1>4, <1>8, <2>1
    <3>4. QED
      BY <3>2, <3>3
  <2>2. CASE k # 1
    <3>1. l1 = 1
      BY <1>6, <2>2
    <3>2. QED
      BY <1>3, <1>5, <3>1
  <2>3. QED
    BY <2>1, <2>2
<1>11. Slice(f[3], w, l1 + l2, (l1 + l2) + l3)
  <2>1. CASE k # 3
    <3>1. l1 + l2 \in 0 .. Len(w)
      BY <1>2, <1>4, <1>10 DEF Slice
    <3>2. Slice(f[3], w, l1 + l2, l1 + l2)
      BY <1>2, <1>4, <1>6, <2>1, <3>1, EmptySlice
    <3>3. (l1 + l2) + l3 = l1 + l2
      BY <1>4, <1>8, <2>1
    <3>4. QED
      BY <3>2, <3>3
  <2>2. CASE k = 3
    <3>1. l1 + l2 = 1 + LenBytes
      BY <1>6, <2>2
    <3>2. QED
      BY <1>3, <1>5, <3>1
  <2>3. QED
    BY <2>1, <2>2
<1>12. Slice(f[1] \o f[2], w, 0, l1 + l2)
  BY <1>2, <1>9, <1>10, SliceConcat
<1>13. Slice((f[1] \o f[2]) \o f[3], w, 0, (l1 + l2) + l3)
  BY <1>2, <1>11, <1>12, SliceConcat
<1>14. QED
  BY <1>7, <1>13 DEF w

\* The types of TypeOK and the bytes in step, in every state of the invariant.
LEMMA InStepHolds == IInv => TypeOK /\ InStep
<1> SUFFICES ASSUME IInv PROVE TypeOK /\ InStep
  OBVIOUS
<1>1. ASSUME NEW e \in Ends
      PROVE  /\ Channel(out[Peer(e)], frame[e], stream[e]) /\ out[Peer(e)] \in Messages
             /\ frame[e] \in [1 .. 3 -> Seq(Bytes)]
  BY PeerFacts DEF IInv, Types, Carried
<1>2. TypeOK
  <2>1. ASSUME NEW e \in Ends
        PROVE  /\ Len(stream[e]) <= Capacity /\ Len(frame[e][1]) <= 1
               /\ Len(frame[e][2]) <= LenBytes
    <3>1. PartLen(out[Peer(e)], 1) = 1 /\ PartLen(out[Peer(e)], 2) = LenBytes
      BY DEF PartLen
    <3>2. QED
      BY <1>1, <3>1 DEF Channel
  <2>2. QED
    BY <2>1 DEF IInv, Types, TypeOK
<1>3. ASSUME NEW e \in Ends
      PROVE  LET sent == FlattenSeq(Parts(out[Peer(e)]))
                 read == FlattenSeq(frame[e]) \o stream[e]
             IN /\ Len(read) <= Len(sent) /\ read = SubSeq(sent, 1, Len(read))
                /\ pc[Peer(e)] = "done" \/ (e = Server /\ pc[Client] = "recv") => read = sent
  <2> DEFINE m == out[Peer(e)]
             w == Wire(m)
             f == frame[e]
             read == ((f[1] \o f[2]) \o f[3]) \o stream[e]
  <2>1. FlattenSeq(Parts(m)) = w
    <3>1. Len(Parts(m)) = 3
      BY DEF Parts
    <3>2. QED
      BY <3>1, FlattenIs DEF Wire
  <2>2. FlattenSeq(f) = (f[1] \o f[2]) \o f[3]
    <3>1. Len(f) = 3
      BY <1>1, FunctionIsSeq
    <3>2. QED
      BY <3>1, FlattenIs
  <2>3. Slice((f[1] \o f[2]) \o f[3], w, 0, Read(f))
    BY <1>1, FrameIsPrefix
  <2>4. Slice(stream[e], w, Read(f), SentTo(e))
    BY <1>1 DEF Channel, SentTo
  <2>5. w \in Seq(Bytes) /\ Len(w) = Total(m) /\ Len(w) \in Nat
    BY <1>1, WireFacts
  <2>6. Slice(read, w, 0, SentTo(e))
    BY <2>3, <2>4, <2>5, SliceConcat
  <2> HIDE DEF read, w
  <2>7. Len(read) = SentTo(e) /\ SentTo(e) \in 0 .. Len(w) /\ read = SubSeq(w, 1, SentTo(e))
    BY <2>5, <2>6, SliceIsPrefix
  <2>8. ASSUME pc[Peer(e)] = "done" \/ (e = Server /\ pc[Client] = "recv")
        PROVE  read = w
    <3>1. SentTo(e) = Len(w)
      BY <2>5, <2>8, PeerFacts DEF IInv, Sending, m
    <3>2. Slice(w, w, 0, Len(w))
      BY <2>5 DEF Slice
    <3>3. QED
      BY <2>6, <3>1, <3>2, SliceEqual
  <2>9. Len(read) <= Len(w) /\ read = SubSeq(w, 1, Len(read))
    BY <2>5, <2>7
  <2>10. FlattenSeq(frame[e]) \o stream[e] = read
    BY <2>2 DEF read, f
  <2>11. QED
    BY <2>1, <2>8, <2>9, <2>10
<1>4. QED
  BY <1>2, <1>3 DEF InStep

----------------------------------------------------------------------------
(* The exchange of whole messages. *)

\* What an exchange sees of an end.
State(e) == IF Over(e) THEN pc[e] ELSE "open"

LEMMA InitRefines == Init => Exchange!Init
<1> SUFFICES ASSUME Init PROVE Exchange!Init
  OBVIOUS
<1>1. [e \in Ends |-> IF Over(e) THEN pc[e] ELSE "open"] = [e \in Ends |-> "open"]
  BY DEF Init, Over
<1>2. QED
  BY <1>1 DEF Init, Exchange!Init

\* An end that fails.
LEMMA FailRefines ==
  ASSUME IInv, NEW e \in Ends, ~ Over(e), pc' = [pc EXCEPT ![e] = "failed"], UNCHANGED <<out, got>>
  PROVE  Exchange!Fail(e)
<1> DEFINE st == [d \in Ends |-> IF Over(d) THEN pc[d] ELSE "open"]
<1>1. st[e] = "open"
  OBVIOUS
<1>2. \A d \in Ends : st'[d] = IF d = e THEN "failed" ELSE st[d]
  BY DEF Over, IInv, Types
<1>3. st' = [st EXCEPT ![e] = "failed"]
  BY <1>2
<1>4. QED
  BY <1>1, <1>3 DEF Exchange!Fail

\* A call that goes on.
LEMMA Stutters ==
  ASSUME UNCHANGED <<out, got>>, \A e \in Ends : State(e)' = State(e)
  PROVE  UNCHANGED Exchange!vars
<1>1. [e \in Ends |-> IF Over(e) THEN pc[e] ELSE "open"]'
        = [e \in Ends |-> IF Over(e) THEN pc[e] ELSE "open"]
  BY DEF State
<1>2. QED
  BY <1>1 DEF Exchange!vars

LEMMA SendRefines ==
  ASSUME IInv, NEW e \in Ends, Send(e)
  PROVE  Exchange!ServerDone \/ UNCHANGED Exchange!vars
<1>1. pc[e] = "send" /\ UNCHANGED <<out, got>> /\ (e = Client \/ e = Server)
  BY DEF Send, Ends
<1>2. UNCHANGED pc \/ pc' = [pc EXCEPT ![e] = NextCall(e)]
  BY DEF Send, SentPart
<1>3. CASE e = Client \/ UNCHANGED pc
  <2>1. pc' = pc \/ pc' = [pc EXCEPT ![e] = "recv"]
    BY <1>2, <1>3 DEF NextCall
  <2>2. \A d \in Ends : State(d)' = State(d)
    BY <1>1, <2>1 DEF State, Over, IInv, Types
  <2>3. QED
    BY <1>1, <2>2, Stutters
<1>4. CASE e = Server /\ ~ UNCHANGED pc
  <2> DEFINE st == [d \in Ends |-> IF Over(d) THEN pc[d] ELSE "open"]
  <2>1. pc' = [pc EXCEPT ![Server] = "done"] /\ Server \in Ends
    BY <1>2, <1>4, PeerFacts DEF NextCall
  <2>2. st[Server] = "open" /\ got[Server] # Nothing
    BY <1>1, <1>4, <2>1 DEF Over, IInv, Turns
  <2>3. \A d \in Ends : st'[d] = IF d = Server THEN "done" ELSE st[d]
    BY <2>1 DEF Over, IInv, Types
  <2>4. st' = [st EXCEPT ![Server] = "done"]
    BY <2>3
  <2>5. QED
    BY <1>1, <2>2, <2>4 DEF Exchange!ServerDone
<1>5. QED
  BY <1>1, <1>3, <1>4

\* A recv that does not end the call, or ends it with the message.
LEMMA RecvGets ==
  ASSUME IInv, NEW e \in Ends, Recv(e)
  PROVE  /\ pc[e] = "recv" /\ out' = out /\ got[e] = Nothing
         /\ \/ UNCHANGED <<pc, got>>
            \/ /\ got' = [got EXCEPT ![e] = out[Peer(e)]]
               /\ pc' = [pc EXCEPT ![e] = IF e = Server THEN "send" ELSE "done"]
<1>1. pc[e] = "recv" /\ out' = out /\ got[e] = Nothing
  BY DEF Recv, IInv, Reading
<1>2. PICK f : ReceivedPart(e, f)
  BY DEF Recv
<1> DEFINE x == [type |-> f[1][1], payload |-> f[3]]
<1>3. \/ UNCHANGED <<pc, got>>
      \/ /\ got' = [got EXCEPT ![e] = x]
         /\ pc' = [pc EXCEPT ![e] = IF e = Server THEN "send" ELSE "done"]
  BY <1>2 DEF ReceivedPart
<1> HIDE DEF x
<1>4. ASSUME got' = [got EXCEPT ![e] = x],
             pc' = [pc EXCEPT ![e] = IF e = Server THEN "send" ELSE "done"]
      PROVE  x = out[Peer(e)]
  <2>1. Turns' /\ out' = out
    BY <1>1, RecvInvariant DEF IInv
  <2>2. got'[e] = x /\ pc'[e] = IF e = Server THEN "send" ELSE "done"
    BY <1>4 DEF IInv, Types
  <2>3. got'[e] # Nothing
    BY <2>1, <2>2 DEF Turns, Ends
  <2>4. QED
    BY <2>1, <2>2, <2>3 DEF Turns
<1>5. QED
  BY <1>1, <1>3, <1>4

LEMMA RecvRefines ==
  ASSUME IInv, NEW e \in Ends, Recv(e)
  PROVE  Exchange!ServerGets \/ Exchange!ClientGets \/ UNCHANGED Exchange!vars
<1> DEFINE st == [d \in Ends |-> IF Over(d) THEN pc[d] ELSE "open"]
<1>1. /\ pc[e] = "recv" /\ out' = out /\ got[e] = Nothing
      /\ \/ UNCHANGED <<pc, got>>
         \/ /\ got' = [got EXCEPT ![e] = out[Peer(e)]]
            /\ pc' = [pc EXCEPT ![e] = IF e = Server THEN "send" ELSE "done"]
  BY RecvGets
<1>2. CASE UNCHANGED <<pc, got>>
  BY <1>1, <1>2, Stutters DEF State, Over
<1>3. ASSUME got' = [got EXCEPT ![e] = out[Peer(e)]], e = Server,
             pc' = [pc EXCEPT ![e] = "send"]
      PROVE  Exchange!ServerGets
  <2>1. st[Server] = "open" /\ Peer(Server) = Client
    BY <1>1, <1>3, PeerFacts DEF Over
  <2>2. \A d \in Ends : st'[d] = st[d]
    BY <1>1, <1>3 DEF Over, IInv, Types
  <2>3. st' = st
    BY <2>2
  <2>4. QED
    BY <1>1, <1>3, <2>1, <2>3 DEF Exchange!ServerGets, Exchange!Get
<1>4. ASSUME got' = [got EXCEPT ![e] = out[Peer(e)]], e = Client,
             pc' = [pc EXCEPT ![e] = "done"]
      PROVE  Exchange!ClientGets
  <2>1. st[Client] = "open" /\ Peer(Client) = Server
    BY <1>1, <1>4, PeerFacts DEF Over
  <2>2. \A d \in Ends : st'[d] = IF d = Client THEN "done" ELSE st[d]
    BY <1>1, <1>4 DEF Over, IInv, Types
  <2>3. st' = [st EXCEPT ![Client] = "done"]
    BY <2>2
\* The bytes it reads come from a server that has its request.
  <2>4. got[Server] # Nothing
    <3>1. /\ stream[e] # <<>> /\ stream[e] \in Seq(Bytes) /\ Filled(out[Peer(e)], frame[e], part[e])
          /\ Channel(out[Peer(e)], frame[e], stream[e]) /\ out[Peer(e)] \in Messages
          /\ part[e] \in 1 .. 3
      BY <1>1, PeerFacts DEF Recv, IInv, Types, Carried, Reading
    <3>2. Len(stream[e]) # 0 /\ Len(stream[e]) \in Nat
      BY <3>1, EmptySeq
    <3>3. Read(frame[e]) \in Nat
      BY <3>1, ReadIs
    <3>4. SentTo(e) # 0
      BY <3>2, <3>3 DEF SentTo
    <3>5. QED
      BY <1>4, <3>4 DEF IInv, Turns
  <2>5. QED
    BY <1>1, <1>4, <2>1, <2>3, <2>4 DEF Exchange!ClientGets, Exchange!Get
<1>5. QED
  BY <1>1, <1>2, <1>3, <1>4, PeerFacts DEF Ends

LEMMA StepRefines == IInv /\ [Next]_vars => [Exchange!Next]_(Exchange!vars)
<1> SUFFICES ASSUME IInv, [Next]_vars PROVE Exchange!Next \/ UNCHANGED Exchange!vars
  OBVIOUS
<1>1. ASSUME NEW e \in Ends, Send(e) PROVE Exchange!Next \/ UNCHANGED Exchange!vars
  BY <1>1, SendRefines DEF Exchange!Next
<1>2. ASSUME NEW e \in Ends, Recv(e) PROVE Exchange!Next \/ UNCHANGED Exchange!vars
  BY <1>2, RecvRefines DEF Exchange!Next
<1>3. ASSUME NEW e \in Ends, SendFails(e) \/ RecvFails(e)
      PROVE  Exchange!Next \/ UNCHANGED Exchange!vars
  <2>1. ~ Over(e) /\ pc' = [pc EXCEPT ![e] = "failed"] /\ UNCHANGED <<out, got>>
    BY <1>3 DEF SendFails, RecvFails, Over
  <2>2. QED
    BY <2>1, FailRefines DEF Exchange!Next
<1>4. ASSUME NEW e \in Ends, Close(e) PROVE Exchange!Next \/ UNCHANGED Exchange!vars
  <2>1. CASE Over(e)
    <3>1. pc' = pc /\ UNCHANGED <<out, got>>
      BY <1>4, <2>1 DEF Close, IInv, Types
    <3>2. QED
      BY <3>1, Stutters DEF State, Over
  <2>2. CASE ~ Over(e)
    <3>1. pc' = [pc EXCEPT ![e] = "failed"] /\ UNCHANGED <<out, got>>
      BY <1>4, <2>2 DEF Close, IInv, Types
    <3>2. QED
      BY <2>2, <3>1, FailRefines DEF Exchange!Next
  <2>3. QED
    BY <2>1, <2>2
<1>5. CASE UNCHANGED vars
  BY <1>5, Stutters DEF vars, State, Over
<1>6. QED
  BY <1>1, <1>2, <1>3, <1>4, <1>5 DEF Next, End

\* Whatever pieces the bytes move in and wherever a call fails, what an end has
\* read and what is on its way to it begin what its peer has sent, and the calls
\* of send_message and recv_message (src/network.cpp) are an exchange of whole
\* messages: each end gets its peer's message as it was sent, once, or nothing.
THEOREM MessagesArriveWhole == Spec => ImplementsExchange
<1>1. QED
  BY InvariantHolds, InStepHolds, InitRefines, StepRefines, PTL
  DEF Spec, ImplementsExchange, Exchange!Spec

----------------------------------------------------------------------------
(* Sequences put one after the other. *)

\* The first k of g, one after the other.
Linked(g, k) == FlattenSeq([i \in 1 .. k |-> g[i]])

Joined(f, g, n) ==
  /\ f = [k \in 0 .. n |-> f[k]] /\ f[0] = <<>>
  /\ \A k \in 1 .. n : f[k] = IF k = 1 THEN g[k] ELSE f[k - 1] \o g[k]

LEMMA JoinedExist == ASSUME NEW n \in Nat, NEW g PROVE \E f : Joined(f, g, n)
<1> DEFINE T == {m \in 0 .. n : \E f : Joined(f, g, m)}
<1>1. 0 \in T
  <2>1. Joined([k \in 0 .. 0 |-> <<>>], g, 0)
    BY DEF Joined
  <2>2. QED
    BY <2>1
<1>2. ASSUME NEW k \in 0 .. n - 1, k \in T PROVE k + 1 \in T
  <2>1. PICK f : Joined(f, g, k)
    BY <1>2
  <2> DEFINE last == IF k + 1 = 1 THEN g[k + 1] ELSE f[k] \o g[k + 1]
             h == [i \in 0 .. k + 1 |-> IF i = k + 1 THEN last ELSE f[i]]
  <2>2. h[k + 1] = last /\ \A i \in 0 .. k : h[i] = f[i]
    <3> HIDE DEF last
    <3>1. k + 1 \in 0 .. k + 1 /\ \A i \in 0 .. k : i \in 0 .. k + 1 /\ i # k + 1
      OBVIOUS
    <3>2. QED
      BY <3>1
  <2>3. h = [i \in 0 .. k + 1 |-> h[i]] /\ h[0] = <<>>
    BY <2>1, <2>2 DEF Joined
  <2>4. last = IF k + 1 = 1 THEN g[k + 1] ELSE h[k] \o g[k + 1]
    BY <2>2
  <2> HIDE DEF h, last
  <2>5. ASSUME NEW i \in 1 .. k + 1
        PROVE  h[i] = IF i = 1 THEN g[i] ELSE h[i - 1] \o g[i]
    <3>1. CASE i = k + 1
      <4>1. i - 1 = k
        BY <3>1
      <4>2. QED
        BY <2>2, <2>4, <3>1, <4>1
    <3>2. CASE i # k + 1
      <4>1. i \in 1 .. k /\ i \in 0 .. k /\ i - 1 \in 0 .. k
        BY <3>2
      <4>2. f[i] = IF i = 1 THEN g[i] ELSE f[i - 1] \o g[i]
        BY <2>1, <4>1 DEF Joined
      <4>3. QED
        BY <2>2, <4>1, <4>2
    <3>3. QED
      BY <3>1, <3>2
  <2>6. Joined(h, g, k + 1)
    BY <2>3, <2>5 DEF Joined
  <2>7. QED
    BY <2>6
<1> HIDE DEF T
<1>3. n \in T
  BY <1>1, <1>2, Induction
<1>4. QED
  BY <1>3 DEF T

LEMMA LinkedIsJoined ==
  ASSUME NEW n \in Nat, NEW g, NEW f, Joined(f, g, n)
  PROVE  \A k \in 0 .. n : Linked(g, k) = f[k]
<1> SUFFICES ASSUME NEW m \in 0 .. n PROVE Linked(g, m) = f[m]
  OBVIOUS
<1>1. CASE m = 0
  <2> DEFINE q == [i \in 1 .. m |-> g[i]]
  <2>1. q = <<>> /\ Len(q) = 0
    BY <1>1
  <2>2. FlattenSeq(q) = q
    BY <2>1 DEF FlattenSeq
  <2>3. QED
    BY <1>1, <2>1, <2>2 DEF Linked, Joined
<1>2. CASE m # 0
  <2> DEFINE q == [i \in 1 .. m |-> g[i]]
             Def(h) == h = [i \in 1 .. Len(q) |-> IF i = 1 THEN q[i] ELSE h[i - 1] \o q[i]]
             h == CHOOSE h : Def(h)
             e == [i \in 1 .. m |-> f[i]]
             T == {k \in 0 .. m - 1 : h[k + 1] = f[k + 1]}
  <2>1. Len(q) = m
    OBVIOUS
  <2>2. Def(e)
    <3>1. \A i \in 1 .. m : f[i] = IF i = 1 THEN g[i] ELSE f[i - 1] \o g[i]
      BY DEF Joined
    <3>2. \A i \in 1 .. m : i # 1 => i - 1 \in 1 .. m
      OBVIOUS
    <3>3. \A i \in 1 .. m : e[i] = IF i = 1 THEN q[i] ELSE e[i - 1] \o q[i]
      BY <3>1, <3>2
    <3>4. e = [i \in 1 .. m |-> e[i]]
      OBVIOUS
    <3> HIDE DEF e, q
    <3>5. QED
      BY <2>1, <3>3, <3>4
  <2>3. Def(h)
    BY <2>2
  <2>4. FlattenSeq(q) = h[m]
    BY <1>2, <2>1 DEF FlattenSeq
  <2> HIDE DEF h
  <2>5. \A i \in 1 .. m : h[i] = IF i = 1 THEN g[i] ELSE h[i - 1] \o g[i]
    BY <2>1, <2>3
  <2>6. 0 \in T
    <3>1. 1 \in 1 .. m /\ 0 \in 0 .. m - 1 /\ 1 \in 1 .. n
      BY <1>2
    <3>2. h[1] = g[1] /\ f[1] = g[1]
      BY <2>5, <3>1 DEF Joined
    <3>3. QED
      BY <3>1, <3>2
  <2>7. ASSUME NEW k \in 0 .. m - 1 - 1, k \in T PROVE k + 1 \in T
    <3>1. (k + 1) + 1 \in 1 .. m /\ (k + 1) + 1 \in 1 .. n /\ (k + 1) + 1 # 1 /\ ((k + 1) + 1) - 1 = k + 1
          /\ k + 1 \in 0 .. m - 1
      OBVIOUS
    <3>2. h[(k + 1) + 1] = h[k + 1] \o g[(k + 1) + 1]
      BY <2>5, <3>1
    <3>3. f[(k + 1) + 1] = f[k + 1] \o g[(k + 1) + 1]
      BY <3>1 DEF Joined
    <3>4. QED
      BY <2>7, <3>1, <3>2, <3>3
  <2> HIDE DEF T
  <2>8. m - 1 \in T
    <3>1. m - 1 \in Nat /\ m - 1 \in 0 .. m - 1
      BY <1>2
    <3>2. \A k \in 0 .. m - 1 : k \in T
      BY <2>6, <2>7, <3>1, Induction
    <3>3. QED
      BY <3>1, <3>2
  <2>9. h[m] = f[m]
    <3>1. (m - 1) + 1 = m
      OBVIOUS
    <3>2. QED
      BY <2>8, <3>1 DEF T
  <2>10. QED
    BY <2>4, <2>9 DEF Linked
<1>3. QED
  BY <1>1, <1>2

Pieces(g, n, S) == \A i \in 1 .. n : g[i] \in Seq(S)

\* One more, and what they are sequences of.
LEMMA LinkedSteps ==
  ASSUME NEW n \in Nat, NEW S, NEW g, Pieces(g, n, S)
  PROVE  /\ Linked(g, 0) = <<>>
         /\ \A k \in 0 .. n : Linked(g, k) \in Seq(S)
         /\ \A k \in 0 .. n - 1 : Linked(g, k + 1) = Linked(g, k) \o g[k + 1]
<1>1. PICK f : Joined(f, g, n)
  BY JoinedExist
<1>2. \A k \in 0 .. n : Linked(g, k) = f[k]
  BY <1>1, LinkedIsJoined
<1>3. f[0] = <<>> /\ \A k \in 1 .. n : f[k] = IF k = 1 THEN g[k] ELSE f[k - 1] \o g[k]
  BY <1>1 DEF Joined
<1>4. ASSUME NEW k \in 0 .. n - 1, f[k] \in Seq(S)
      PROVE  f[k + 1] = f[k] \o g[k + 1] /\ f[k + 1] \in Seq(S)
  <2>1. k + 1 \in 1 .. n /\ (k + 1) - 1 = k /\ g[k + 1] \in Seq(S)
    BY DEF Pieces
  <2>2. f[k + 1] = IF k + 1 = 1 THEN g[k + 1] ELSE f[k] \o g[k + 1]
    BY <1>3, <2>1
  <2>3. CASE k = 0
    <3>1. f[k] = <<>> /\ <<>> \o g[k + 1] = g[k + 1]
      BY <1>3, <2>1, <2>3, ConcatEmptySeq
    <3>2. QED
      BY <2>1, <2>2, <2>3, <3>1
  <2>4. CASE k # 0
    <3>1. k + 1 # 1
      BY <2>4
    <3>2. f[k] \o g[k + 1] \in Seq(S)
      BY <1>4, <2>1, ConcatProperties
    <3>3. QED
      BY <2>2, <3>1, <3>2
  <2>5. QED
    BY <2>3, <2>4
<1> DEFINE T == {k \in 0 .. n : f[k] \in Seq(S)}
<1>5. 0 \in T
  <2>1. <<>> \in Seq(S) /\ 0 \in 0 .. n
    OBVIOUS
  <2>2. QED
    BY <1>3, <2>1
<1>6. ASSUME NEW k \in 0 .. n - 1, k \in T PROVE k + 1 \in T
  <2>1. k + 1 \in 0 .. n /\ f[k] \in Seq(S)
    BY <1>6
  <2>2. QED
    BY <1>4, <2>1
<1> HIDE DEF T
<1>7. \A k \in 0 .. n : k \in T
  BY <1>5, <1>6, Induction
<1>8. \A k \in 0 .. n : f[k] \in Seq(S)
  BY <1>7 DEF T
<1>9. ASSUME NEW k \in 0 .. n - 1
      PROVE  k \in 0 .. n /\ k + 1 \in 0 .. n /\ f[k + 1] = f[k] \o g[k + 1]
  <2>1. k \in 0 .. n /\ k + 1 \in 0 .. n
    OBVIOUS
  <2>2. QED
    BY <1>4, <1>8, <2>1
<1>10. 0 \in 0 .. n
  OBVIOUS
<1>11. QED
  BY <1>2, <1>3, <1>8, <1>9, <1>10

----------------------------------------------------------------------------
(* What a reader and a writer promise each other. *)

\* From the cursor on the buffer holds the cells, as far as it goes.
Compatible(at, cells) == \A j \in 1 .. Len(cells) : at + j <= Len(buf) => buf[at + j] = cells[j]

\* The value, or an exception when the buffer ends within its cells.
Got(at, cells, value) ==
  IF at + Len(cells) <= Len(buf) THEN [at |-> at + Len(cells), value |-> value] ELSE Threw

\* The cells are what the buffer holds from one cursor to another.
Holds(cells, at, end) ==
  /\ cells \in Seq(Cells) /\ at \in Nat /\ end \in at .. Len(buf) /\ Len(cells) = end - at
  /\ \A j \in 1 .. end - at : cells[j] = buf[at + j]

Reads(read, cells, value) ==
  \A at \in 0 .. Len(buf) : Compatible(at, cells) => read[at] = Got(at, cells, value)

\* What is read without an exception is a value that would have been written so.
Sound(read, write, D) ==
  \A at \in 0 .. Len(buf) : ~ Failed(read[at]) =>
    /\ read[at].value \in D
    /\ Holds(write[read[at].value], at, read[at].at)

Codec(read, write, D) ==
  /\ \A v \in D : write[v] \in Seq(Cells) /\ Reads(read, write[v], v)
  /\ Sound(read, write, D)

WellTyped == buf \in Seq(Cells) /\ ring \in RingSizes

LEMMA WireConstants ==
  /\ Width \in Nat \ {0, 1} /\ SeedCells \in Nat \ {0} /\ RingSizes \subseteq Nat \ {0}
  /\ Cells = 0 .. Width - 1 /\ Cells \subseteq Nat
  /\ Threw = [at |-> -1, value |-> <<>>] /\ Failed(Threw)
BY WireAssumption DEF Cells, Threw, Failed

LEMMA CompatibleParts ==
  ASSUME WellTyped, NEW s \in Seq(Cells), NEW t \in Seq(Cells), NEW at \in Nat, Compatible(at, s \o t)
  PROVE  Compatible(at, s) /\ Compatible(at + Len(s), t)
<1>1. /\ Len(s) \in Nat /\ Len(t) \in Nat /\ Len(s \o t) = Len(s) + Len(t) /\ Len(buf) \in Nat
      /\ \A i \in 1 .. Len(s) + Len(t) : (s \o t)[i] = IF i <= Len(s) THEN s[i] ELSE t[i - Len(s)]
  BY ConcatProperties DEF WellTyped
<1>2. \A j \in 1 .. Len(s) + Len(t) : at + j <= Len(buf) => buf[at + j] = (s \o t)[j]
  BY <1>1 DEF Compatible
<1>3. ASSUME NEW j \in 1 .. Len(s), at + j <= Len(buf) PROVE buf[at + j] = s[j]
  <2>1. j \in 1 .. Len(s) + Len(t) /\ j <= Len(s)
    BY <1>1
  <2>2. QED
    BY <1>1, <1>2, <1>3, <2>1
<1>4. ASSUME NEW j \in 1 .. Len(t), (at + Len(s)) + j <= Len(buf) PROVE buf[(at + Len(s)) + j] = t[j]
  <2> DEFINE i == Len(s) + j
  <2>1. i \in 1 .. Len(s) + Len(t) /\ ~ (i <= Len(s)) /\ i - Len(s) = j /\ (at + Len(s)) + j = at + i
    BY <1>1
  <2> HIDE DEF i
  <2>2. QED
    BY <1>1, <1>2, <1>4, <2>1
<1>5. QED
  BY <1>3, <1>4 DEF Compatible

LEMMA HoldsParts ==
  ASSUME WellTyped, NEW s, NEW t, NEW a, NEW b, NEW c, Holds(s, a, b), Holds(t, b, c)
  PROVE  Holds(s \o t, a, c)
<1>1. /\ s \in Seq(Cells) /\ t \in Seq(Cells) /\ Len(s) = b - a /\ Len(t) = c - b
      /\ Len(buf) \in Nat /\ a \in Nat /\ b \in a .. Len(buf) /\ c \in b .. Len(buf)
  BY DEF Holds, WellTyped
<1>2. /\ s \o t \in Seq(Cells) /\ Len(s \o t) = Len(s) + Len(t)
      /\ \A i \in 1 .. Len(s) + Len(t) : (s \o t)[i] = IF i <= Len(s) THEN s[i] ELSE t[i - Len(s)]
  BY <1>1, ConcatProperties
<1>3. b \in Nat /\ c \in a .. Len(buf) /\ Len(s \o t) = c - a
  BY <1>1, <1>2
<1>4. ASSUME NEW i \in 1 .. c - a PROVE (s \o t)[i] = buf[a + i]
  <2>1. i \in 1 .. Len(s) + Len(t)
    BY <1>1, <1>3
  <2>2. CASE i <= Len(s)
    <3>1. i \in 1 .. b - a /\ (s \o t)[i] = s[i]
      BY <1>1, <1>2, <1>3, <2>1, <2>2
    <3>2. QED
      BY <3>1 DEF Holds
  <2>3. CASE ~ (i <= Len(s))
    <3>1. i - Len(s) \in 1 .. c - b /\ (s \o t)[i] = t[i - Len(s)]
      BY <1>1, <1>2, <1>3, <2>1, <2>3
    <3>2. t[i - Len(s)] = buf[b + (i - Len(s))]
      BY <3>1 DEF Holds
    <3>3. b + (i - Len(s)) = a + i
      BY <1>1, <1>3
    <3>4. QED
      BY <3>1, <3>2, <3>3
  <2>4. QED
    BY <2>2, <2>3
<1>5. QED
  BY <1>1, <1>2, <1>3, <1>4 DEF Holds

\* A reader that throws or not.
LEMMA GotFacts ==
  ASSUME WellTyped, NEW at \in Nat, NEW cells \in Seq(Cells), NEW value
  PROVE  /\ Failed(Got(at, cells, value)) <=> ~ (at + Len(cells) <= Len(buf))
         /\ at + Len(cells) <= Len(buf) =>
              Got(at, cells, value).at = at + Len(cells) /\ Got(at, cells, value).value = value
         /\ Failed(Got(at, cells, value)) => Got(at, cells, value) = Threw
<1>1. Len(cells) \in Nat
  OBVIOUS
<1>2. Got(at, cells, value) = IF at + Len(cells) <= Len(buf) THEN [at |-> at + Len(cells), value |-> value] ELSE Threw
  BY DEF Got
<1>3. ~ Failed([at |-> at + Len(cells), value |-> value])
  BY <1>1 DEF Failed
<1>4. Failed(Threw)
  BY WireConstants
<1>5. QED
  BY <1>2, <1>3, <1>4

----------------------------------------------------------------------------
(* A reader after another. *)

Steps(r, reads, at, n) ==
  /\ r = [i \in 0 .. n |-> r[i]] /\ r[0] = [at |-> at, value |-> <<>>]
  /\ \A i \in 1 .. n : r[i] = ReadNext(r[i - 1], reads[i])

LEMMA StepsExist == ASSUME NEW n \in Nat, NEW reads, NEW at PROVE \E r : Steps(r, reads, at, n)
<1> DEFINE T == {m \in 0 .. n : \E r : Steps(r, reads, at, m)}
<1>1. 0 \in T
  <2>1. Steps([k \in 0 .. 0 |-> [at |-> at, value |-> <<>>]], reads, at, 0)
    BY DEF Steps
  <2>2. QED
    BY <2>1
<1>2. ASSUME NEW k \in 0 .. n - 1, k \in T PROVE k + 1 \in T
  <2>1. PICK f : Steps(f, reads, at, k)
    BY <1>2
  <2> DEFINE last == ReadNext(f[k], reads[k + 1])
             h == [i \in 0 .. k + 1 |-> IF i = k + 1 THEN last ELSE f[i]]
  <2>2. h[k + 1] = last /\ \A i \in 0 .. k : h[i] = f[i]
    <3> HIDE DEF last
    <3>1. k + 1 \in 0 .. k + 1 /\ \A i \in 0 .. k : i \in 0 .. k + 1 /\ i # k + 1
      OBVIOUS
    <3>2. QED
      BY <3>1
  <2>3. h = [i \in 0 .. k + 1 |-> h[i]] /\ h[0] = [at |-> at, value |-> <<>>]
    <3>1. 0 \in 0 .. k
      OBVIOUS
    <3>2. h[0] = [at |-> at, value |-> <<>>]
      BY <2>1, <2>2, <3>1 DEF Steps
    <3>3. QED
      BY <3>2
  <2>4. last = ReadNext(h[k], reads[k + 1])
    BY <2>2
  <2> HIDE DEF h, last
  <2>5. ASSUME NEW i \in 1 .. k + 1
        PROVE  h[i] = ReadNext(h[i - 1], reads[i])
    <3>1. CASE i = k + 1
      <4>1. i - 1 = k
        BY <3>1
      <4>2. QED
        BY <2>2, <2>4, <3>1, <4>1
    <3>2. CASE i # k + 1
      <4>1. i \in 1 .. k /\ i \in 0 .. k /\ i - 1 \in 0 .. k
        BY <3>2
      <4>2. f[i] = ReadNext(f[i - 1], reads[i])
        BY <2>1, <4>1 DEF Steps
      <4>3. QED
        BY <2>2, <4>1, <4>2
    <3>3. QED
      BY <3>1, <3>2
  <2>6. Steps(h, reads, at, k + 1)
    BY <2>3, <2>5 DEF Steps
  <2>7. QED
    BY <2>6
<1> HIDE DEF T
<1>3. n \in T
  BY <1>1, <1>2, Induction
<1>4. QED
  BY <1>3 DEF T

LEMMA ReadEachIs ==
  ASSUME NEW reads, Len(reads) \in Nat, NEW at, NEW r, Steps(r, reads, at, Len(reads))
  PROVE  ReadEach(reads, at) = r[Len(reads)]
<1> DEFINE n == Len(reads)
           Def(h) == h = [i \in 0 .. n |-> IF i = 0 THEN [at |-> at, value |-> <<>>]
                                           ELSE ReadNext(h[i - 1], reads[i])]
           h == CHOOSE h : Def(h)
           T == {k \in 0 .. n : h[k] = r[k]}
<1>1. Def(r)
  <2>1. \A i \in 0 .. n : r[i] = IF i = 0 THEN [at |-> at, value |-> <<>>] ELSE ReadNext(r[i - 1], reads[i])
    <3>1. \A i \in 0 .. n : i # 0 => i \in 1 .. n
      OBVIOUS
    <3>2. QED
      BY <3>1 DEF Steps
  <2>2. r = [i \in 0 .. n |-> r[i]]
    BY DEF Steps
  <2>3. QED
    BY <2>1, <2>2
<1>2. Def(h)
  BY <1>1
<1>3. ReadEach(reads, at) = h[n]
  BY DEF ReadEach
<1> HIDE DEF h
<1>4. h[0] = [at |-> at, value |-> <<>>] /\ \A i \in 1 .. n : h[i] = ReadNext(h[i - 1], reads[i])
  BY <1>2
<1>5. 0 \in T
  BY <1>4 DEF Steps
<1>6. ASSUME NEW k \in 0 .. n - 1, k \in T PROVE k + 1 \in T
  <2>1. k + 1 \in 1 .. n /\ (k + 1) - 1 = k /\ k + 1 \in 0 .. n
    OBVIOUS
  <2>2. h[k + 1] = ReadNext(h[k], reads[k + 1])
    BY <1>4, <2>1
  <2>3. r[k + 1] = ReadNext(r[k], reads[k + 1])
    BY <2>1 DEF Steps
  <2>4. QED
    BY <1>6, <2>1, <2>2, <2>3
<1> HIDE DEF T
<1>7. n \in 0 .. n /\ \A k \in 0 .. n : k \in T
  BY <1>5, <1>6, Induction
<1>8. QED
  BY <1>3, <1>7 DEF T

\* A list of n items, whatever they are.
Listed(v, n) == v = [i \in 1 .. n |-> v[i]]

Appended(a, s, e, k) == Listed(a, k + 1) /\ a[k + 1] = e /\ \A i \in 1 .. k : a[i] = s[i]

LEMMA AppendIs ==
  ASSUME NEW k \in Nat
  PROVE  \A s, e : Listed(s, k) => Appended(Append(s, e), s, e, k)
<1> SUFFICES ASSUME NEW s, NEW e, Listed(s, k) PROVE Appended(Append(s, e), s, e, k)
  OBVIOUS
<1> DEFINE S == {s[i] : i \in 1 .. k} \cup {e}
           a == Append(s, e)
<1>1. s \in [1 .. k -> S]
  <2>1. s = [i \in 1 .. k |-> s[i]]
    BY DEF Listed
  <2>2. \A i \in 1 .. k : s[i] \in S
    OBVIOUS
  <2> HIDE DEF S
  <2>3. QED
    BY <2>1, <2>2
<1>2. e \in S
  OBVIOUS
<1> HIDE DEF S
<1>3. s \in Seq(S) /\ Len(s) = k
  BY <1>1, FunctionIsSeq
<1>4. a \in Seq(S) /\ Len(a) = k + 1
      /\ \A i \in 1 .. k + 1 : a[i] = IF i <= k THEN s[i] ELSE e
  BY <1>2, <1>3, AppendProperties
<1> HIDE DEF a
<1>5. a = [i \in 1 .. k + 1 |-> a[i]]
  BY <1>4
<1>6. k + 1 \in 1 .. k + 1 /\ ~ (k + 1 <= k) /\ \A i \in 1 .. k : i \in 1 .. k + 1 /\ i <= k
  OBVIOUS
<1>7. QED
  BY <1>4, <1>5, <1>6 DEF a, Listed, Appended

LEMMA ListedEqual ==
  ASSUME NEW n, NEW v, NEW w, Listed(v, n), Listed(w, n), \A i \in 1 .. n : v[i] = w[i]
  PROVE  v = w
BY DEF Listed

LEMMA AppendLast ==
  ASSUME NEW k \in Nat, NEW v
  PROVE  [j \in 1 .. k + 1 |-> v[j]] = Append([j \in 1 .. k |-> v[j]], v[k + 1])
<1> DEFINE x == [j \in 1 .. k |-> v[j]]
           y == [j \in 1 .. k + 1 |-> v[j]]
           e == v[k + 1]
           a == Append(x, e)
<1>1. Listed(x, k) /\ Listed(y, k + 1)
  BY DEF Listed
<1>2. \A i \in 1 .. k : x[i] = y[i]
  OBVIOUS
<1>3. y[k + 1] = e /\ \A i \in 1 .. k + 1 : i \in 1 .. k \/ i = k + 1
  OBVIOUS
<1> HIDE DEF x, y, e
<1>4. Appended(a, x, e, k)
  BY <1>1, AppendIs, Zenon
<1> HIDE DEF a
<1>5. \A i \in 1 .. k + 1 : a[i] = y[i]
  BY <1>2, <1>3, <1>4 DEF Appended
<1>6. a = y
  BY <1>1, <1>4, <1>5, ListedEqual DEF Appended
<1>7. QED
  BY <1>6 DEF a, e, x, y

ItemsRead(reads, g, v, n) == \A i \in 1 .. n : Reads(reads[i], g[i], v[i])

\* What is written one after the other is read one after the other.
LEMMA EachReads ==
  ASSUME WellTyped, NEW n \in Nat, NEW reads, Len(reads) = n, NEW g, Pieces(g, n, Cells), NEW v,
         ItemsRead(reads, g, v, n), NEW at \in 0 .. Len(buf), Compatible(at, Linked(g, n))
  PROVE  ReadEach(reads, at) = Got(at, Linked(g, n), [j \in 1 .. n |-> v[j]])
<1> DEFINE V(k) == [j \in 1 .. k |-> v[j]]
<1>0. Len(buf) \in Nat /\ at \in Nat
  BY DEF WellTyped
<1>1. /\ Linked(g, 0) = <<>>
      /\ \A k \in 0 .. n : Linked(g, k) \in Seq(Cells)
      /\ \A k \in 0 .. n - 1 : Linked(g, k + 1) = Linked(g, k) \o g[k + 1]
  BY LinkedSteps
<1>2. ASSUME NEW k \in 0 .. n - 1
      PROVE  /\ k \in 0 .. n /\ k + 1 \in 0 .. n /\ k + 1 \in 1 .. n /\ (k + 1) - 1 = k
             /\ Linked(g, k) \in Seq(Cells) /\ g[k + 1] \in Seq(Cells)
             /\ Linked(g, k + 1) = Linked(g, k) \o g[k + 1]
             /\ Len(Linked(g, k)) \in Nat /\ Len(g[k + 1]) \in Nat
             /\ Len(Linked(g, k + 1)) = Len(Linked(g, k)) + Len(g[k + 1])
  <2>1. k \in 0 .. n /\ k + 1 \in 0 .. n /\ k + 1 \in 1 .. n /\ (k + 1) - 1 = k
    OBVIOUS
  <2>2. g[k + 1] \in Seq(Cells)
    BY <2>1 DEF Pieces
  <2>3. Linked(g, k) \in Seq(Cells) /\ Linked(g, k + 1) = Linked(g, k) \o g[k + 1]
    BY <1>1, <2>1
  <2>4. Len(Linked(g, k) \o g[k + 1]) = Len(Linked(g, k)) + Len(g[k + 1])
    BY <2>2, <2>3, ConcatProperties
  <2>5. Len(Linked(g, k)) \in Nat /\ Len(g[k + 1]) \in Nat
    BY <2>2, <2>3
  <2>6. QED
    BY <2>1, <2>2, <2>3, <2>4, <2>5
<1>3. \A k \in 0 .. n : Compatible(at, Linked(g, k))
  <2> DEFINE T == {k \in 0 .. n : Compatible(at, Linked(g, n - k))}
  <2>1. 0 \in T
    <3>1. n - 0 = n /\ 0 \in 0 .. n
      OBVIOUS
    <3>2. QED
      BY <3>1
  <2>2. ASSUME NEW k \in 0 .. n - 1, k \in T PROVE k + 1 \in T
    <3> DEFINE m == n - (k + 1)
    <3>1. m \in 0 .. n - 1 /\ n - k = m + 1 /\ k + 1 \in 0 .. n
      OBVIOUS
    <3>2. Compatible(at, Linked(g, m + 1))
      BY <2>2, <3>1
    <3> HIDE DEF m
    <3>3. Linked(g, m) \in Seq(Cells) /\ g[m + 1] \in Seq(Cells) /\ Linked(g, m + 1) = Linked(g, m) \o g[m + 1]
      BY <1>2, <3>1
    <3>4. Compatible(at, Linked(g, m) \o g[m + 1])
      BY <3>2, <3>3
    <3>5. Compatible(at, Linked(g, m))
      BY <1>0, <3>3, <3>4, CompatibleParts
    <3>6. QED
      BY <3>1, <3>5 DEF m
  <2> HIDE DEF T
  <2>3. \A k \in 0 .. n : k \in T
    BY <2>1, <2>2, Induction
  <2>4. ASSUME NEW k \in 0 .. n PROVE Compatible(at, Linked(g, k))
    <3>1. n - k \in 0 .. n /\ n - (n - k) = k
      OBVIOUS
    <3>2. n - k \in T
      BY <2>3, <3>1
    <3>3. QED
      BY <3>1, <3>2 DEF T
  <2>5. QED
    BY <2>4
<1>4. PICK r : Steps(r, reads, at, n)
  BY StepsExist
<1> DEFINE R == {k \in 0 .. n : r[k] = Got(at, Linked(g, k), V(k))}
<1>5. 0 \in R
  <2>1. V(0) = <<>> /\ 0 \in 0 .. n
    OBVIOUS
  <2>2. Len(Linked(g, 0)) = 0 /\ at + 0 <= Len(buf) /\ at + 0 = at
    BY <1>0, <1>1
  <2> HIDE DEF V
  <2>3. Got(at, Linked(g, 0), V(0)) = [at |-> at, value |-> <<>>]
    BY <2>1, <2>2 DEF Got
  <2>4. QED
    BY <1>4, <2>1, <2>3 DEF Steps
<1>6. ASSUME NEW k \in 0 .. n - 1, k \in R PROVE k + 1 \in R
  <2> DEFINE c == g[k + 1]
             f == Linked(g, k)
             f1 == Linked(g, k + 1)
             b == at + Len(f)
             item == reads[k + 1][r[k].at]
  <2>1. /\ k \in 0 .. n /\ k + 1 \in 0 .. n /\ k + 1 \in 1 .. n /\ (k + 1) - 1 = k
        /\ f \in Seq(Cells) /\ c \in Seq(Cells) /\ f1 = f \o c /\ f1 \in Seq(Cells)
        /\ Len(f) \in Nat /\ Len(c) \in Nat /\ Len(f1) = Len(f) + Len(c)
    BY <1>1, <1>2
  <2>2. r[k] = Got(at, f, V(k))
    BY <1>6
  <2>3. r[k + 1] = ReadNext(r[k], reads[k + 1])
    BY <1>4, <2>1 DEF Steps
  <2>4. Compatible(at, f \o c)
    BY <1>3, <2>1
  <2>5. Compatible(b, c)
    BY <1>0, <2>1, <2>4, CompatibleParts
  <2>6. Reads(reads[k + 1], c, v[k + 1])
    BY <2>1 DEF ItemsRead
  <2>7. V(k + 1) = Append(V(k), v[k + 1])
    <3>1. k \in Nat
      OBVIOUS
    <3>2. QED
      BY <3>1, AppendLast
  <2> HIDE DEF V, f, c, f1, b
  <2>8. CASE ~ (b <= Len(buf))
    <3>1. r[k] = Threw /\ Failed(r[k])
      BY <1>0, <2>1, <2>2, <2>8, GotFacts DEF b
    <3>2. r[k + 1] = Threw
      BY <2>3, <3>1 DEF ReadNext
    <3>3. ~ (at + Len(f1) <= Len(buf))
      BY <1>0, <2>1, <2>8 DEF b
    <3>4. Got(at, f1, V(k + 1)) = Threw
      BY <3>3 DEF Got
    <3>5. QED
      BY <2>1, <3>2, <3>4 DEF f1
  <2>9. CASE b <= Len(buf)
    <3>1. r[k] = [at |-> b, value |-> V(k)]
      BY <2>2, <2>9 DEF Got, b
    <3>2. r[k].at = b /\ r[k].value = V(k) /\ b \in 0 .. Len(buf) /\ b \in Nat /\ ~ Failed(r[k])
      BY <1>0, <2>1, <2>9, <3>1 DEF b, Failed
    <3>3. item = Got(b, c, v[k + 1])
      BY <2>5, <2>6, <3>2 DEF Reads
    <3>4. at + Len(f1) = b + Len(c)
      BY <1>0, <2>1 DEF b
    <3>5. CASE b + Len(c) <= Len(buf)
      <4>1. ~ Failed(item) /\ item.at = b + Len(c) /\ item.value = v[k + 1]
        BY <2>1, <3>2, <3>3, <3>5, GotFacts
      <4> HIDE DEF item
      <4>2. r[k + 1] = [at |-> b + Len(c), value |-> Append(V(k), v[k + 1])]
        BY <2>3, <3>2, <4>1 DEF ReadNext, item
      <4>3. Got(at, f1, V(k + 1)) = [at |-> b + Len(c), value |-> V(k + 1)]
        BY <3>4, <3>5 DEF Got
      <4>4. QED
        BY <2>1, <2>7, <4>2, <4>3 DEF f1
    <3>6. CASE ~ (b + Len(c) <= Len(buf))
      <4>1. Failed(item)
        BY <2>1, <3>2, <3>3, <3>6, GotFacts
      <4>2. r[k + 1] = Threw
        BY <2>3, <4>1 DEF ReadNext
      <4>3. Got(at, f1, V(k + 1)) = Threw
        BY <3>4, <3>6 DEF Got
      <4>4. QED
        BY <2>1, <4>2, <4>3 DEF f1
    <3>7. QED
      BY <3>5, <3>6
  <2>10. QED
    BY <2>8, <2>9
<1> HIDE DEF R, V
<1>7. n \in 0 .. n /\ \A k \in 0 .. n : k \in R
  BY <1>5, <1>6, Induction
<1>8. r[n] = Got(at, Linked(g, n), V(n))
  BY <1>7 DEF R
<1>9. ReadEach(reads, at) = r[n]
  BY <1>4, ReadEachIs
<1>10. QED
  BY <1>8, <1>9 DEF V

\* What the writers make of the items.
Out(writes, v, n) == [i \in 1 .. n |-> writes[i][v[i]]]

ItemCodecs(reads, writes, Ds, n) == \A i \in 1 .. n : Codec(reads[i], writes[i], Ds[i])
ItemsIn(v, Ds, n) == Listed(v, n) /\ \A i \in 1 .. n : v[i] \in Ds[i]

\* Reading has come to k items, which are what the buffer holds.
Come(r, at, writes, Ds, k) == ItemsIn(r.value, Ds, k) /\ Holds(Linked(Out(writes, r.value, k), k), at, r.at)

LEMMA OutPieces ==
  ASSUME NEW n \in Nat, NEW reads, NEW writes, NEW Ds, ItemCodecs(reads, writes, Ds, n),
         NEW k \in 0 .. n, NEW v, ItemsIn(v, Ds, k)
  PROVE  Pieces(Out(writes, v, k), k, Cells) /\ ItemsRead(reads, Out(writes, v, k), v, k)
<1> SUFFICES ASSUME NEW i \in 1 .. k
             PROVE  Out(writes, v, k)[i] \in Seq(Cells) /\ Reads(reads[i], Out(writes, v, k)[i], v[i])
  BY DEF Pieces, ItemsRead
<1>1. i \in 1 .. n /\ v[i] \in Ds[i]
  BY DEF ItemsIn
<1>2. Codec(reads[i], writes[i], Ds[i])
  BY <1>1 DEF ItemCodecs
<1>3. Out(writes, v, k)[i] = writes[i][v[i]]
  BY DEF Out
<1>4. QED
  BY <1>1, <1>2, <1>3 DEF Codec

\* One more item.
LEMMA ComeFurther ==
  ASSUME WellTyped, NEW n \in Nat, NEW reads, NEW writes, NEW Ds, ItemCodecs(reads, writes, Ds, n),
         NEW k \in 0 .. n - 1, NEW at \in 0 .. Len(buf), NEW r, Come(r, at, writes, Ds, k),
         NEW item, item = reads[k + 1][r.at], ~ Failed(item)
  PROVE  Come([at |-> item.at, value |-> Append(r.value, item.value)], at, writes, Ds, k + 1)
<1> DEFINE v == r.value
           e == item.value
           a == Append(v, e)
           w == writes[k + 1][e]
           g == Out(writes, a, k + 1)
<1>1. k \in Nat /\ k + 1 \in 1 .. n /\ k + 1 \in 0 .. n /\ k \in 0 .. n /\ k + 1 \in 1 .. k + 1
  OBVIOUS
<1>2. Listed(v, k) /\ ItemsIn(v, Ds, k) /\ Holds(Linked(Out(writes, v, k), k), at, r.at)
  BY DEF Come, ItemsIn
<1>3. r.at \in 0 .. Len(buf)
  BY <1>2 DEF Holds, WellTyped
<1>4. e \in Ds[k + 1] /\ Holds(w, r.at, item.at)
  <2>1. Codec(reads[k + 1], writes[k + 1], Ds[k + 1])
    BY <1>1 DEF ItemCodecs
  <2>2. Sound(reads[k + 1], writes[k + 1], Ds[k + 1])
    BY <2>1 DEF Codec
  <2>3. QED
    BY <1>3, <2>2 DEF Sound
<1>5. Listed(a, k + 1) /\ a[k + 1] = e /\ \A i \in 1 .. k : a[i] = v[i]
  <2> HIDE DEF v, e
  <2>1. Appended(a, v, e, k)
    BY <1>1, <1>2, AppendIs, Zenon
  <2>2. QED
    BY <2>1 DEF Appended
<1> HIDE DEF v, e, a
<1>6. ItemsIn(a, Ds, k + 1)
  <2>1. ASSUME NEW i \in 1 .. k + 1 PROVE a[i] \in Ds[i]
    <3>1. CASE i = k + 1
      BY <1>4, <1>5, <3>1
    <3>2. CASE i # k + 1
      <4>1. i \in 1 .. k
        BY <3>2
      <4>2. QED
        BY <1>2, <1>5, <4>1 DEF ItemsIn
    <3>3. QED
      BY <3>1, <3>2
  <2>2. QED
    BY <1>5, <2>1 DEF ItemsIn
<1>7. Pieces(g, k + 1, Cells)
  BY <1>1, <1>6, OutPieces
<1>8. g[k + 1] = w /\ [i \in 1 .. k |-> g[i]] = [i \in 1 .. k |-> Out(writes, v, k)[i]]
  <2>1. g[k + 1] = w
    BY <1>1, <1>5 DEF Out
  <2>2. \A i \in 1 .. k : g[i] = Out(writes, v, k)[i]
    <3>1. \A i \in 1 .. k : i \in 1 .. k + 1
      OBVIOUS
    <3>2. QED
      BY <1>5, <3>1 DEF Out
  <2> HIDE DEF g
  <2>3. QED
    BY <2>1, <2>2
<1> HIDE DEF g, w
<1>9. Linked(g, k + 1) = Linked(Out(writes, v, k), k) \o w
  <2>1. k \in 0 .. (k + 1) - 1 /\ k + 1 \in Nat
    BY <1>1
  <2>2. Linked(g, k + 1) = Linked(g, k) \o g[k + 1]
    BY <1>7, <2>1, LinkedSteps
  <2>3. Linked(g, k) = Linked(Out(writes, v, k), k)
    BY <1>8 DEF Linked
  <2>4. QED
    BY <1>8, <2>2, <2>3
<1>10. Holds(Linked(Out(writes, v, k), k) \o w, at, item.at)
  BY <1>2, <1>4, HoldsParts
<1>11. Holds(Linked(g, k + 1), at, item.at)
  BY <1>9, <1>10
<1>12. QED
  BY <1>6, <1>11 DEF Come, g, a, v, e

LEMMA EachSound ==
  ASSUME WellTyped, NEW n \in Nat, NEW reads, Len(reads) = n, NEW writes, NEW Ds,
         ItemCodecs(reads, writes, Ds, n), NEW at \in 0 .. Len(buf), ~ Failed(ReadEach(reads, at))
  PROVE  Come(ReadEach(reads, at), at, writes, Ds, n)
<1>1. PICK r : Steps(r, reads, at, n)
  BY StepsExist
<1>2. ReadEach(reads, at) = r[n]
  BY <1>1, ReadEachIs
<1> DEFINE T == {k \in 0 .. n : Failed(r[k]) \/ Come(r[k], at, writes, Ds, k)}
<1>3. 0 \in T
  <2> DEFINE none == <<>>
             g == Out(writes, none, 0)
  <2>1. r[0].value = none /\ r[0].at = at /\ 0 \in 0 .. n
    BY <1>1 DEF Steps
  <2>2. ItemsIn(none, Ds, 0)
    BY DEF ItemsIn, Listed
  <2>3. Linked(g, 0) = <<>>
    <3>1. Pieces(g, 0, Cells) /\ 0 \in Nat
      BY DEF Pieces
    <3>2. QED
      BY <3>1, LinkedSteps
  <2>4. Holds(<<>>, at, at)
    BY DEF Holds, WellTyped
  <2> HIDE DEF none
  <2>5. Come(r[0], at, writes, Ds, 0)
    BY <2>1, <2>2, <2>3, <2>4 DEF Come
  <2>6. QED
    BY <2>1, <2>5
<1>4. ASSUME NEW k \in 0 .. n - 1, k \in T PROVE k + 1 \in T
  <2> DEFINE item == reads[k + 1][r[k].at]
  <2>1. k + 1 \in 1 .. n /\ (k + 1) - 1 = k /\ k + 1 \in 0 .. n
    OBVIOUS
  <2>2. r[k + 1] = ReadNext(r[k], reads[k + 1])
    BY <1>1, <2>1 DEF Steps
  <2>3. CASE Failed(r[k]) \/ Failed(item)
    <3>1. r[k + 1] = Threw
      BY <2>2, <2>3 DEF ReadNext
    <3>2. QED
      BY <2>1, <3>1, WireConstants
  <2>4. CASE ~ Failed(r[k]) /\ ~ Failed(item)
    <3>1. r[k + 1] = [at |-> item.at, value |-> Append(r[k].value, item.value)]
      BY <2>2, <2>4 DEF ReadNext
    <3>2. Come(r[k], at, writes, Ds, k) /\ ~ Failed(item)
      BY <1>4, <2>4
    <3>3. item = reads[k + 1][r[k].at]
      OBVIOUS
    <3> HIDE DEF item
    <3>4. Come([at |-> item.at, value |-> Append(r[k].value, item.value)], at, writes, Ds, k + 1)
      BY <3>2, <3>3, ComeFurther
    <3>5. QED
      BY <2>1, <3>1, <3>4
  <2>5. QED
    BY <2>3, <2>4
<1> HIDE DEF T
<1>5. n \in 0 .. n /\ \A k \in 0 .. n : k \in T
  BY <1>3, <1>4, Induction
<1>6. Failed(r[n]) \/ Come(r[n], at, writes, Ds, n)
  BY <1>5 DEF T
<1>7. QED
  BY <1>2, <1>6

Shaped(D, Ds, n) == \A v : v \in D <=> ItemsIn(v, Ds, n)
ReadsThem(read, reads) == \A at \in Nat : read[at] = ReadEach(reads, at)
WritesThem(write, writes, D, n) == \A v \in D : write[v] = Linked(Out(writes, v, n), n)

\* Readers one after the other undo writers one after the other.
LEMMA EachCodec ==
  ASSUME WellTyped, NEW n \in Nat, NEW reads, Len(reads) = n, NEW writes, NEW Ds,
         ItemCodecs(reads, writes, Ds, n), NEW D, Shaped(D, Ds, n),
         NEW read, ReadsThem(read, reads), NEW write, WritesThem(write, writes, D, n)
  PROVE  Codec(read, write, D)
<1>0. Len(buf) \in Nat /\ 0 .. Len(buf) \subseteq Nat /\ n \in 0 .. n
  BY DEF WellTyped
<1>1. ASSUME NEW v \in D PROVE write[v] \in Seq(Cells) /\ Reads(read, write[v], v)
  <2> DEFINE g == Out(writes, v, n)
  <2>1. ItemsIn(v, Ds, n)
    BY DEF Shaped
  <2>2. Pieces(g, n, Cells) /\ ItemsRead(reads, g, v, n)
    BY <1>0, <2>1, OutPieces
  <2>3. write[v] = Linked(g, n)
    BY DEF WritesThem
  <2> HIDE DEF g
  <2>4. Linked(g, n) \in Seq(Cells)
    BY <1>0, <2>2, LinkedSteps
  <2>5. ASSUME NEW at \in 0 .. Len(buf), Compatible(at, Linked(g, n))
        PROVE  read[at] = Got(at, Linked(g, n), v)
    <3>1. ReadEach(reads, at) = Got(at, Linked(g, n), [j \in 1 .. n |-> v[j]])
      BY <2>2, <2>5, EachReads
    <3>2. v = [j \in 1 .. n |-> v[j]]
      BY <2>1 DEF ItemsIn, Listed
    <3>3. read[at] = ReadEach(reads, at)
      BY <1>0 DEF ReadsThem
    <3>4. QED
      BY <3>1, <3>2, <3>3
  <2>6. QED
    BY <2>3, <2>4, <2>5 DEF Reads
<1>2. ASSUME NEW at \in 0 .. Len(buf), ~ Failed(read[at])
      PROVE  read[at].value \in D /\ Holds(write[read[at].value], at, read[at].at)
  <2>1. read[at] = ReadEach(reads, at)
    BY <1>0 DEF ReadsThem
  <2>2. Come(read[at], at, writes, Ds, n)
    BY <1>2, <2>1, EachSound
  <2>3. read[at].value \in D
    BY <2>2 DEF Come, Shaped
  <2>4. QED
    BY <2>2, <2>3 DEF Come, WritesThem
<1>3. QED
  BY <1>1, <1>2 DEF Codec, Sound

----------------------------------------------------------------------------
(* Two's complement. *)

Half == ((Width * Width) - 1) \div 2
Lowest == -((Width * Width) \div 2)

LEMMA Int64Is ==
  /\ Width * Width \in Nat /\ Half \in Nat /\ Lowest \in Int /\ Half - Lowest = Width * Width - 1
  /\ \A v : v \in Int64 <=> v \in Int /\ Lowest <= v /\ v <= Half
<1> DEFINE s == Width * Width
           a == s \div 2
           b == (s - 1) \div 2
<1>1. Width \in Nat \ {0, 1}
  BY WireConstants
<1>2. s \in Nat /\ s >= 1
  <2>1. s \in Nat
    BY <1>1
  <2>2. (Width - 1) * Width >= 0
    BY <1>1
  <2>3. (Width - 1) * Width = s - Width
    BY <1>1
  <2> HIDE DEF s
  <2>4. QED
    BY <1>1, <2>1, <2>2, <2>3
<1> HIDE DEF s
<1>3. a \in Nat /\ b \in Nat /\ a + b = s - 1
  BY <1>2
<1>4. Half = b /\ Lowest = -a /\ Int64 = -a .. b
  BY DEF Half, Lowest, Int64, s
<1> HIDE DEF a, b
<1>5. b - (-a) = s - 1
  BY <1>2, <1>3
<1>6. QED
  BY <1>2, <1>3, <1>4, <1>5 DEF s

LEMMA SplitOnce ==
  ASSUME NEW W \in Nat \ {0}, NEW q \in Int, NEW l \in 0 .. W - 1
  PROVE  (q * W + l) \div W = q /\ (q * W + l) % W = l
OBVIOUS

\* The cells of an integer.
Low(v) == v % Width
High(v) == (v \div Width) % Width

LEMMA SignedCells ==
  ASSUME NEW v \in Int64
  PROVE  Low(v) \in Cells /\ High(v) \in Cells /\ Signed(Low(v) + Width * High(v)) = v
<1> DEFINE W == Width
           s == W * W
           q == v \div W
           l == v % W
           h == q % W
<1>1. W \in Nat \ {0, 1} /\ v \in Int /\ Cells = 0 .. W - 1
  BY WireConstants, Int64Is
<1>2. /\ s \in Nat /\ Half \in Nat /\ Lowest \in Int /\ Half - Lowest = s - 1 /\ Lowest <= v /\ v <= Half
      /\ Lowest <= 0
  <2>1. Lowest <= 0
    <3>1. s \in Nat /\ Lowest = -(s \div 2)
      BY Int64Is DEF Lowest
    <3> HIDE DEF s
    <3>2. s \div 2 >= 0 /\ s \div 2 \in Nat
      BY <3>1
    <3> DEFINE z == s \div 2
    <3>3. QED
      BY <3>1, <3>2
  <2>2. QED
    BY <2>1, Int64Is
<1>3. q \in Int /\ l \in 0 .. W - 1 /\ v = q * W + l
  BY <1>1
<1>4. Low(v) = l /\ High(v) = h /\ h \in 0 .. W - 1
  BY <1>1, <1>3 DEF Low, High
<1> DEFINE qW == q * W
           hW == W * h
<1> HIDE DEF q, l
<1>5. q < W /\ q >= -W
  <2>1. -s <= v /\ v < s
    <3> HIDE DEF s
    <3>1. QED
      BY <1>1, <1>2
  <2>2. ASSUME q >= W PROVE FALSE
    <3>1. (q - W) * W >= 0
      BY <1>1, <1>3, <2>2
    <3>2. (q - W) * W = qW - s
      BY <1>1, <1>3
    <3>3. qW \in Int /\ v = qW + l
      BY <1>1, <1>3
    <3> HIDE DEF qW, s
    <3>4. QED
      BY <1>1, <1>2, <1>3, <2>1, <3>1, <3>2, <3>3
  <2>3. ASSUME q < -W PROVE FALSE
    <3>1. ((-W - 1) - q) * W >= 0
      BY <1>1, <1>3, <2>3
    <3>2. ((-W - 1) - q) * W = ((-s) - W) - qW
      BY <1>1, <1>3
    <3>3. qW \in Int /\ v = qW + l
      BY <1>1, <1>3
    <3> HIDE DEF qW, s
    <3>4. QED
      BY <1>1, <1>2, <1>3, <2>1, <3>1, <3>2, <3>3
  <2>4. QED
    BY <1>1, <1>3, <2>2, <2>3
<1>6. Signed(l + hW) = v
  <2>1. CASE q >= 0
    <3>1. h = q
      BY <1>1, <1>3, <1>5, <2>1
    <3>2. l + hW = v
      <4>1. hW = qW /\ qW \in Int /\ v = qW + l
        BY <1>1, <1>3, <3>1
      <4> HIDE DEF qW, hW
      <4>2. QED
        BY <1>3, <4>1
    <3>3. QED
      BY <3>2 DEF Signed
  <2>2. CASE q < 0
    <3>1. h = q + W
      <4>1. q + W \in 0 .. W - 1 /\ q = (-1) * W + (q + W)
        BY <1>1, <1>3, <1>5, <2>2
      <4> DEFINE y == q + W
      <4>2. W \in Nat \ {0} /\ y \in 0 .. W - 1 /\ -1 \in Int
        BY <1>1, <4>1
      <4> HIDE DEF y
      <4>3. ((-1) * W + y) % W = y
        BY <4>2, SplitOnce
      <4>4. QED
        BY <4>1, <4>3 DEF y
    <3>2. l + hW = v + s
      <4>1. hW = qW + s /\ qW \in Int /\ v = qW + l
        BY <1>1, <1>3, <3>1
      <4> HIDE DEF qW, hW, s
      <4>2. QED
        BY <1>1, <1>2, <1>3, <4>1
    <3>3. ~ (v + s <= Half)
      <4> HIDE DEF s
      <4>1. QED
        BY <1>1, <1>2
    <3>4. v + s \notin Int64
      BY <3>3, Int64Is
    <3>5. (v + s) - s = v
      <4> HIDE DEF s
      <4>1. QED
        BY <1>1, <1>2
    <3>6. QED
      BY <3>2, <3>4, <3>5 DEF Signed
  <2>3. QED
    BY <1>1, <1>3, <2>1, <2>2
<1>7. QED
  BY <1>1, <1>3, <1>4, <1>6

LEMMA CellsSigned ==
  ASSUME NEW l \in Cells, NEW h \in Cells
  PROVE  LET v == Signed(l + Width * h)
         IN v \in Int64 /\ Low(v) = l /\ High(v) = h
<1> DEFINE W == Width
           s == W * W
           hW == W * h
           u == l + hW
           v == Signed(u)
<1>1. W \in Nat \ {0, 1} /\ l \in 0 .. W - 1 /\ h \in 0 .. W - 1
  BY WireConstants
<1>2. s \in Nat /\ Half \in Nat /\ Lowest \in Int /\ Half - Lowest = s - 1
  BY Int64Is
<1>2a. Lowest <= 0
  <2>1. s \in Nat /\ Lowest = -(s \div 2)
    BY Int64Is DEF Lowest
  <2> HIDE DEF s
  <2>2. s \div 2 >= 0 /\ s \div 2 \in Nat
    BY <2>1
  <2> DEFINE z == s \div 2
  <2>3. QED
    BY <2>1, <2>2
<1>3. u \in 0 .. s - 1
  <2>1. ((W - 1) - h) * W >= 0 /\ hW >= 0 /\ hW \in Int
    BY <1>1
  <2>2. ((W - 1) - h) * W = (s - W) - hW
    BY <1>1
  <2> HIDE DEF hW, s
  <2>3. QED
    BY <1>1, <1>2, <2>1, <2>2
<1>4. ASSUME NEW q \in Int, v = q * W + l, q % W = h PROVE Low(v) = l /\ High(v) = h
  <2> HIDE DEF v
  <2>1. v \div W = q /\ v % W = l
    BY <1>1, <1>4, SplitOnce
  <2>2. QED
    BY <1>4, <2>1 DEF Low, High
<1>5. CASE u \in Int64
  <2>1. v = u
    BY <1>5 DEF Signed
  <2>2. v = h * W + l /\ h % W = h /\ h \in Int
    BY <1>1, <2>1
  <2>3. v \in Int64
    BY <1>5, <2>1
  <2> HIDE DEF v, u
  <2>4. QED
    BY <1>4, <2>2, <2>3 DEF v, u
<1>6. CASE u \notin Int64
  <2>1. v = u - s
    BY <1>6 DEF Signed
  <2>2. ~ (u <= Half)
    <3>1. u \in Int /\ (Lowest <= u /\ u <= Half => u \in Int64)
      BY <1>3, Int64Is
    <3>2. u >= 0
      BY <1>2, <1>3
    <3> HIDE DEF u
    <3>3. QED
      BY <1>2, <1>2a, <1>6, <3>1, <3>2
  <2>3. v \in Int64
    <3>1. Lowest <= u - s /\ u - s <= Half /\ u - s \in Int
      <4> HIDE DEF u, s
      <4>1. QED
        BY <1>2, <1>3, <2>2
    <3>2. QED
      BY <2>1, <3>1, Int64Is
  <2>4. v = (h - W) * W + l
    <3>1. (h - W) * W = hW - s /\ hW \in Int
      BY <1>1
    <3> HIDE DEF hW, s, v
    <3>2. QED
      BY <1>1, <1>2, <2>1, <3>1
  <2>5. (h - W) % W = h
    <3>1. ((-1) * W + h) % W = h
      BY <1>1, SplitOnce
    <3>2. (-1) * W + h = h - W
      BY <1>1
    <3>3. QED
      BY <3>1, <3>2
  <2>6. h - W \in Int
    BY <1>1
  <2> HIDE DEF v
  <2>7. QED
    BY <1>4, <2>3, <2>4, <2>5, <2>6 DEF v
<1>7. QED
  BY <1>5, <1>6

----------------------------------------------------------------------------
(* Each field's reader and writer. *)

LEMMA CellsReadBack ==
  ASSUME WellTyped, NEW len \in Nat, NEW at \in Nat, NEW c \in Seq(Cells), Len(c) = len, Compatible(at, c)
  PROVE  ReadCells(len, at) = Got(at, c, c)
<1>1. Len(buf) \in Nat /\ DOMAIN buf = 1 .. Len(buf) /\ c = [i \in 1 .. len |-> c[i]]
  BY DEF WellTyped
<1>2. CASE at + len <= Len(buf)
  <2>1. \A i \in 1 .. len : at + i \in 1 .. Len(buf) /\ at + i <= Len(buf)
    BY <1>1, <1>2
  <2>2. \A i \in 1 .. len : Cell(at + i) = c[i]
    BY <1>1, <2>1 DEF Cell, Compatible
  <2>3. [i \in 1 .. len |-> Cell(at + i)] = c
    BY <1>1, <2>2
  <2>4. QED
    BY <1>2, <2>3 DEF ReadCells, Require, Got
<1>3. CASE ~ (at + len <= Len(buf))
  BY <1>3 DEF ReadCells, Require, Got
<1>4. QED
  BY <1>2, <1>3

LEMMA CellsSound ==
  ASSUME WellTyped, NEW len \in Nat, NEW at \in Nat, NEW r, r = ReadCells(len, at), ~ Failed(r)
  PROVE  /\ r.at = at + len /\ at + len <= Len(buf) /\ r.value \in [1 .. len -> Cells]
         /\ \A i \in 1 .. len : r.value[i] = buf[at + i]
         /\ Holds(r.value, at, r.at)
<1>1. Len(buf) \in Nat /\ DOMAIN buf = 1 .. Len(buf) /\ \A i \in 1 .. Len(buf) : buf[i] \in Cells
  BY DEF WellTyped
<1>2. at + len <= Len(buf) /\ r = [at |-> at + len, value |-> [i \in 1 .. len |-> Cell(at + i)]]
  <2>1. Failed(Threw)
    BY WireConstants
  <2>2. QED
    BY <2>1 DEF ReadCells, Require
<1>3. \A i \in 1 .. len : at + i \in 1 .. Len(buf)
  BY <1>1, <1>2
<1>4. \A i \in 1 .. len : Cell(at + i) = buf[at + i] /\ buf[at + i] \in Cells
  BY <1>1, <1>3 DEF Cell
<1> DEFINE c == [i \in 1 .. len |-> Cell(at + i)]
<1>5. c \in [1 .. len -> Cells] /\ \A i \in 1 .. len : c[i] = buf[at + i]
  BY <1>4
<1>6. r.at = at + len /\ r.value = c
  BY <1>2
<1> HIDE DEF c
<1>7. c \in Seq(Cells) /\ Len(c) = len
  BY <1>5, FunctionIsSeq
<1>8. at + len \in at .. Len(buf) /\ (at + len) - at = len
  BY <1>1, <1>2
<1>9. Holds(c, at, at + len)
  BY <1>5, <1>7, <1>8 DEF Holds
<1>10. QED
  BY <1>2, <1>5, <1>6, <1>9

LEMMA BytesCodec == ASSUME WellTyped PROVE Codec(ReadBytes, WriteBytes, Seeds)
<1>1. SeedCells \in Nat /\ Len(buf) \in Nat
  BY WireConstants DEF WellTyped
<1>2. ASSUME NEW v \in Seeds PROVE WriteBytes[v] \in Seq(Cells) /\ Reads(ReadBytes, WriteBytes[v], v)
  <2>1. v \in Seq(Cells) /\ Len(v) = SeedCells
    BY <1>1, FunctionIsSeq DEF Seeds
  <2>2. WriteBytes[v] = v
    BY DEF WriteBytes
  <2>3. ASSUME NEW at \in 0 .. Len(buf), Compatible(at, v) PROVE ReadBytes[at] = Got(at, v, v)
    <3>1. at \in Nat /\ ReadBytes[at] = ReadCells(SeedCells, at)
      BY <1>1 DEF ReadBytes
    <3>2. QED
      BY <1>1, <2>1, <2>3, <3>1, CellsReadBack
  <2>4. QED
    BY <2>1, <2>2, <2>3 DEF Reads
<1>3. ASSUME NEW at \in 0 .. Len(buf), ~ Failed(ReadBytes[at])
      PROVE  ReadBytes[at].value \in Seeds /\ Holds(WriteBytes[ReadBytes[at].value], at, ReadBytes[at].at)
  <2>1. at \in Nat /\ ReadBytes[at] = ReadCells(SeedCells, at)
    BY <1>1 DEF ReadBytes
  <2>2. ReadBytes[at].value \in Seeds /\ Holds(ReadBytes[at].value, at, ReadBytes[at].at)
    BY <1>1, <1>3, <2>1, CellsSound DEF Seeds
  <2>3. QED
    BY <2>2 DEF WriteBytes
<1>4. QED
  BY <1>2, <1>3 DEF Codec, Sound

LEMMA I64Codec == ASSUME WellTyped PROVE Codec(ReadI64, WriteI64, Int64)
<1>1. Len(buf) \in Nat /\ 2 \in Nat
  BY DEF WellTyped
<1>2. ASSUME NEW v \in Int64 PROVE WriteI64[v] \in Seq(Cells) /\ Reads(ReadI64, WriteI64[v], v)
  <2> DEFINE l == Low(v)
             h == High(v)
             c == <<l, h>>
  <2>1. l \in Cells /\ h \in Cells /\ Signed(l + Width * h) = v
    BY SignedCells
  <2>2. WriteI64[v] = c
    BY DEF WriteI64, Low, High
  <2> HIDE DEF l, h
  <2>3. c \in Seq(Cells) /\ Len(c) = 2 /\ c[1] = l /\ c[2] = h
    BY <2>1
  <2> HIDE DEF c
  <2>4. ASSUME NEW at \in 0 .. Len(buf), Compatible(at, c) PROVE ReadI64[at] = Got(at, c, v)
    <3> DEFINE r == ReadCells(2, at)
    <3>1. at \in Nat /\ ReadI64[at] = IF Failed(r) THEN Threw
            ELSE [at |-> r.at, value |-> Signed(r.value[1] + Width * r.value[2])]
      BY <1>1 DEF ReadI64
    <3>2. r = Got(at, c, c)
      BY <1>1, <2>3, <2>4, <3>1, CellsReadBack
    <3> HIDE DEF r
    <3>3. CASE at + Len(c) <= Len(buf)
      <4>1. ~ Failed(r) /\ r.at = at + Len(c) /\ r.value = c
        BY <2>3, <3>1, <3>2, <3>3, GotFacts
      <4>2. QED
        BY <2>1, <2>3, <3>1, <3>3, <4>1 DEF Got
    <3>4. CASE ~ (at + Len(c) <= Len(buf))
      <4>1. Failed(r)
        BY <2>3, <3>1, <3>2, <3>4, GotFacts
      <4>2. QED
        BY <3>1, <3>4, <4>1 DEF Got
    <3>5. QED
      BY <3>3, <3>4
  <2>5. QED
    BY <2>2, <2>3, <2>4 DEF Reads
<1>3. ASSUME NEW at \in 0 .. Len(buf), ~ Failed(ReadI64[at])
      PROVE  ReadI64[at].value \in Int64 /\ Holds(WriteI64[ReadI64[at].value], at, ReadI64[at].at)
  <2> DEFINE r == ReadCells(2, at)
             v == Signed(r.value[1] + Width * r.value[2])
  <2>1. at \in Nat /\ ReadI64[at] = IF Failed(r) THEN Threw ELSE [at |-> r.at, value |-> v]
    BY <1>1 DEF ReadI64
  <2>2. ~ Failed(r) /\ ReadI64[at].at = r.at /\ ReadI64[at].value = v
    <3> HIDE DEF r, v
    <3>1. Failed(Threw)
      BY WireConstants
    <3>2. QED
      BY <1>3, <2>1, <3>1
  <2>3. r.value \in [1 .. 2 -> Cells] /\ Holds(r.value, at, r.at)
    BY <1>1, <2>1, <2>2, CellsSound
  <2> HIDE DEF r
  <2>4. r.value[1] \in Cells /\ r.value[2] \in Cells /\ r.value = <<r.value[1], r.value[2]>>
    BY <2>3
  <2>5. v \in Int64 /\ Low(v) = r.value[1] /\ High(v) = r.value[2]
    BY <2>4, CellsSigned
  <2> HIDE DEF v
  <2>6. WriteI64[v] = r.value
    BY <2>4, <2>5 DEF WriteI64, Low, High
  <2>7. QED
    BY <2>2, <2>3, <2>5, <2>6
<1>4. QED
  BY <1>2, <1>3 DEF Codec, Sound

Same(x, n) == [i \in 1 .. n |-> x]

LEMMA Repeated ==
  ASSUME NEW n \in Nat, NEW read, NEW write, NEW D, Codec(read, write, D)
  PROVE  Len(Same(read, n)) = n /\ ItemCodecs(Same(read, n), Same(write, n), Same(D, n), n)
BY DEF Same, ItemCodecs

LEMMA RepeatedItems ==
  ASSUME NEW n \in Nat, NEW D, NEW v
  PROVE  ItemsIn(v, Same(D, n), n) <=> v \in [1 .. n -> D]
BY DEF Same, ItemsIn, Listed

LEMMA RepeatedOut ==
  ASSUME NEW n \in Nat, NEW write, NEW v, Listed(v, n)
  PROVE  Linked(Out(Same(write, n), v, n), n) = WriteEach(write, v)
<1> DEFINE g == Out(Same(write, n), v, n)
           h == [i \in DOMAIN v |-> write[v[i]]]
<1>1. DOMAIN v = 1 .. n
  BY DEF Listed
<1>2. [i \in 1 .. n |-> g[i]] = h
  BY <1>1 DEF Out, Same
<1> HIDE DEF g, h
<1>3. Linked(g, n) = FlattenSeq(h)
  BY <1>2 DEF Linked
<1>4. QED
  BY <1>3 DEF WriteEach, g, h

LEMMA SeqIsFunction ==
  ASSUME NEW D, NEW v \in Seq(D)
  PROVE  Len(v) \in Nat /\ v \in [1 .. Len(v) -> D] /\ Listed(v, Len(v))
BY DEF Listed

LEMMA CountedIs ==
  ASSUME NEW D, NEW v
  PROVE  v \in Counted(D) <=> v \in Seq(D) /\ Len(v) < Width
BY DEF Counted

ReadsCounted(read2, read) == \A at \in Nat : read2[at] = ReadCounted(read, at)
WritesCounted(write2, write, D) == \A v \in Counted(D) : write2[v] = WriteCounted(write, v)

LEMMA OneCell ==
  ASSUME NEW n \in Cells
  PROVE  <<n>> \in Seq(Cells) /\ Len(<<n>>) = 1 /\ <<n>>[1] = n /\ n \in Nat /\ n < Width /\ n % Width = n
<1>1. n \in Nat /\ n < Width /\ n % Width = n
  BY WireConstants
<1>2. QED
  BY <1>1

\* What a counted vector is written as.
LEMMA CountedOut ==
  ASSUME WellTyped, NEW read, NEW write, NEW D, Codec(read, write, D), NEW v \in Counted(D)
  PROVE  LET n == Len(v)
             items == WriteEach(write, v)
         IN /\ n \in Cells /\ n \in Nat /\ v \in [1 .. n -> D] /\ Listed(v, n)
            /\ items = Linked(Out(Same(write, n), v, n), n) /\ items \in Seq(Cells)
            /\ Pieces(Out(Same(write, n), v, n), n, Cells)
            /\ ItemsRead(Same(read, n), Out(Same(write, n), v, n), v, n)
            /\ WriteCounted(write, v) = <<n>> \o items
            /\ WriteCounted(write, v) \in Seq(Cells)
            /\ Len(WriteCounted(write, v)) = 1 + Len(items)
<1> DEFINE n == Len(v)
           items == WriteEach(write, v)
           g == Out(Same(write, n), v, n)
<1>1. n \in Nat /\ v \in [1 .. n -> D] /\ Listed(v, n) /\ n < Width
  BY CountedIs, SeqIsFunction
<1>2. n \in Cells
  BY <1>1, WireConstants
<1> HIDE DEF n
<1>3. ItemsIn(v, Same(D, n), n) /\ ItemCodecs(Same(read, n), Same(write, n), Same(D, n), n) /\ n \in 0 .. n
  BY <1>1, Repeated, RepeatedItems
<1>4. Pieces(g, n, Cells) /\ ItemsRead(Same(read, n), g, v, n)
  BY <1>1, <1>3, OutPieces
<1>5. items = Linked(g, n)
  BY <1>1, RepeatedOut
<1> HIDE DEF g
<1>6. Linked(g, n) \in Seq(Cells)
  BY <1>1, <1>3, <1>4, LinkedSteps
<1>7. WriteCounted(write, v) = <<n>> \o items
  BY <1>2, OneCell DEF WriteCounted, n
<1> HIDE DEF items
<1>8. <<n>> \o items \in Seq(Cells) /\ Len(<<n>> \o items) = 1 + Len(items)
  BY <1>2, <1>5, <1>6, OneCell, ConcatProperties
<1>9. QED
  BY <1>1, <1>2, <1>4, <1>5, <1>6, <1>7, <1>8 DEF n, g, items

\* A counted vector is read back.
LEMMA CountedReads ==
  ASSUME WellTyped, NEW read, NEW write, NEW D, Codec(read, write, D), NEW v \in Counted(D),
         NEW at \in 0 .. Len(buf), Compatible(at, WriteCounted(write, v))
  PROVE  ReadCounted(read, at) = Got(at, WriteCounted(write, v), v)
<1> DEFINE n == Len(v)
           items == WriteEach(write, v)
           cells == WriteCounted(write, v)
           g == Out(Same(write, n), v, n)
           c == ReadCells(1, at)
<1>1. /\ n \in Cells /\ n \in Nat /\ v \in [1 .. n -> D] /\ Listed(v, n)
      /\ items = Linked(g, n) /\ items \in Seq(Cells) /\ Pieces(g, n, Cells) /\ ItemsRead(Same(read, n), g, v, n)
      /\ cells = <<n>> \o items /\ cells \in Seq(Cells) /\ Len(cells) = 1 + Len(items)
  BY CountedOut
<1>2. Len(buf) \in Nat /\ at \in Nat /\ 1 \in Nat
  BY DEF WellTyped
<1>3. /\ <<n>> \in Seq(Cells) /\ Len(<<n>>) = 1 /\ <<n>>[1] = n
      /\ Len(items) \in Nat
  BY <1>1, OneCell
<1> HIDE DEF n, items, cells, g
<1>4. Compatible(at, <<n>>) /\ Compatible(at + 1, items)
  <2>1. Compatible(at, <<n>> \o items)
    BY <1>1 DEF cells
  <2>2. QED
    BY <1>1, <1>2, <1>3, <2>1, CompatibleParts
<1>5. c = Got(at, <<n>>, <<n>>)
  BY <1>2, <1>3, <1>4, CellsReadBack
<1>6. ReadCounted(read, at) = IF Failed(c) THEN Threw ELSE ReadTimes(read, c.value[1], c.at)
  BY DEF ReadCounted
<1> HIDE DEF c
<1>7. CASE ~ (at + 1 <= Len(buf))
  <2>1. Failed(c)
    BY <1>2, <1>3, <1>5, <1>7, GotFacts
  <2>2. ~ (at + Len(cells) <= Len(buf))
    BY <1>1, <1>2, <1>3, <1>7
  <2>3. QED
    BY <1>6, <2>1, <2>2 DEF Got, cells
<1>8. CASE at + 1 <= Len(buf)
  <2>1. ~ Failed(c) /\ c.at = at + 1 /\ c.value = <<n>>
    BY <1>2, <1>3, <1>5, <1>8, GotFacts
  <2>2. ReadCounted(read, at) = ReadEach(Same(read, n), at + 1)
    BY <1>3, <1>6, <2>1 DEF ReadTimes, Same
  <2>3. at + 1 \in 0 .. Len(buf) /\ Compatible(at + 1, Linked(g, n))
    BY <1>1, <1>2, <1>4, <1>8
  <2>4. Len(Same(read, n)) = n
    BY <1>1, Repeated
  <2>5. ReadEach(Same(read, n), at + 1) = Got(at + 1, Linked(g, n), [j \in 1 .. n |-> v[j]])
    BY <1>1, <2>3, <2>4, EachReads
  <2>6. v = [j \in 1 .. n |-> v[j]]
    BY <1>1 DEF Listed
  <2>7. (at + 1) + Len(items) = at + Len(cells)
    BY <1>1, <1>2, <1>3
  <2>8. Got(at + 1, items, v) = Got(at, cells, v)
    BY <2>7 DEF Got
  <2>9. QED
    BY <1>1, <2>2, <2>5, <2>6, <2>8 DEF cells
<1>9. QED
  BY <1>7, <1>8

\* What is read is a counted vector, written so.
LEMMA CountedSound ==
  ASSUME WellTyped, NEW read, NEW write, NEW D, Codec(read, write, D),
         NEW at \in 0 .. Len(buf), NEW r, r = ReadCounted(read, at), ~ Failed(r)
  PROVE  r.value \in Counted(D) /\ Holds(WriteCounted(write, r.value), at, r.at)
<1> DEFINE c == ReadCells(1, at)
           n == c.value[1]
           v == r.value
<1>1. Len(buf) \in Nat /\ at \in Nat /\ 1 \in Nat /\ Failed(Threw)
  BY WireConstants DEF WellTyped
<1>2. r = IF Failed(c) THEN Threw ELSE ReadTimes(read, n, c.at)
  BY DEF ReadCounted
<1>3. ~ Failed(c) /\ r = ReadTimes(read, n, c.at)
  <2> HIDE DEF c
  <2>1. QED
    BY <1>1, <1>2
<1>4. /\ c.at = at + 1 /\ at + 1 <= Len(buf) /\ c.value \in [1 .. 1 -> Cells] /\ Holds(c.value, at, c.at)
  BY <1>1, <1>3, CellsSound
<1> HIDE DEF c
<1>5. n \in Cells /\ c.value = <<n>>
  BY <1>4
<1> HIDE DEF n
<1>6. n \in Nat /\ n < Width /\ n % Width = n
  BY <1>5, OneCell
<1>7. at + 1 \in 0 .. Len(buf) /\ r = ReadEach(Same(read, n), at + 1)
  BY <1>1, <1>3, <1>4 DEF ReadTimes, Same
<1>8. Len(Same(read, n)) = n /\ ItemCodecs(Same(read, n), Same(write, n), Same(D, n), n)
  BY <1>6, Repeated
<1>9. Come(r, at + 1, Same(write, n), Same(D, n), n)
  BY <1>6, <1>7, <1>8, EachSound
<1>10. ItemsIn(v, Same(D, n), n) /\ Holds(Linked(Out(Same(write, n), v, n), n), at + 1, r.at)
  BY <1>9 DEF Come
<1> HIDE DEF v
<1>11. v \in [1 .. n -> D] /\ Listed(v, n)
  BY <1>6, <1>10, RepeatedItems DEF ItemsIn
<1>12. v \in Seq(D) /\ Len(v) = n
  BY <1>6, <1>11, FunctionIsSeq
<1>13. v \in Counted(D)
  BY <1>6, <1>12, CountedIs
<1>14. WriteCounted(write, v) = <<n>> \o WriteEach(write, v)
  BY <1>6, <1>12 DEF WriteCounted
<1>15. Holds(WriteEach(write, v), at + 1, r.at)
  BY <1>6, <1>10, <1>11, RepeatedOut
<1>16. Holds(<<n>>, at, at + 1)
  BY <1>4, <1>5
<1>17. Holds(<<n>> \o WriteEach(write, v), at, r.at)
  BY <1>15, <1>16, HoldsParts
<1>18. QED
  BY <1>13, <1>14, <1>17 DEF v

LEMMA CountedCodec ==
  ASSUME WellTyped, NEW read, NEW write, NEW D, Codec(read, write, D),
         NEW read2, ReadsCounted(read2, read), NEW write2, WritesCounted(write2, write, D)
  PROVE  Codec(read2, write2, Counted(D))
<1>1. 0 .. Len(buf) \subseteq Nat
  BY DEF WellTyped
<1>2. ASSUME NEW v \in Counted(D) PROVE write2[v] \in Seq(Cells) /\ Reads(read2, write2[v], v)
  <2>1. write2[v] = WriteCounted(write, v)
    BY DEF WritesCounted
  <2>2. WriteCounted(write, v) \in Seq(Cells)
    BY CountedOut
  <2>3. ASSUME NEW at \in 0 .. Len(buf), Compatible(at, WriteCounted(write, v))
        PROVE  read2[at] = Got(at, WriteCounted(write, v), v)
    <3>1. read2[at] = ReadCounted(read, at)
      BY <1>1 DEF ReadsCounted
    <3>2. QED
      BY <2>3, <3>1, CountedReads
  <2>4. QED
    BY <2>1, <2>2, <2>3 DEF Reads
<1>3. ASSUME NEW at \in 0 .. Len(buf), ~ Failed(read2[at])
      PROVE  read2[at].value \in Counted(D) /\ Holds(write2[read2[at].value], at, read2[at].at)
  <2>1. read2[at] = ReadCounted(read, at)
    BY <1>1 DEF ReadsCounted
  <2>2. read2[at].value \in Counted(D) /\ Holds(WriteCounted(write, read2[at].value), at, read2[at].at)
    BY <1>3, <2>1, CountedSound
  <2>3. QED
    BY <2>2 DEF WritesCounted
<1>4. QED
  BY <1>2, <1>3 DEF Codec, Sound

LEMMA SeqOfMore == ASSUME NEW S, NEW T, S \subseteq T PROVE Seq(S) \subseteq Seq(T)
<1> SUFFICES ASSUME NEW v \in Seq(S) PROVE v \in Seq(T)
  OBVIOUS
<1>1. Len(v) \in Nat /\ v \in [1 .. Len(v) -> S]
  BY SeqIsFunction
<1>2. v \in [1 .. Len(v) -> T]
  BY <1>1
<1>3. QED
  BY <1>1, <1>2, FunctionIsSeq

LEMMA CountedIsIn == ASSUME NEW D, NEW T, D \subseteq T PROVE Counted(D) \subseteq Seq(T)
<1>1. Seq(D) \subseteq Seq(T)
  BY SeqOfMore
<1>2. QED
  BY <1>1, CountedIs

LEMMA VecCodec == ASSUME WellTyped PROVE Codec(ReadVec, WriteVec, Counted(Int64))
<1>1. ReadsCounted(ReadVec, ReadI64)
  BY DEF ReadsCounted, ReadVec
<1>2. Counted(Int64) \subseteq Vec
  BY CountedIsIn DEF Vec
<1>3. WritesCounted(WriteVec, WriteI64, Int64)
  BY <1>2 DEF WritesCounted, WriteVec
<1>4. QED
  BY <1>1, <1>3, I64Codec, CountedCodec

LEMMA VecVecCodec == ASSUME WellTyped PROVE Codec(ReadVecVec, WriteVecVec, Counted(Counted(Int64)))
<1>1. ReadsCounted(ReadVecVec, ReadVec)
  BY DEF ReadsCounted, ReadVecVec
<1>2. Counted(Int64) \subseteq Vec
  BY CountedIsIn DEF Vec
<1>3. Counted(Counted(Int64)) \subseteq VecVec
  BY <1>2, CountedIsIn DEF VecVec
<1>4. WritesCounted(WriteVecVec, WriteVec, Counted(Int64))
  BY <1>3 DEF WritesCounted, WriteVecVec
<1>5. QED
  BY <1>1, <1>4, VecCodec, CountedCodec

LEMMA VecVecVecCodec ==
  ASSUME WellTyped PROVE Codec(ReadVecVecVec, WriteVecVecVec, Counted(Counted(Counted(Int64))))
<1>1. ReadsCounted(ReadVecVecVec, ReadVecVec)
  BY DEF ReadsCounted, ReadVecVecVec
<1>2. Counted(Int64) \subseteq Vec
  BY CountedIsIn DEF Vec
<1>3. Counted(Counted(Int64)) \subseteq VecVec
  BY <1>2, CountedIsIn DEF VecVec
<1>4. Counted(Counted(Counted(Int64))) \subseteq VecVecVec
  BY <1>3, CountedIsIn DEF VecVecVec
<1>5. WritesCounted(WriteVecVecVec, WriteVecVec, Counted(Counted(Int64)))
  BY <1>4 DEF WritesCounted, WriteVecVecVec
<1>6. QED
  BY <1>1, <1>5, VecVecCodec, CountedCodec

Polynomials(n) == [1 .. n -> Int64]
WritePolynomial(n) == [p \in Polynomials(n) |-> WriteEach(WriteI64, p)]

LEMMA PolynomialCodec ==
  ASSUME WellTyped PROVE Codec(ReadPolynomial, WritePolynomial(ring), Polynomials(ring))
<1> DEFINE reads == Same(ReadI64, ring)
           writes == Same(WriteI64, ring)
           Ds == Same(Int64, ring)
           write == WritePolynomial(ring)
           D == Polynomials(ring)
<1>1. ring \in Nat
  BY WireConstants DEF WellTyped
<1>2. Len(reads) = ring /\ ItemCodecs(reads, writes, Ds, ring)
  BY <1>1, I64Codec, Repeated
<1>3. Shaped(D, Ds, ring)
  BY <1>1, RepeatedItems DEF Shaped, Polynomials
<1>4. ReadsThem(ReadPolynomial, reads)
  BY DEF ReadsThem, ReadPolynomial, ReadTimes, Same
<1>5. WritesThem(write, writes, D, ring)
  <2> SUFFICES ASSUME NEW v \in D PROVE write[v] = Linked(Out(writes, v, ring), ring)
    BY DEF WritesThem
  <2>1. write[v] = WriteEach(WriteI64, v)
    BY DEF WritePolynomial
  <2>2. Listed(v, ring)
    BY DEF Polynomials, Listed
  <2>3. QED
    BY <1>1, <2>1, <2>2, RepeatedOut
<1> HIDE DEF reads, writes, Ds, write, D
<1>6. Codec(ReadPolynomial, write, D)
  BY <1>1, <1>2, <1>3, <1>4, <1>5, EachCodec
<1>7. QED
  BY <1>6 DEF write, D

CiphertextsOf(n) == [a : Polynomials(n), b : Polynomials(n)]

LEMMA PairOut ==
  ASSUME WellTyped, NEW v \in [1 .. 2 -> Polynomials(ring)]
  PROVE  Linked(Out(Same(WritePolynomial(ring), 2), v, 2), 2) = WriteEach(WriteI64, v[1]) \o WriteEach(WriteI64, v[2])
<1> DEFINE write == WritePolynomial(ring)
           writes == Same(write, 2)
           Ds == Same(Polynomials(ring), 2)
           reads == Same(ReadPolynomial, 2)
           g == Out(writes, v, 2)
<1>1. ItemCodecs(reads, writes, Ds, 2) /\ ItemsIn(v, Ds, 2) /\ 2 \in 0 .. 2 /\ 2 \in Nat
  <2>1. 2 \in 0 .. 2 /\ 2 \in Nat
    OBVIOUS
  <2>2. ItemCodecs(reads, writes, Ds, 2)
    BY <2>1, PolynomialCodec, Repeated
  <2>3. ItemsIn(v, Ds, 2)
    BY <2>1, RepeatedItems
  <2>4. QED
    BY <2>1, <2>2, <2>3
<1>2. g[1] = WriteEach(WriteI64, v[1]) /\ g[2] = WriteEach(WriteI64, v[2])
  BY DEF Out, Same, WritePolynomial
<1> HIDE DEF writes, Ds, reads
<1>3. Pieces(g, 2, Cells)
  BY <1>1, OutPieces
<1> HIDE DEF g
<1>4. /\ Linked(g, 0) = <<>>
      /\ \A k \in 0 .. 1 : Linked(g, k + 1) = Linked(g, k) \o g[k + 1]
  BY <1>1, <1>3, LinkedSteps
<1>5. Linked(g, 1) = <<>> \o g[1] /\ Linked(g, 2) = Linked(g, 1) \o g[2]
  <2>1. 0 \in 0 .. 1 /\ 1 \in 0 .. 1 /\ 0 + 1 = 1 /\ 1 + 1 = 2
    OBVIOUS
  <2>2. QED
    BY <1>4, <2>1
<1>6. g[1] \in Seq(Cells)
  BY <1>3 DEF Pieces
<1>7. <<>> \o g[1] = g[1]
  BY <1>6, ConcatEmptySeq
<1>8. QED
  BY <1>2, <1>5, <1>7 DEF g, writes

LEMMA CiphertextCodec ==
  ASSUME WellTyped PROVE Codec(ReadCiphertext, WriteCiphertext, CiphertextsOf(ring))
<1> DEFINE P == Polynomials(ring)
           write == WritePolynomial(ring)
           pair == [v \in [1 .. 2 -> P] |-> Linked(Out(Same(write, 2), v, 2), 2)]
           read == [at \in Nat |-> ReadTimes(ReadPolynomial, 2, at)]
<1>1. ring \in Nat /\ 2 \in Nat /\ 0 .. Len(buf) \subseteq Nat /\ Failed(Threw)
  BY WireConstants DEF WellTyped
<1>2. Codec(read, pair, [1 .. 2 -> P])
  <2> DEFINE reads == Same(ReadPolynomial, 2)
             writes == Same(write, 2)
             Ds == Same(P, 2)
             D == [1 .. 2 -> P]
  <2>1. Len(reads) = 2 /\ ItemCodecs(reads, writes, Ds, 2)
    BY <1>1, PolynomialCodec, Repeated
  <2>2. Shaped(D, Ds, 2)
    BY <1>1, RepeatedItems DEF Shaped
  <2>3. ReadsThem(read, reads)
    BY DEF ReadsThem, ReadTimes, Same
  <2>4. WritesThem(pair, writes, D, 2)
    BY DEF WritesThem
  <2> HIDE DEF reads, writes, Ds, D, pair, read
  <2>5. Codec(read, pair, D)
    BY <1>1, <2>1, <2>2, <2>3, <2>4, EachCodec
  <2>6. QED
    BY <2>5 DEF D
<1>3. \A at \in Nat : ReadCiphertext[at] = IF Failed(read[at]) THEN Threw
        ELSE [at |-> read[at].at, value |-> [a |-> read[at].value[1], b |-> read[at].value[2]]]
  BY DEF ReadCiphertext
<1>4. \A v \in [1 .. 2 -> P] : pair[v] = WriteEach(WriteI64, v[1]) \o WriteEach(WriteI64, v[2])
  BY PairOut
<1>5. \A ct \in CiphertextsOf(ring) :
        WriteCiphertext[ct] = WriteEach(WriteI64, ct.a) \o WriteEach(WriteI64, ct.b)
  <2>1. P \subseteq Vec
    <3>1. ASSUME NEW p \in P PROVE p \in Vec
      <4>1. p \in Seq(Int64)
        BY <1>1, FunctionIsSeq DEF Polynomials
      <4>2. QED
        BY <4>1 DEF Vec
    <3>2. QED
      BY <3>1
  <2>2. CiphertextsOf(ring) \subseteq Ciphertexts
    <3> HIDE DEF P
    <3>1. CiphertextsOf(ring) = [a : P, b : P]
      BY DEF CiphertextsOf, P
    <3>2. QED
      BY <2>1, <3>1 DEF Ciphertexts
  <2>3. QED
    BY <2>2 DEF WriteCiphertext
<1> HIDE DEF read, pair, write, P
<1>6. ASSUME NEW ct \in CiphertextsOf(ring)
      PROVE  WriteCiphertext[ct] \in Seq(Cells) /\ Reads(ReadCiphertext, WriteCiphertext[ct], ct)
  <2> DEFINE v == <<ct.a, ct.b>>
  <2>1. v \in [1 .. 2 -> P] /\ v[1] = ct.a /\ v[2] = ct.b /\ ct = [a |-> ct.a, b |-> ct.b]
    BY DEF CiphertextsOf, P
  <2> HIDE DEF v
  <2>2. pair[v] = WriteCiphertext[ct]
    BY <1>4, <1>5, <2>1
  <2>3. pair[v] \in Seq(Cells) /\ Reads(read, pair[v], v)
    BY <1>2, <2>1 DEF Codec
  <2> DEFINE c == pair[v]
  <2> HIDE DEF c
  <2>4. c \in Seq(Cells) /\ Reads(read, c, v)
    BY <2>3 DEF c
  <2>5. ASSUME NEW at \in 0 .. Len(buf), Compatible(at, c) PROVE ReadCiphertext[at] = Got(at, c, ct)
    <3>1. at \in Nat /\ read[at] = Got(at, c, v)
      BY <1>1, <2>4, <2>5 DEF Reads
    <3> DEFINE r == read[at]
    <3>2. ReadCiphertext[at] = IF Failed(r) THEN Threw
            ELSE [at |-> r.at, value |-> [a |-> r.value[1], b |-> r.value[2]]]
      BY <1>3, <3>1
    <3> HIDE DEF r
    <3>3. r = Got(at, c, v)
      BY <3>1 DEF r
    <3>4. CASE at + Len(c) <= Len(buf)
      <4>1. ~ Failed(r) /\ r.at = at + Len(c) /\ r.value = v
        BY <2>4, <3>1, <3>3, <3>4, GotFacts
      <4>2. QED
        BY <2>1, <3>2, <3>4, <4>1 DEF Got
    <3>5. CASE ~ (at + Len(c) <= Len(buf))
      <4>1. Failed(r)
        BY <2>4, <3>1, <3>3, <3>5, GotFacts
      <4>2. QED
        BY <3>2, <3>5, <4>1 DEF Got
    <3>6. QED
      BY <3>4, <3>5
  <2>6. QED
    BY <2>2, <2>4, <2>5 DEF Reads, c
<1>7. ASSUME NEW at \in 0 .. Len(buf), ~ Failed(ReadCiphertext[at])
      PROVE  /\ ReadCiphertext[at].value \in CiphertextsOf(ring)
             /\ Holds(WriteCiphertext[ReadCiphertext[at].value], at, ReadCiphertext[at].at)
  <2> DEFINE r == read[at]
             v == r.value
             ct == [a |-> v[1], b |-> v[2]]
  <2>1. ReadCiphertext[at] = IF Failed(r) THEN Threw ELSE [at |-> r.at, value |-> ct]
    BY <1>1, <1>3
  <2>2. ~ Failed(r) /\ ReadCiphertext[at].at = r.at /\ ReadCiphertext[at].value = ct
    <3> HIDE DEF r, ct
    <3>1. QED
      BY <1>1, <1>7, <2>1
  <2>3. v \in [1 .. 2 -> P] /\ Holds(pair[v], at, r.at)
    BY <1>2, <2>2 DEF Codec, Sound
  <2>4. ct \in CiphertextsOf(ring) /\ ct.a = v[1] /\ ct.b = v[2]
    <3> HIDE DEF v
    <3>1. v[1] \in P /\ v[2] \in P
      BY <2>3
    <3>2. QED
      BY <3>1 DEF CiphertextsOf, P
  <2>5. WriteCiphertext[ct] = pair[v]
    <3> HIDE DEF v, ct
    <3>1. QED
      BY <1>4, <1>5, <2>3, <2>4
  <2>6. QED
    BY <2>2, <2>3, <2>4, <2>5
<1>8. QED
  BY <1>6, <1>7 DEF Codec, Sound

----------------------------------------------------------------------------
FieldNames == {"bytes", "seeds", "vec_vec", "vec_vec_vec", "ciphertexts"}
WriteField(field, n) == [value \in FieldValues(field, n) |-> Write(field, value)]

LEMMA FieldCodec ==
  ASSUME WellTyped, NEW field \in FieldNames
  PROVE  Codec(ReadField(field), WriteField(field, ring), FieldValues(field, ring))
<1>1. CASE field = "bytes"
  <2>1. FieldValues(field, ring) = Seeds /\ ReadField(field) = ReadBytes
        /\ \A v : Write(field, v) = WriteBytes[v]
    BY <1>1 DEF FieldValues, ReadField, Write
  <2>2. \A v \in Seeds : WriteField(field, ring)[v] = WriteBytes[v]
    BY <2>1 DEF WriteField
  <2>3. QED
    BY <2>1, <2>2, BytesCodec DEF Codec, Sound
<1>2. CASE field = "seeds"
  <2> DEFINE read == [at \in Nat |-> ReadCounted(ReadBytes, at)]
             write == WriteField(field, ring)
  <2>1. FieldValues(field, ring) = Counted(Seeds) /\ ReadField(field) = read
        /\ \A v : Write(field, v) = WriteCounted(WriteBytes, v)
    BY <1>2 DEF FieldValues, ReadField, Write
  <2>2. ReadsCounted(read, ReadBytes)
    BY DEF ReadsCounted
  <2>3. WritesCounted(write, WriteBytes, Seeds)
    BY <2>1 DEF WritesCounted, WriteField
  <2> HIDE DEF read, write
  <2>4. Codec(read, write, Counted(Seeds))
    BY <2>2, <2>3, BytesCodec, CountedCodec
  <2>5. QED
    BY <2>1, <2>4 DEF write
<1>3. CASE field = "vec_vec"
  <2> DEFINE D == Counted(Counted(Int64))
  <2>1. FieldValues(field, ring) = D /\ ReadField(field) = ReadVecVec
        /\ \A v : Write(field, v) = WriteVecVec[v]
    BY <1>3 DEF FieldValues, ReadField, Write
  <2> HIDE DEF D
  <2>2. \A v \in D : WriteField(field, ring)[v] = WriteVecVec[v]
    BY <2>1 DEF WriteField
  <2>3. Codec(ReadVecVec, WriteVecVec, D)
    BY VecVecCodec DEF D
  <2>4. QED
    BY <2>1, <2>2, <2>3 DEF Codec, Sound
<1>4. CASE field = "vec_vec_vec"
  <2> DEFINE D == Counted(Counted(Counted(Int64)))
  <2>1. FieldValues(field, ring) = D /\ ReadField(field) = ReadVecVecVec
        /\ \A v : Write(field, v) = WriteVecVecVec[v]
    BY <1>4 DEF FieldValues, ReadField, Write
  <2> HIDE DEF D
  <2>2. \A v \in D : WriteField(field, ring)[v] = WriteVecVecVec[v]
    BY <2>1 DEF WriteField
  <2>3. Codec(ReadVecVecVec, WriteVecVecVec, D)
    BY VecVecVecCodec DEF D
  <2>4. QED
    BY <2>1, <2>2, <2>3 DEF Codec, Sound
<1>5. CASE field = "ciphertexts"
  <2> DEFINE read == [at \in Nat |-> ReadCounted(ReadCiphertext, at)]
             write == WriteField(field, ring)
             D == CiphertextsOf(ring)
  <2>1. FieldValues(field, ring) = Counted(D) /\ ReadField(field) = read
        /\ \A v : Write(field, v) = WriteCounted(WriteCiphertext, v)
    BY <1>5 DEF FieldValues, ReadField, Write, CiphertextsOf, Polynomials
  <2>2. ReadsCounted(read, ReadCiphertext)
    BY DEF ReadsCounted
  <2> HIDE DEF D, read
  <2>3. WritesCounted(write, WriteCiphertext, D)
    BY <2>1 DEF WritesCounted, WriteField
  <2> HIDE DEF write
  <2>4. Codec(read, write, Counted(D))
    BY <2>2, <2>3, CiphertextCodec, CountedCodec DEF D
  <2>5. QED
    BY <2>1, <2>4 DEF write
<1>6. QED
  BY <1>1, <1>2, <1>3, <1>4, <1>5 DEF FieldNames

----------------------------------------------------------------------------
(* Messages. *)

PlainFields == FieldNames \ {"ciphertexts"}

LEMMA QueryAndKeyFields ==
  /\ QueryFields \in Seq(PlainFields) /\ Len(QueryFields) = 3 /\ QueryFields[3] = "vec_vec"
  /\ KeyFields \in Seq(PlainFields) /\ Len(KeyFields) = 3 /\ KeyFields[3] = "vec_vec"
BY DEF QueryFields, KeyFields, PlainFields, FieldNames

LEMMA LongerFields ==
  ASSUME NEW s \in Seq(PlainFields), Len(s) = 3, s[3] = "vec_vec"
  PROVE  LET t == <<"bytes">> \o s IN t \in Seq(PlainFields) /\ Len(t) = 4 /\ t[4] = "vec_vec"
<1> DEFINE b == <<"bytes">>
           t == b \o s
<1>1. b \in Seq(PlainFields) /\ Len(b) = 1
  BY DEF PlainFields, FieldNames
<1> HIDE DEF b
<1>2. t \in Seq(PlainFields) /\ Len(t) = 1 + 3
      /\ \A i \in 1 .. 1 + 3 : t[i] = IF i <= 1 THEN b[i] ELSE s[i - 1]
  <2>1. t \in Seq(PlainFields) /\ Len(t) = Len(b) + Len(s)
        /\ \A i \in 1 .. Len(b) + Len(s) : t[i] = IF i <= Len(b) THEN b[i] ELSE s[i - Len(b)]
    BY <1>1, ConcatProperties
  <2> HIDE DEF t
  <2>2. QED
    BY <1>1, <2>1
<1> HIDE DEF t
<1>3. Len(t) = 4 /\ t[4] = s[3]
  <2>1. 1 + 3 = 4 /\ 4 \in 1 .. 1 + 3 /\ ~ (4 <= 1) /\ 4 - 1 = 3
    OBVIOUS
  <2>2. QED
    BY <1>2, <2>1
<1>4. QED
  BY <1>2, <1>3 DEF t, b

Plain(k) == k # "response"

LEMMA LayoutIs ==
  ASSUME NEW k \in Kinds
  PROVE  /\ Layout[k] \in Seq(FieldNames) /\ Len(Layout[k]) \in Nat \ {0}
         /\ DOMAIN Layout[k] = 1 .. Len(Layout[k])
         /\ Plain(k) => /\ Layout[k][Len(Layout[k])] = "vec_vec"
                        /\ \A i \in 1 .. Len(Layout[k]) : Layout[k][i] # "ciphertexts"
<1>1. k \in {"query", "keys", "response", "query_message", "registration"}
  BY DEF Kinds, Layout
<1>2. Layout["response"] = <<"ciphertexts">> /\ Layout["query"] = QueryFields /\ Layout["keys"] = KeyFields
      /\ Layout["query_message"] = <<"bytes">> \o QueryFields
      /\ Layout["registration"] = <<"bytes">> \o KeyFields
  BY DEF Layout
<1>3. ASSUME NEW s \in Seq(PlainFields), Len(s) \in Nat \ {0}, s[Len(s)] = "vec_vec"
      PROVE  /\ s \in Seq(FieldNames) /\ DOMAIN s = 1 .. Len(s)
             /\ \A i \in 1 .. Len(s) : s[i] # "ciphertexts"
  <2>1. Seq(PlainFields) \subseteq Seq(FieldNames)
    <3>1. PlainFields \subseteq FieldNames
      BY DEF PlainFields
    <3>2. QED
      BY <3>1, SeqOfMore
  <2>2. \A i \in 1 .. Len(s) : s[i] \in PlainFields
    OBVIOUS
  <2>3. QED
    BY <2>1, <2>2 DEF PlainFields
<1>4. CASE k = "response"
  <2> DEFINE s == <<"ciphertexts">>
  <2>1. s \in Seq(FieldNames) /\ Len(s) = 1 /\ DOMAIN s = 1 .. 1
    BY DEF FieldNames
  <2> HIDE DEF s
  <2>2. Layout[k] = s /\ ~ Plain(k)
    BY <1>2, <1>4 DEF Plain, s
  <2>3. 1 \in Nat \ {0}
    OBVIOUS
  <2>4. Layout[k] \in Seq(FieldNames) /\ Len(Layout[k]) = 1 /\ DOMAIN Layout[k] = 1 .. 1
    BY <2>1, <2>2, Zenon
  <2>5. QED
    BY <2>2, <2>3, <2>4, Zenon
<1>5. CASE k # "response"
  <2> DEFINE s == Layout[k]
  <2>1. s \in Seq(PlainFields) /\ Len(s) \in Nat \ {0} /\ s[Len(s)] = "vec_vec"
    <3> DEFINE Good(t) == t \in Seq(PlainFields) /\ Len(t) \in Nat \ {0} /\ t[Len(t)] = "vec_vec"
    <3>1. Good(QueryFields) /\ Good(KeyFields)
      <4>1. 3 \in Nat \ {0}
        OBVIOUS
      <4>2. QED
        BY <4>1, QueryAndKeyFields
    <3>2. Good(<<"bytes">> \o QueryFields) /\ Good(<<"bytes">> \o KeyFields)
      <4> DEFINE q == <<"bytes">> \o QueryFields
                 w == <<"bytes">> \o KeyFields
      <4>1. 4 \in Nat \ {0}
        OBVIOUS
      <4>2. q \in Seq(PlainFields) /\ Len(q) = 4 /\ q[4] = "vec_vec"
        BY QueryAndKeyFields, LongerFields
      <4>3. w \in Seq(PlainFields) /\ Len(w) = 4 /\ w[4] = "vec_vec"
        BY QueryAndKeyFields, LongerFields
      <4> HIDE DEF q, w
      <4>4. Good(q) /\ Good(w)
        BY <4>1, <4>2, <4>3
      <4>5. QED
        BY <4>4 DEF q, w
    <3> HIDE DEF Good
    <3>3. Good(s)
      BY <1>1, <1>2, <1>5, <3>1, <3>2
    <3>4. QED
      BY <3>3 DEF Good
  <2> HIDE DEF s
  <2>2. QED
    BY <1>3, <2>1 DEF s
<1>6. QED
  BY <1>4, <1>5

\* The values that the fields of a message of a kind have.
FieldSets(k, n) == [i \in 1 .. Len(Layout[k]) |-> FieldValues(Layout[k][i], n)]
FieldReaders(k) == [i \in 1 .. Len(Layout[k]) |-> ReadField(Layout[k][i])]
FieldWriters(k, n) == [i \in 1 .. Len(Layout[k]) |-> WriteField(Layout[k][i], n)]
IsMessage(m, k, n) == ItemsIn(m, FieldSets(k, n), Len(Layout[k]))

LEMMA MessagesAre ==
  ASSUME NEW k \in Kinds, NEW n \in RingSizes, NEW m \in WireMessages(k, n)
  PROVE  IsMessage(m, k, n)
<1>1. m = [i \in DOMAIN Layout[k] |-> m[i]] /\ \A i \in DOMAIN m : m[i] \in FieldValues(Layout[k][i], n)
  BY WireAssumption
<1>2. DOMAIN Layout[k] = 1 .. Len(Layout[k])
  BY LayoutIs
<1>3. DOMAIN m = DOMAIN Layout[k]
  BY <1>1
<1>4. QED
  BY <1>1, <1>2, <1>3 DEF IsMessage, ItemsIn, Listed, FieldSets

\* Only a response depends on the ring size.
LEMMA MessageOfAnyRing ==
  ASSUME NEW k \in Kinds, NEW n, NEW o, NEW m, IsMessage(m, k, n), ~ Plain(k) => n = o
  PROVE  IsMessage(m, k, o)
<1>1. CASE Plain(k)
  <2>1. ASSUME NEW i \in 1 .. Len(Layout[k])
        PROVE  FieldValues(Layout[k][i], n) = FieldValues(Layout[k][i], o)
    <3>1. Layout[k][i] \in FieldNames /\ Layout[k][i] # "ciphertexts"
      BY <1>1, LayoutIs
    <3>2. QED
      BY <3>1 DEF FieldNames, FieldValues
  <2>2. QED
    BY <2>1 DEF IsMessage, ItemsIn, FieldSets
<1>2. CASE ~ Plain(k)
  BY <1>2
<1>3. QED
  BY <1>1, <1>2

LEMMA FieldCodecs ==
  ASSUME WellTyped, NEW k \in Kinds
  PROVE  ItemCodecs(FieldReaders(k), FieldWriters(k, ring), FieldSets(k, ring), Len(Layout[k]))
<1> SUFFICES ASSUME NEW i \in 1 .. Len(Layout[k])
             PROVE  Codec(FieldReaders(k)[i], FieldWriters(k, ring)[i], FieldSets(k, ring)[i])
  BY DEF ItemCodecs
<1>1. Layout[k][i] \in FieldNames
  BY LayoutIs
<1>2. QED
  BY <1>1, FieldCodec DEF FieldReaders, FieldWriters, FieldSets

LEMMA SerializeIs ==
  ASSUME NEW k \in Kinds, NEW n, NEW m, IsMessage(m, k, n)
  PROVE  Serialize(k, m) = Linked(Out(FieldWriters(k, n), m, Len(Layout[k])), Len(Layout[k]))
<1> DEFINE len == Len(Layout[k])
           g == Out(FieldWriters(k, n), m, len)
           h == [i \in DOMAIN m |-> Write(Layout[k][i], m[i])]
<1>1. DOMAIN m = 1 .. len
  BY DEF IsMessage, ItemsIn, Listed
<1>2. \A i \in 1 .. len : g[i] = Write(Layout[k][i], m[i])
  <2> SUFFICES ASSUME NEW i \in 1 .. len PROVE g[i] = Write(Layout[k][i], m[i])
    OBVIOUS
  <2>1. m[i] \in FieldValues(Layout[k][i], n)
    BY DEF IsMessage, ItemsIn, FieldSets
  <2>2. g[i] = WriteField(Layout[k][i], n)[m[i]]
    BY DEF Out, FieldWriters
  <2>3. QED
    BY <2>1, <2>2 DEF WriteField
<1>3. [i \in 1 .. len |-> g[i]] = h
  BY <1>1, <1>2
<1> HIDE DEF g, h, len
<1>4. FlattenSeq([i \in 1 .. len |-> g[i]]) = FlattenSeq(h)
  BY <1>3
<1>5. QED
  BY <1>4 DEF Linked, Serialize, g, h, len

LEMMA DeserializeIs ==
  ASSUME NEW k \in Kinds
  PROVE  Deserialize(k) = ReadEach(FieldReaders(k), 0) /\ Len(FieldReaders(k)) = Len(Layout[k])
<1>1. DOMAIN Layout[k] = 1 .. Len(Layout[k]) /\ Len(Layout[k]) \in Nat
  BY LayoutIs
<1>2. QED
  BY <1>1 DEF Deserialize, FieldReaders

LEMMA MessageOut ==
  ASSUME WellTyped, NEW k \in Kinds, NEW m, IsMessage(m, k, ring)
  PROVE  LET len == Len(Layout[k])
             g == Out(FieldWriters(k, ring), m, len)
         IN /\ len \in Nat /\ m = [j \in 1 .. len |-> m[j]] /\ Serialize(k, m) = Linked(g, len)
            /\ Pieces(g, len, Cells) /\ ItemsRead(FieldReaders(k), g, m, len)
<1>1. Len(Layout[k]) \in Nat /\ Len(Layout[k]) \in 0 .. Len(Layout[k])
  BY LayoutIs
<1>2. ItemsIn(m, FieldSets(k, ring), Len(Layout[k]))
  BY DEF IsMessage
<1>3. QED
  BY <1>1, <1>2, FieldCodecs, OutPieces, SerializeIs DEF ItemsIn, Listed

\* A serialized message is cells, for the ring size of either end.
LEMMA ListCells ==
  ASSUME WellTyped, NEW n \in Nat, NEW write, NEW v, Listed(v, n),
         \A i \in 1 .. n : write[v[i]] \in Seq(Cells)
  PROVE  WriteEach(write, v) \in Seq(Cells)
<1> DEFINE g == Out(Same(write, n), v, n)
<1>1. Pieces(g, n, Cells)
  BY DEF Pieces, Out, Same
<1>2. WriteEach(write, v) = Linked(g, n)
  BY RepeatedOut
<1>3. n \in 0 .. n
  OBVIOUS
<1> HIDE DEF g
<1>4. QED
  BY <1>1, <1>2, <1>3, LinkedSteps

LEMMA CiphertextCells ==
  ASSUME WellTyped, NEW n \in Nat, NEW ct \in CiphertextsOf(n)
  PROVE  WriteCiphertext[ct] \in Seq(Cells)
<1>1. ASSUME NEW p \in Polynomials(n) PROVE p \in Vec /\ WriteEach(WriteI64, p) \in Seq(Cells)
  <2>1. Listed(p, n) /\ \A i \in 1 .. n : p[i] \in Int64
    BY DEF Polynomials, Listed
  <2>2. \A i \in 1 .. n : WriteI64[p[i]] \in Seq(Cells)
    BY <2>1, I64Codec DEF Codec
  <2>3. p \in Seq(Int64)
    BY FunctionIsSeq DEF Polynomials
  <2>4. QED
    BY <2>1, <2>2, <2>3, ListCells DEF Vec
<1>2. ct.a \in Polynomials(n) /\ ct.b \in Polynomials(n) /\ ct = [a |-> ct.a, b |-> ct.b]
  BY DEF CiphertextsOf
<1>3. ct \in Ciphertexts
  BY <1>1, <1>2 DEF Ciphertexts
<1>4. WriteCiphertext[ct] = WriteEach(WriteI64, ct.a) \o WriteEach(WriteI64, ct.b)
  BY <1>3 DEF WriteCiphertext
<1>5. QED
  BY <1>1, <1>2, <1>4, ConcatProperties

LEMMA FieldCells ==
  ASSUME WellTyped, NEW field \in FieldNames, NEW n \in RingSizes, NEW v \in FieldValues(field, n)
  PROVE  Write(field, v) \in Seq(Cells)
<1>1. CASE field = "ciphertexts"
  <2>1. v \in Counted(CiphertextsOf(n)) /\ Write(field, v) = WriteCounted(WriteCiphertext, v)
    BY <1>1 DEF FieldValues, Write, CiphertextsOf, Polynomials
  <2> DEFINE m == Len(v)
  <2>2. n \in Nat /\ m \in Nat /\ m < Width /\ Listed(v, m) /\ v \in [1 .. m -> CiphertextsOf(n)]
    BY <2>1, WireConstants, CountedIs, SeqIsFunction
  <2>3. m \in Cells
    BY <2>2, WireConstants
  <2>4. WriteCounted(WriteCiphertext, v) = <<m>> \o WriteEach(WriteCiphertext, v)
    BY <2>3, OneCell DEF WriteCounted
  <2> HIDE DEF m
  <2>5. \A i \in 1 .. m : WriteCiphertext[v[i]] \in Seq(Cells)
    BY <2>2, CiphertextCells
  <2>6. WriteEach(WriteCiphertext, v) \in Seq(Cells) /\ <<m>> \in Seq(Cells)
    BY <2>2, <2>3, <2>5, ListCells, OneCell
  <2>7. QED
    BY <2>1, <2>4, <2>6, ConcatProperties
<1>2. CASE field # "ciphertexts"
  <2>1. FieldValues(field, n) = FieldValues(field, ring)
    BY <1>2 DEF FieldNames, FieldValues
  <2>2. WriteField(field, ring)[v] \in Seq(Cells)
    BY <2>1, FieldCodec DEF Codec
  <2>3. QED
    BY <2>1, <2>2 DEF WriteField
<1>3. QED
  BY <1>1, <1>2

LEMMA SerializeCells ==
  ASSUME WellTyped, NEW k \in Kinds, NEW n \in RingSizes, NEW m, IsMessage(m, k, n)
  PROVE  Serialize(k, m) \in Seq(Cells)
<1> DEFINE len == Len(Layout[k])
           g == Out(FieldWriters(k, n), m, len)
<1>1. len \in Nat /\ len \in 0 .. len
  BY LayoutIs
<1>2. ASSUME NEW i \in 1 .. len PROVE g[i] \in Seq(Cells)
  <2>1. m[i] \in FieldValues(Layout[k][i], n)
    BY DEF IsMessage, ItemsIn, FieldSets
  <2>2. g[i] = Write(Layout[k][i], m[i])
    BY <2>1 DEF Out, FieldWriters, WriteField
  <2>3. Layout[k][i] \in FieldNames
    BY LayoutIs
  <2>4. QED
    BY <2>1, <2>2, <2>3, FieldCells
<1>3. Serialize(k, m) = Linked(g, len)
  BY SerializeIs
<1> HIDE DEF g, len
<1>4. Pieces(g, len, Cells)
  BY <1>2 DEF Pieces
<1>5. QED
  BY <1>1, <1>3, <1>4, LinkedSteps

\* A serialized message at the start of the buffer is read, or found cut.
LEMMA DeserializeReads ==
  ASSUME WellTyped, NEW k \in Kinds, NEW m, IsMessage(m, k, ring), Compatible(0, Serialize(k, m))
  PROVE  Deserialize(k) = Got(0, Serialize(k, m), m)
<1> DEFINE len == Len(Layout[k])
           g == Out(FieldWriters(k, ring), m, len)
           reads == FieldReaders(k)
<1>1. /\ len \in Nat /\ m = [j \in 1 .. len |-> m[j]] /\ Serialize(k, m) = Linked(g, len)
      /\ Pieces(g, len, Cells) /\ ItemsRead(reads, g, m, len)
  BY MessageOut
<1>2. 0 \in 0 .. Len(buf)
  BY DEF WellTyped
<1>3. Deserialize(k) = ReadEach(reads, 0) /\ Len(reads) = len
  BY DeserializeIs
<1> HIDE DEF g, reads, len
<1>4. ReadEach(reads, 0) = Got(0, Linked(g, len), [j \in 1 .. len |-> m[j]])
  BY <1>1, <1>2, <1>3, EachReads
<1>5. QED
  BY <1>1, <1>3, <1>4

\* Whatever the buffer, what is accepted is a message that is written so.
LEMMA DeserializeSound ==
  ASSUME WellTyped, NEW k \in Kinds, NEW r, r = Deserialize(k), ~ Failed(r)
  PROVE  IsMessage(r.value, k, ring) /\ Holds(Serialize(k, r.value), 0, r.at)
<1> DEFINE len == Len(Layout[k])
           reads == FieldReaders(k)
           writes == FieldWriters(k, ring)
           Ds == FieldSets(k, ring)
<1>1. len \in Nat /\ 0 \in 0 .. Len(buf) /\ r = ReadEach(reads, 0) /\ Len(reads) = len
  BY LayoutIs, DeserializeIs DEF WellTyped
<1>2. ItemCodecs(reads, writes, Ds, len)
  BY FieldCodecs
<1> HIDE DEF len, reads, writes, Ds
<1>3. Come(r, 0, writes, Ds, len)
  BY <1>1, <1>2, EachSound
<1>4. IsMessage(r.value, k, ring)
  BY <1>3 DEF Come, IsMessage, len, Ds
<1>5. Serialize(k, r.value) = Linked(Out(writes, r.value, len), len)
  BY <1>4, SerializeIs DEF writes, len
<1>6. QED
  BY <1>3, <1>4, <1>5 DEF Come

----------------------------------------------------------------------------
(* The inductive invariant of WireProtocol. *)

Damages == {"unsent", "none", "truncated", "extended", "replaced"}
SameRing == ~ Plain(kind) => sentBy = ring

WireTyped ==
  /\ kind \in Kinds /\ ring \in RingSizes /\ sentBy \in RingSizes \cup {0}
  /\ buf \in Seq(Cells) /\ damage \in Damages
  /\ damage = "unsent" => result = NotRead

\* What was sent, and what is left of it.
WasSent ==
  damage \in {"none", "truncated", "extended"} => sentBy \in RingSizes /\ IsMessage(msg, kind, sentBy)
Whole == damage = "none" => buf = Serialize(kind, msg)
Cut ==
  damage = "truncated" =>
    \E len \in Nat : len < Len(Serialize(kind, msg)) /\ buf = SubSeq(Serialize(kind, msg), 1, len)

\* What the reader has made of the buffer.
ReadWhole == damage = "none" /\ SameRing => result = [at |-> Len(buf), value |-> msg]
ReadCut == damage = "truncated" /\ SameRing => Failed(result)
ReadSound ==
  ~ Failed(result) => IsMessage(result.value, kind, ring) /\ Holds(Serialize(kind, result.value), 0, result.at)
HasRead == result # NotRead => ReadWhole /\ ReadCut /\ ReadSound

WireInv == WireTyped /\ WasSent /\ Whole /\ Cut /\ HasRead

LEMMA WireInitInv == WireInit => WireInv
<1> SUFFICES ASSUME WireInit PROVE WireInv
  OBVIOUS
<1>1. WireTyped
  BY DEF WireInit, WireTyped, Damages
<1>2. damage = "unsent" /\ result = NotRead
  BY DEF WireInit
<1>3. QED
  BY <1>1, <1>2 DEF WireInv, WasSent, Whole, Cut, HasRead

LEMMA SendMessageInv == ASSUME WireInv, SendMessage PROVE WireInv'
<1>0. PICK n \in RingSizes :
        \E m \in WireMessages(kind, n) : sentBy' = n /\ msg' = m /\ buf' = Serialize(kind, m)
  BY DEF SendMessage
<1>1. PICK m \in WireMessages(kind, n) : sentBy' = n /\ msg' = m /\ buf' = Serialize(kind, m)
  BY <1>0
<1>2. /\ damage = "unsent" /\ damage' = "none" /\ kind' = kind /\ ring' = ring /\ result' = result
      /\ kind \in Kinds /\ WellTyped /\ result = NotRead /\ ring \in RingSizes
  BY DEF SendMessage, WireInv, WireTyped, WellTyped
<1>3. IsMessage(m, kind, n)
  BY <1>2, MessagesAre
<1>4. Serialize(kind, m) \in Seq(Cells)
  BY <1>2, <1>3, SerializeCells
<1>5. WireTyped'
  BY <1>1, <1>2, <1>4 DEF WireTyped, Damages
<1>6. WasSent' /\ Whole'
  BY <1>1, <1>2, <1>3 DEF WasSent, Whole
<1>7. Cut'
  BY <1>2 DEF Cut
<1>8. HasRead'
  BY <1>2 DEF HasRead, NotRead
<1>9. QED
  BY <1>5, <1>6, <1>7, <1>8 DEF WireInv

LEMMA TruncateInv == ASSUME WireInv, Truncate PROVE WireInv'
<1>1. PICK len \in 0 .. Len(buf) - 1 : buf' = SubSeq(buf, 1, len)
  BY DEF Truncate
<1>2. /\ damage = "none" /\ damage' = "truncated" /\ result = NotRead
      /\ kind' = kind /\ msg' = msg /\ sentBy' = sentBy /\ ring' = ring /\ result' = result
  BY DEF Truncate
<1>3. buf \in Seq(Cells) /\ buf = Serialize(kind, msg)
  BY <1>2 DEF WireInv, WireTyped, Whole
<1>4. Len(buf) \in Nat /\ len \in Nat /\ len < Len(buf) /\ len <= Len(buf)
  BY <1>3
<1>5. SubSeq(buf, 1, len) \in Seq(Cells)
  BY <1>3, <1>4, SubSeqProperties
<1>6. WireTyped'
  BY <1>1, <1>2, <1>5 DEF WireInv, WireTyped, Damages
<1>7. WasSent' /\ Whole'
  BY <1>2 DEF WireInv, WasSent, Whole
<1>8. Cut'
  BY <1>1, <1>2, <1>3, <1>4 DEF Cut
<1>9. HasRead'
  BY <1>2 DEF HasRead, NotRead
<1>10. QED
  BY <1>6, <1>7, <1>8, <1>9 DEF WireInv

LEMMA ExtendInv == ASSUME WireInv, Extend PROVE WireInv'
<1>1. /\ damage = "none" /\ damage' = "extended" /\ result = NotRead /\ buf' = Append(buf, 0)
      /\ kind' = kind /\ msg' = msg /\ sentBy' = sentBy /\ ring' = ring /\ result' = result
  BY DEF Extend
<1>2. Append(buf, 0) \in Seq(Cells)
  <2>1. buf \in Seq(Cells) /\ 0 \in Cells
    BY WireConstants DEF WireInv, WireTyped
  <2>2. QED
    BY <2>1, AppendProperties
<1>3. WireTyped'
  BY <1>1, <1>2 DEF WireInv, WireTyped, Damages
<1>4. WasSent' /\ Whole' /\ Cut'
  BY <1>1 DEF WireInv, WasSent, Whole, Cut
<1>5. HasRead'
  BY <1>1 DEF HasRead, NotRead
<1>6. QED
  BY <1>3, <1>4, <1>5 DEF WireInv

LEMMA ReplaceInv == ASSUME WireInv, Replace PROVE WireInv'
<1>1. PICK b \in Buffers : buf' = b
  BY DEF Replace
<1>2. /\ damage = "unsent" /\ damage' = "replaced" /\ result = NotRead
      /\ kind' = kind /\ msg' = msg /\ sentBy' = sentBy /\ ring' = ring /\ result' = result
  BY DEF Replace, WireInv, WireTyped
<1>3. b \in Seq(Cells)
  BY WireAssumption
<1>4. WireTyped'
  BY <1>1, <1>2, <1>3 DEF WireInv, WireTyped, Damages
<1>5. WasSent' /\ Whole' /\ Cut'
  BY <1>2 DEF WasSent, Whole, Cut
<1>6. HasRead'
  BY <1>2 DEF HasRead, NotRead
<1>7. QED
  BY <1>4, <1>5, <1>6 DEF WireInv

LEMMA ReceiveInv == ASSUME WireInv, Receive PROVE WireInv'
<1> DEFINE r == Deserialize(kind)
           s == Serialize(kind, msg)
<1>1. /\ damage # "unsent" /\ result' = r
      /\ UNCHANGED <<kind, msg, sentBy, ring, buf, damage>>
  BY DEF Receive
<1>2. WellTyped /\ kind \in Kinds /\ ring \in RingSizes /\ buf \in Seq(Cells) /\ Len(buf) \in Nat
  BY DEF WireInv, WireTyped, WellTyped
<1> HIDE DEF r, s
<1>3. ASSUME damage = "none", SameRing PROVE r = [at |-> Len(buf), value |-> msg]
  <2>1. IsMessage(msg, kind, ring)
    BY <1>2, <1>3, MessageOfAnyRing DEF WireInv, WasSent, SameRing
  <2>2. buf = s
    BY <1>3 DEF WireInv, Whole, s
  <2>3. Compatible(0, buf)
    BY <1>2 DEF Compatible
  <2>4. r = Got(0, s, msg)
    BY <1>2, <2>1, <2>2, <2>3, DeserializeReads DEF r, s
  <2>5. 0 + Len(buf) = Len(buf) /\ 0 + Len(buf) <= Len(buf)
    BY <1>2
  <2>6. Got(0, buf, msg) = [at |-> Len(buf), value |-> msg]
    BY <2>5 DEF Got
  <2>7. QED
    BY <2>2, <2>4, <2>6
<1>4. ASSUME damage = "truncated", SameRing PROVE Failed(r)
  <2>1. IsMessage(msg, kind, ring) /\ IsMessage(msg, kind, sentBy) /\ sentBy \in RingSizes
    BY <1>2, <1>4, MessageOfAnyRing DEF WireInv, WasSent, SameRing
  <2>2. s \in Seq(Cells)
    BY <1>2, <2>1, SerializeCells DEF s
  <2>3. PICK len \in Nat : len < Len(s) /\ buf = SubSeq(s, 1, len)
    BY <1>4 DEF WireInv, Cut, s
  <2>4. Len(s) \in Nat /\ len <= Len(s)
    BY <2>2, <2>3
  <2>5. Len(buf) = len /\ \A j \in 1 .. len : buf[j] = s[j]
    BY <2>2, <2>3, <2>4
  <2>6. Compatible(0, s)
    <3> SUFFICES ASSUME NEW j \in 1 .. Len(s), 0 + j <= Len(buf) PROVE buf[0 + j] = s[j]
      BY DEF Compatible
    <3>1. 0 + j = j /\ j \in 1 .. len
      BY <2>4, <2>5
    <3>2. QED
      BY <2>5, <3>1
  <2>7. r = Got(0, s, msg)
    BY <1>2, <2>1, <2>6, DeserializeReads DEF r, s
  <2>8. ~ (0 + Len(s) <= Len(buf))
    BY <2>3, <2>4, <2>5
  <2>9. QED
    BY <2>7, <2>8, WireConstants DEF Got
<1>5. ASSUME ~ Failed(r)
      PROVE  IsMessage(r.value, kind, ring) /\ Holds(Serialize(kind, r.value), 0, r.at)
  BY <1>2, <1>5, DeserializeSound DEF r
<1>6. WireTyped'
  BY <1>1 DEF WireInv, WireTyped
<1>7. WasSent' /\ Whole' /\ Cut'
  BY <1>1 DEF WireInv, WasSent, Whole, Cut
<1>8. SameRing' <=> SameRing
  BY <1>1 DEF SameRing
<1>9. ReadWhole' /\ ReadCut'
  BY <1>1, <1>3, <1>4, <1>8 DEF ReadWhole, ReadCut, Failed
<1>10. ReadSound'
  BY <1>1, <1>5 DEF ReadSound, Failed, Holds
<1>11. QED
  BY <1>6, <1>7, <1>9, <1>10 DEF WireInv, HasRead

LEMMA WireStepInv == WireInv /\ [WireNext]_wire_vars => WireInv'
<1> SUFFICES ASSUME WireInv, [WireNext]_wire_vars PROVE WireInv'
  OBVIOUS
<1>1. CASE UNCHANGED wire_vars
  BY <1>1 DEF wire_vars, WireInv, WireTyped, WasSent, Whole, Cut, HasRead, ReadWhole, ReadCut, ReadSound,
              SameRing, Holds, Failed, NotRead
<1>2. QED
  BY <1>1, SendMessageInv, TruncateInv, ExtendInv, ReplaceInv, ReceiveInv DEF WireNext

LEMMA WireInvariant == WireSpec => []WireInv
BY WireInitInv, WireStepInv, PTL DEF WireSpec

\* Whatever deserialize_* makes of a buffer that serialize_* filled, it is the
\* message that was serialized, and the cursor is at the end of the buffer.
THEOREM RoundTripHolds == WireSpec => []RoundTrip
<1>1. WireInv => RoundTrip
  BY DEF WireInv, HasRead, ReadWhole, SameRing, Plain, RoundTrip
<1>2. QED
  BY <1>1, WireInvariant, PTL

\* However short a serialized message is cut, deserialize_* throws: one of its
\* reads needs a cell that is not there.
THEOREM TruncatedIsRejectedHolds == WireSpec => []TruncatedIsRejected
<1>1. ASSUME WireInv PROVE TruncatedIsRejected
  <2>1. CASE result = NotRead
    BY <2>1 DEF NotRead, TruncatedIsRejected, Accepted
  <2>2. CASE result # NotRead
    BY <1>1, <2>2 DEF WireInv, HasRead, ReadCut, SameRing, Plain, TruncatedIsRejected, Accepted, Failed
  <2>3. QED
    BY <2>1, <2>2
<1>2. QED
  BY <1>1, WireInvariant, PTL

\* Of any buffer, cut, longer or made by no serializer, what deserialize_*
\* returns is a message that serialize_* writes as the cells gone through.
THEOREM AcceptedIsSerializedHolds == WireSpec => []AcceptedIsSerialized
<1>1. ASSUME WireInv PROVE AcceptedIsSerialized
  <2>1. /\ kind \in Kinds /\ ring \in RingSizes /\ sentBy \in RingSizes \cup {0} /\ damage \in Damages
        /\ buf \in Seq(Cells) /\ Len(buf) \in Nat /\ Cells = 0 .. Width - 1
    BY <1>1, WireConstants DEF WireInv, WireTyped
  <2>2. \A i \in DOMAIN buf : buf[i] \in 0 .. Width - 1
    <3>1. buf \in Seq(Cells)
      BY <2>1
    <3>2. \A i \in DOMAIN buf : buf[i] \in Cells
      BY <3>1
    <3>3. QED
      BY <3>2 DEF Cells
  <2>3. CASE result = NotRead \/ Failed(result)
    <3>1. result.at \in -1 .. Len(buf) /\ ~ Accepted
      BY <2>1, <2>3 DEF NotRead, Failed, Accepted
    <3>2. QED
      BY <2>1, <2>2, <3>1 DEF AcceptedIsSerialized, WireTypeOK, Damages
  <2>4. CASE result # NotRead /\ ~ Failed(result)
    <3> DEFINE v == result.value
               s == Serialize(kind, v)
               n == result.at
    <3>1. IsMessage(v, kind, ring) /\ Holds(s, 0, n)
      BY <1>1, <2>4 DEF WireInv, HasRead, ReadSound
    <3> HIDE DEF v, s, n
    <3>2. n \in 0 .. Len(buf) /\ s \in Seq(Cells) /\ Len(s) = n - 0 /\ \A j \in 1 .. n - 0 : s[j] = buf[0 + j]
      BY <3>1 DEF Holds
    <3>3. s = SubSeq(buf, 1, n)
      <4> DEFINE t == SubSeq(buf, 1, n)
      <4>1. n \in Nat /\ n - 0 = n /\ Len(s) = n /\ \A j \in 1 .. n : 0 + j = j
        BY <2>1, <3>2
      <4>2. t \in Seq(Cells) /\ Len(t) = n /\ \A j \in 1 .. n : t[j] = buf[j]
        <5>1. buf \in Seq(Cells) /\ n \in 0 .. Len(buf)
          BY <2>1, <3>2
        <5>2. QED
          BY <4>1, <5>1
      <4> HIDE DEF t
      <4>3. \A j \in 1 .. n : s[j] = t[j]
        BY <3>2, <4>1, <4>2
      <4>4. s = t
        BY <3>2, <4>1, <4>2, <4>3, SeqEqual
      <4>5. QED
        BY <4>4 DEF t
    <3>4. ASSUME kind # "response", NEW i \in DOMAIN Last(v), NEW j \in DOMAIN Last(v)[i]
          PROVE  Last(v)[i][j] \in Int64
      <4> DEFINE len == Len(Layout[kind])
      <4>1. len \in Nat \ {0} /\ Layout[kind][len] = "vec_vec"
        BY <2>1, <3>4, LayoutIs DEF Plain
      <4>2. Listed(v, len) /\ v[len] \in FieldValues(Layout[kind][len], ring)
        <5>1. len \in 1 .. len /\ IsMessage(v, kind, ring)
          BY <3>1, <4>1
        <5>2. QED
          BY <5>1 DEF IsMessage, ItemsIn, FieldSets
      <4>3. Len(v) = len
        BY <4>1, <4>2 DEF Listed
      <4>4. Last(v) = v[len]
        BY <4>3 DEF Last
      <4>5. Last(v) \in Counted(Counted(Int64))
        BY <4>1, <4>2, <4>4 DEF FieldValues
      <4>6. Last(v)[i] \in Counted(Int64)
        BY <4>5 DEF Counted
      <4>7. QED
        BY <4>6 DEF Counted
    <3>5. \A i \in DOMAIN LastVectors : \A j \in DOMAIN LastVectors[i] : LastVectors[i][j] \in Int64
      BY <3>4 DEF LastVectors, v
    <3>6. WireTypeOK
      BY <2>1, <2>2, <3>2, <3>5 DEF WireTypeOK, Damages, n
    <3>7. QED
      BY <3>3, <3>6 DEF AcceptedIsSerialized, s, v, n
  <2>5. QED
    BY <2>3, <2>4
<1>2. QED
  BY <1>1, WireInvariant, PTL
=============================================================================
