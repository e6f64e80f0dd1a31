---------------------------- MODULE StreamProofs ----------------------------
(***************************************************************************)
(* The two streams of bytes.  KeyStream, for words and chunks of any size, *)
(* any range and any keystream: every value is drawn equally often, a      *)
(* distribution reads the keystream word by word across refills, and all   *)
(* of one seed agree.  BitPacking, for any parameters, bits in a byte and  *)
(* lengths: streams have the sizes announced, an undamaged one is read as  *)
(* it was written, and an accepted one is canonical.                       *)
(***************************************************************************)
EXTENDS KeyStream, BitPacking, SequenceTheorems, FiniteSetTheorems, WellFoundedInduction, TLAPS

(* Induction over the natural numbers, for sets of them. *)

LEMMA LessIsWellFounded == IsWellFoundedOn({p \in Nat \X Nat : p[1] < p[2]}, Nat)
BY NatLessThanWellFounded DEF OpToRel

\* Numbers have a least one.
LEMMA LeastNumber ==
  ASSUME NEW T, T \subseteq Nat, T # {}
  PROVE  \E x \in T : \A y \in T : x <= y
<1>1. PICK x \in T : \A y \in T : ~ (<<y, x>> \in {p \in Nat \X Nat : p[1] < p[2]})
  BY LessIsWellFounded, WFMin
<1>2. \A y \in T : ~ (y < x)
  BY <1>1
<1>3. QED
  BY <1>2

\* A set that holds 0 and, below n, the successor of what it holds.
LEMMA Induction ==
  ASSUME NEW n \in Nat, NEW T, 0 \in T, \A k \in 0 .. n - 1 : k \in T => k + 1 \in T
  PROVE  \A k \in 0 .. n : k \in T
<1> SUFFICES ASSUME NEW m \in 0 .. n, m \notin T PROVE FALSE
  OBVIOUS
<1> DEFINE Missing == {k \in 0 .. n : k \notin T}
<1>1. PICK k \in Missing : \A j \in Missing : k <= j
  <2>1. Missing \subseteq Nat /\ Missing # {}
    OBVIOUS
  <2>2. QED
    BY <2>1, LeastNumber
<1>2. k - 1 \in 0 .. n - 1 /\ k - 1 \notin Missing
  BY <1>1
<1>3. k - 1 \in T
  BY <1>2
<1>4. (k - 1) + 1 \in T
  BY <1>2, <1>3
<1>5. QED
  BY <1>1, <1>4

----------------------------------------------------------------------------
(* Powers of ByteValues. *)

\* A chunk is a whole number of words.
PerChunk == ChunkBytes \div WordBytes

LEMMA Constants ==
  /\ ByteValues \in Nat \ {0, 1} /\ WordBytes \in Nat \ {0} /\ ChunkBytes \in Nat \ {0}
  /\ MaxChunks \in Nat /\ PerChunk \in Nat \ {0} /\ ChunkBytes = PerChunk * WordBytes
<1>1. /\ ByteValues \in Nat \ {0, 1} /\ WordBytes \in Nat \ {0} /\ ChunkBytes \in Nat \ {0}
      /\ MaxChunks \in Nat /\ ChunkBytes % WordBytes = 0
  BY SizeAssumption
<1>2. PerChunk \in Nat /\ ChunkBytes = WordBytes * PerChunk + (ChunkBytes % WordBytes)
  BY <1>1 DEF PerChunk
<1>3. ChunkBytes = WordBytes * PerChunk /\ PerChunk # 0
  <2>1. ChunkBytes = WordBytes * PerChunk
    BY <1>1, <1>2
  <2>2. WordBytes * 0 = 0
    BY <1>1
  <2>3. QED
    BY <1>1, <2>1, <2>2
<1>4. WordBytes * PerChunk = PerChunk * WordBytes
  BY <1>1, <1>2
<1>5. QED
  BY <1>1, <1>2, <1>3, <1>4

\* power lists the powers of ByteValues.
Powers(power, n) ==
  power \in [0 .. n -> Nat \ {0}] /\ power[0] = 1
  /\ \A k \in 1 .. n : power[k] = ByteValues * power[k - 1]

LEMMA PowersExist == ASSUME NEW n \in Nat PROVE \E power : Powers(power, n)
<1> DEFINE T == {m \in 0 .. n : \E power : Powers(power, m)}
<1>1. 0 \in T
  <2>1. Powers([k \in 0 .. 0 |-> 1], 0)
    BY DEF Powers
  <2>2. QED
    BY <2>1
<1>2. ASSUME NEW k \in 0 .. n - 1, k \in T PROVE k + 1 \in T
  <2>1. PICK f : Powers(f, k)
    BY <1>2
  <2> DEFINE next == ByteValues * f[k]
             g == [i \in 0 .. k + 1 |-> IF i = k + 1 THEN next ELSE f[i]]
  <2>2. next \in Nat \ {0}
    <3>1. f[k] \in Nat \ {0}
      BY <2>1 DEF Powers
    <3>2. ByteValues \in Nat \ {0}
      BY Constants
    <3>3. QED
      BY <3>1, <3>2
  <2>3. next = ByteValues * f[k]
    OBVIOUS
  <2> HIDE DEF next
  <2>4. \A i \in 0 .. k : g[i] = f[i] /\ f[i] \in Nat \ {0}
    BY <2>1 DEF Powers
  <2>5. g \in [0 .. k + 1 -> Nat \ {0}] /\ g[0] = 1 /\ g[k + 1] = ByteValues * g[k]
    BY <2>1, <2>2, <2>3, <2>4 DEF Powers
  <2> HIDE DEF g
  <2>6. \A i \in 1 .. k + 1 : g[i] = ByteValues * g[i - 1]
    <3> SUFFICES ASSUME NEW i \in 1 .. k + 1 PROVE g[i] = ByteValues * g[i - 1]
      OBVIOUS
    <3>1. CASE i = k + 1
      <4>1. i - 1 = k
        BY <3>1
      <4>2. QED
        BY <2>5, <3>1, <4>1
    <3>2. CASE i # k + 1
      <4>1. i \in 1 .. k /\ i \in 0 .. k /\ i - 1 \in 0 .. k
        BY <3>2
      <4>2. f[i] = ByteValues * f[i - 1]
        BY <2>1, <4>1 DEF Powers
      <4>3. QED
        BY <2>4, <4>1, <4>2
    <3>3. QED
      BY <3>1, <3>2
  <2>7. Powers(g, k + 1)
    BY <2>5, <2>6 DEF Powers
  <2>8. QED
    BY <2>7
<1> HIDE DEF T
<1>3. n \in T
  BY <1>1, <1>2, Induction
<1>4. QED
  BY <1>3 DEF T

LEMMA PowerIs == ASSUME NEW n \in Nat, NEW power, Powers(power, n) PROVE Power(n) = power[n]
<1> DEFINE Def(g) == g = [i \in 0 .. n |-> IF i = 0 THEN 1 ELSE ByteValues * g[i - 1]]
           g == CHOOSE g : Def(g)
           T == {i \in 0 .. n : g[i] = power[i]}
<1>1. Def(power)
  BY DEF Powers
<1>2. Def(g)
  BY <1>1
<1>3. Power(n) = g[n]
  BY DEF Power
<1> HIDE DEF g
<1>4. 0 \in T
  BY <1>2 DEF Powers
<1>5. ASSUME NEW k \in 0 .. n - 1, k \in T PROVE k + 1 \in T
  <2>1. k + 1 \in 0 .. n /\ k + 1 # 0 /\ (k + 1) - 1 = k /\ k + 1 \in 1 .. n
    OBVIOUS
  <2>2. g[k + 1] = ByteValues * g[k]
    BY <1>2, <2>1
  <2>3. power[k + 1] = ByteValues * power[k]
    BY <2>1 DEF Powers
  <2>4. g[k + 1] = power[k + 1]
    BY <1>5, <2>2, <2>3
  <2>5. QED
    BY <2>1, <2>4
<1> HIDE DEF T
<1>6. n \in T
  BY <1>4, <1>5, Induction
<1>7. QED
  BY <1>3, <1>6 DEF T

LEMMA PowerSteps ==
  ASSUME NEW k \in Nat
  PROVE  Power(0) = 1 /\ Power(k) \in Nat \ {0} /\ Power(k + 1) = ByteValues * Power(k)
<1>1. PICK f : Powers(f, k + 1)
  BY PowersExist
<1>2. \A i \in 0 .. k + 1 : Power(i) = f[i]
  <2> SUFFICES ASSUME NEW i \in 0 .. k + 1 PROVE Power(i) = f[i]
    OBVIOUS
  <2> DEFINE g == [j \in 0 .. i |-> f[j]]
  <2>1. Powers(g, i)
    BY <1>1 DEF Powers
  <2>2. Power(i) = g[i]
    BY <2>1, PowerIs
  <2>3. QED
    BY <2>2
<1>3. QED
  BY <1>1, <1>2 DEF Powers

----------------------------------------------------------------------------
(* Words. *)

\* value sums the first n bytes of a word, each times its power.
Values(value, word, n) ==
  /\ value \in [0 .. n -> Nat] /\ value[0] = 0
  /\ \A i \in 1 .. n : value[i] = value[i - 1] + word[i - 1] * Power(i - 1)

LEMMA ValuesExist ==
  ASSUME NEW word \in [0 .. WordBytes - 1 -> Nat]
  PROVE  \E value : Values(value, word, WordBytes)
<1> DEFINE T == {m \in 0 .. WordBytes : \E value : Values(value, word, m)}
<1>0. WordBytes \in Nat
  BY Constants
<1>1. 0 \in T
  <2>1. Values([k \in 0 .. 0 |-> 0], word, 0)
    BY DEF Values
  <2>2. QED
    BY <1>0, <2>1
<1>2. ASSUME NEW k \in 0 .. WordBytes - 1, k \in T PROVE k + 1 \in T
  <2>1. PICK f : Values(f, word, k)
    BY <1>2
  <2> DEFINE next == f[k] + word[k] * Power(k)
             g == [i \in 0 .. k + 1 |-> IF i = k + 1 THEN next ELSE f[i]]
  <2>2. next \in Nat
    <3>1. f[k] \in Nat /\ word[k] \in Nat /\ Power(k) \in Nat
      BY <1>0, <2>1, PowerSteps DEF Values
    <3>2. QED
      BY <3>1
  <2>3. next = f[k] + word[k] * Power(k)
    OBVIOUS
  <2> HIDE DEF next
  <2>4. \A i \in 0 .. k : g[i] = f[i] /\ f[i] \in Nat
    BY <1>0, <2>1 DEF Values
  <2>5. g \in [0 .. k + 1 -> Nat] /\ g[0] = 0 /\ g[k + 1] = g[k] + word[k] * Power(k)
    BY <1>0, <2>1, <2>2, <2>3, <2>4 DEF Values
  <2> HIDE DEF g
  <2>6. \A i \in 1 .. k + 1 : g[i] = g[i - 1] + word[i - 1] * Power(i - 1)
    <3> SUFFICES ASSUME NEW i \in 1 .. k + 1
                 PROVE  g[i] = g[i - 1] + word[i - 1] * Power(i - 1)
      OBVIOUS
    <3>1. CASE i = k + 1
      <4>1. i - 1 = k
        BY <1>0, <3>1
      <4>2. QED
        BY <2>5, <3>1, <4>1
    <3>2. CASE i # k + 1
      <4>1. i \in 1 .. k /\ i \in 0 .. k /\ i - 1 \in 0 .. k
        BY <1>0, <3>2
      <4>2. f[i] = f[i - 1] + word[i - 1] * Power(i - 1)
        BY <2>1, <4>1 DEF Values
      <4>3. QED
        BY <2>4, <4>1, <4>2
    <3>3. QED
      BY <3>1, <3>2
  <2>7. Values(g, word, k + 1)
    BY <2>5, <2>6 DEF Values
  <2>8. k + 1 \in 0 .. WordBytes
    BY <1>0
  <2>9. QED
    BY <2>7, <2>8
<1> HIDE DEF T
<1>3. \A k \in 0 .. WordBytes : k \in T
  BY <1>0, <1>1, <1>2, Induction
<1>4. WordBytes \in T
  BY <1>0, <1>3
<1>5. QED
  BY <1>4 DEF T

LEMMA WordIsNatural ==
  ASSUME NEW word \in [0 .. WordBytes - 1 -> Nat]
  PROVE  LittleEndian(word) \in Nat
<1> DEFINE n == WordBytes
           Def(g) == g = [i \in 0 .. n |-> IF i = 0 THEN 0
                                           ELSE g[i - 1] + word[i - 1] * Power(i - 1)]
           g == CHOOSE g : Def(g)
           T == {i \in 0 .. n : g[i] \in Nat}
<1>1. PICK value : Values(value, word, WordBytes)
  BY ValuesExist
<1>2. Def(value)
  BY <1>1 DEF Values
<1>3. Def(g)
  BY <1>2
<1>4. LittleEndian(word) = g[n]
  BY DEF LittleEndian
<1>5. n \in Nat
  BY Constants
<1> HIDE DEF g
<1>6. 0 \in T
  BY <1>3, <1>5
<1>7. ASSUME NEW k \in 0 .. n - 1, k \in T PROVE k + 1 \in T
  <2>1. k + 1 \in 0 .. n /\ k + 1 # 0 /\ (k + 1) - 1 = k /\ k \in Nat
    BY <1>5
  <2>2. g[k + 1] = g[k] + word[k] * Power(k)
    BY <1>3, <2>1
  <2>3. g[k] \in Nat /\ word[k] \in Nat /\ Power(k) \in Nat
    BY <1>7, <2>1, PowerSteps
  <2>4. word[k] * Power(k) \in Nat
    BY <2>3
  <2>5. g[k + 1] \in Nat
    BY <2>2, <2>3, <2>4
  <2>6. QED
    BY <2>1, <2>5
<1> HIDE DEF T, n
<1>8. n \in T
  <2>1. \A k \in 0 .. n : k \in T
    BY <1>5, <1>6, <1>7, Induction
  <2>2. QED
    BY <1>5, <2>1
<1>9. QED
  BY <1>4, <1>8 DEF T

\* The bytes of a buffer or keystream are natural numbers, and so are its words.
LEMMA WordType ==
  ASSUME NEW D, NEW bytes \in [D -> Bytes], NEW pos
  PROVE  Word(bytes, pos) \in Nat
<1> DEFINE word == [i \in 0 .. WordBytes - 1 |-> IF pos + i \in DOMAIN bytes THEN bytes[pos + i] ELSE 0]
<1>1. Bytes \subseteq Nat
  BY Constants DEF Bytes
<1>2. word \in [0 .. WordBytes - 1 -> Nat]
  BY <1>1
<1>3. Word(bytes, pos) = LittleEndian(word)
  BY DEF Word
<1> HIDE DEF word
<1>4. QED
  BY <1>2, <1>3, WordIsNatural

\* A word of a chunk is a word of the keystream.
LEMMA ChunkWord ==
  ASSUME NEW n \in 0 .. MaxChunks - 1, NEW q \in 0 .. PerChunk - 1,
         DOMAIN keystream = 0 .. MaxChunks * ChunkBytes - 1
  PROVE  Word(Chunk(n), q * WordBytes) = Word(keystream, (n * PerChunk + q) * WordBytes)
<1> DEFINE pos == q * WordBytes
           at == (n * PerChunk + q) * WordBytes
           base == n * ChunkBytes
           end == MaxChunks * ChunkBytes
<1>1. /\ WordBytes \in Nat \ {0} /\ ChunkBytes \in Nat \ {0} /\ PerChunk \in Nat \ {0}
      /\ MaxChunks \in Nat /\ ChunkBytes = PerChunk * WordBytes /\ n \in Nat /\ q \in Nat
  BY Constants
<1>2. pos \in Nat /\ base \in Nat
  BY <1>1
<1>3. pos + WordBytes <= ChunkBytes
  <2>1. (PerChunk - 1 - q) * WordBytes >= 0
    BY <1>1
  <2>2. (PerChunk - 1 - q) * WordBytes = (PerChunk * WordBytes - WordBytes) - q * WordBytes
    BY <1>1
  <2>3. QED
    BY <1>1, <1>2, <2>1, <2>2
<1>4. base + ChunkBytes <= end /\ end \in Nat
  <2>1. (MaxChunks - 1 - n) * ChunkBytes >= 0 /\ end \in Nat
    BY <1>1
  <2>2. (MaxChunks - 1 - n) * ChunkBytes = (MaxChunks * ChunkBytes - ChunkBytes) - n * ChunkBytes
    BY <1>1
  <2>3. QED
    BY <1>1, <1>2, <2>1, <2>2
<1>5. at = base + pos
  <2>1. at = (n * PerChunk) * WordBytes + q * WordBytes
    BY <1>1
  <2>2. (n * PerChunk) * WordBytes = n * (PerChunk * WordBytes)
    BY <1>1
  <2>3. QED
    BY <1>1, <2>1, <2>2
<1>6. Chunk(n) = [i \in Offsets |-> keystream[base + i]]
  BY DEF Chunk
<1> HIDE DEF pos, at, base, end
<1>7. ASSUME NEW i \in 0 .. WordBytes - 1
      PROVE  (IF pos + i \in DOMAIN Chunk(n) THEN Chunk(n)[pos + i] ELSE 0)
               = IF at + i \in DOMAIN keystream THEN keystream[at + i] ELSE 0
  <2>1. pos + i \in 0 .. ChunkBytes - 1
    BY <1>1, <1>2, <1>3
  <2>2. at + i \in 0 .. end - 1 /\ at + i = base + (pos + i)
    BY <1>1, <1>2, <1>3, <1>4, <1>5
  <2>3. pos + i \in DOMAIN Chunk(n) /\ Chunk(n)[pos + i] = keystream[base + (pos + i)]
    BY <1>6, <2>1 DEF Offsets
  <2>4. at + i \in DOMAIN keystream
    BY <2>2 DEF end
  <2>5. QED
    BY <2>2, <2>3, <2>4
<1>8. Word(Chunk(n), pos) = Word(keystream, at)
  BY <1>7 DEF Word
<1>9. QED
  BY <1>8 DEF pos, at

----------------------------------------------------------------------------
(* Rejection sampling. *)

LEMMA UINT64_MAXType == UINT64_MAX \in Nat /\ WordValues = UINT64_MAX + 1
<1>1. WordValues \in Nat \ {0}
  BY Constants, PowerSteps DEF WordValues
<1>2. QED
  BY <1>1 DEF UINT64_MAX

\* The limit is the greatest multiple of the range below the greatest word, and
\* more than half of that.
LEMMA LimitFacts ==
  ASSUME range_ \in 1 .. UINT64_MAX
  PROVE  /\ Limit = range_ * (UINT64_MAX \div range_) /\ UINT64_MAX \div range_ \in Nat
         /\ Limit \in 1 .. UINT64_MAX /\ 2 * Limit >= WordValues /\ range_ \in Nat \ {0}
<1> DEFINE u == UINT64_MAX
           q == u \div range_
           r == u % range_
<1>1. u \in Nat /\ range_ \in Nat \ {0} /\ range_ <= u
  BY UINT64_MAXType
<1>2. Limit = u - r
  BY DEF Limit, LimitWith
<1> HIDE DEF u
<1>3. q \in Nat /\ r \in 0 .. range_ - 1 /\ u = range_ * q + r
  BY <1>1
<1> HIDE DEF q, r
<1>4. range_ * q \in Nat
  BY <1>1, <1>3
<1>5. q # 0
  <2> SUFFICES ASSUME q = 0 PROVE FALSE
    OBVIOUS
  <2>1. range_ * q = 0
    BY <1>1
  <2>2. QED
    BY <1>1, <1>3, <2>1
<1>6. range_ * q >= range_
  <2>1. q - 1 \in Nat
    BY <1>3, <1>5
  <2>2. range_ * q = range_ + range_ * (q - 1) /\ range_ * (q - 1) \in Nat
    BY <1>1, <1>3, <2>1
  <2> DEFINE rest == range_ * (q - 1)
             all == range_ * q
  <2>3. all = range_ + rest /\ rest \in Nat
    BY <2>2
  <2> HIDE DEF rest, all
  <2>4. all >= range_
    BY <1>1, <2>3
  <2>5. QED
    BY <2>4 DEF all
<1>7. Limit = range_ * q
  BY <1>2, <1>3, <1>4
<1>8. Limit \in 1 .. u
  BY <1>1, <1>3, <1>4, <1>6, <1>7
<1>9. 2 * Limit >= u + 1
  BY <1>1, <1>3, <1>4, <1>6, <1>7
<1>10. QED
  BY <1>1, <1>3, <1>7, <1>8, <1>9, UINT64_MAXType DEF u, q

\* Division with remainder is unique.
LEMMA Division ==
  ASSUME NEW b \in Nat \ {0}, NEW q \in Nat, NEW r \in 0 .. b - 1
  PROVE  (b * q + r) % b = r /\ (b * q + r) \div b = q
<1> DEFINE n == b * q + r
<1>1. n \in Nat /\ n = b * q + r
  OBVIOUS
<1> HIDE DEF n
<1>2. n % b = r /\ n \div b = q
  BY <1>1
<1>3. QED
  BY <1>2 DEF n

\* The words below the limit that give v are as many as the range goes into it.
LEMMA Share ==
  ASSUME NEW b \in Nat \ {0}, NEW q \in Nat, NEW v \in 0 .. b - 1
  PROVE  Cardinality({raw \in 0 .. b * q - 1 : raw % b = v}) = q
<1> DEFINE S == {raw \in 0 .. b * q - 1 : raw % b = v}
           K == 0 .. q - 1
           f == [k \in K |-> b * k + v]
<1>1. ASSUME NEW k \in K PROVE f[k] \in S /\ f[k] \div b = k
  <2>1. k \in Nat /\ b * k \in Nat
    OBVIOUS
  <2>2. (b * k + v) % b = v /\ (b * k + v) \div b = k
    BY <2>1, Division
  <2>3. b * k + v \in 0 .. b * q - 1
    <3>1. b * (q - 1 - k) >= 0
      BY <2>1
    <3>2. b * (q - 1 - k) = (b * q - b) - b * k
      BY <2>1
    <3>3. b * q \in Nat
      OBVIOUS
    <3>4. QED
      BY <2>1, <3>1, <3>2, <3>3
  <2>4. QED
    BY <2>2, <2>3
<1>2. ASSUME NEW raw \in S PROVE \E k \in K : f[k] = raw
  <2> DEFINE k == raw \div b
  <2>1. raw \in Nat /\ raw < b * q /\ raw % b = v /\ b * q \in Nat
    OBVIOUS
  <2>2. k \in Nat /\ raw = b * k + v
    BY <2>1
  <2> HIDE DEF k
  <2>3. k < q
    <3> SUFFICES ASSUME k >= q PROVE FALSE
      BY <2>2
    <3>1. b * k = b * q + b * (k - q) /\ b * (k - q) >= 0
      BY <2>2
    <3>2. b * k \in Nat
      BY <2>2
    <3>3. QED
      BY <2>1, <2>2, <3>1, <3>2
  <2>4. k \in K
    BY <2>2, <2>3
  <2>5. QED
    BY <2>2, <2>4
<1> HIDE DEF f, S
<1>3. f \in [K -> S]
  BY <1>1 DEF f
<1>4. f \in Bijection(K, S)
  <2>1. \A x, y \in K : f[x] = f[y] => x = y
    BY <1>1
  <2>2. \A raw \in S : \E k \in K : f[k] = raw
    BY <1>2
  <2>3. QED
    BY <1>3, <2>1, <2>2 DEF Bijection, Injection, Surjection, IsInjective
<1>5. IsFiniteSet(K) /\ Cardinality(K) = q
  BY FS_Interval
<1>6. Cardinality(S) = Cardinality(K)
  BY <1>4, <1>5, FS_Bijection DEF ExistsBijection
<1>7. QED
  BY <1>5, <1>6 DEF S

LEMMA SamplingIsUniform == range_ \in 1 .. UINT64_MAX => Uniform
<1> SUFFICES ASSUME range_ \in 1 .. UINT64_MAX PROVE Uniform
  OBVIOUS
<1> DEFINE q == UINT64_MAX \div range_
           Accepted == {raw \in 0 .. UINT64_MAX : raw < Limit}
<1>1. /\ Limit = range_ * q /\ q \in Nat /\ Limit \in 1 .. UINT64_MAX /\ 2 * Limit >= WordValues
      /\ range_ \in Nat \ {0} /\ UINT64_MAX \in Nat
  BY LimitFacts, UINT64_MAXType
<1>2. Accepted = 0 .. Limit - 1
  BY <1>1
<1> HIDE DEF q
<1>3. Cardinality(Accepted) = Limit
  <2> DEFINE n == Limit - 1
  <2>1. 0 \in Int /\ n \in Nat /\ (n - 0) + 1 = Limit
    BY <1>1
  <2>2. Accepted = 0 .. n
    BY <1>2
  <2> HIDE DEF n
  <2>3. Cardinality(0 .. n) = n - 0 + 1
    BY <2>1, FS_Interval
  <2>4. QED
    BY <2>1, <2>2, <2>3
<1>4. Limit \div range_ = q
  <2>1. (range_ * q + 0) \div range_ = q
    BY <1>1, Division
  <2>2. QED
    BY <1>1, <2>1
<1>5. ASSUME NEW v \in 0 .. range_ - 1
      PROVE  Cardinality({raw \in Accepted : ValueOf(raw) = v}) = q
  <2>1. {raw \in Accepted : ValueOf(raw) = v} = {raw \in 0 .. range_ * q - 1 : raw % range_ = v}
    BY <1>1, <1>2 DEF ValueOf
  <2>2. Cardinality({raw \in 0 .. range_ * q - 1 : raw % range_ = v}) = q
    BY <1>1, Share
  <2>3. QED
    BY <2>1, <2>2
<1>6. QED
  BY <1>1, <1>3, <1>4, <1>5 DEF Uniform

----------------------------------------------------------------------------
(* What the words of the keystream give. *)

Typed == keystream \in [0 .. MaxChunks * ChunkBytes - 1 -> Bytes] /\ range_ \in 1 .. UINT64_MAX

\* drawn lists what the first words give.
Drawing(drawn, n) ==
  drawn \in [0 .. n -> Seq(0 .. range_ - 1)] /\ drawn[0] = <<>>
  /\ \A i \in 1 .. n : drawn[i] = OneMore(drawn[i - 1], i - 1)

LEMMA ValueType ==
  ASSUME Typed, NEW raw \in Nat
  PROVE  ValueOf(raw) \in 0 .. range_ - 1
<1>1. range_ \in Nat \ {0}
  BY LimitFacts DEF Typed
<1>2. QED
  BY <1>1 DEF ValueOf

\* z begins t, element by element.
Begins(z, t) == Len(z) <= Len(t) /\ \A i \in 1 .. Len(z) : z[i] = t[i]

LEMMA Cut ==
  ASSUME NEW S, NEW z \in Seq(S), NEW n \in 0 .. Len(z)
  PROVE  /\ SubSeq(z, 1, n) \in Seq(S) /\ Len(SubSeq(z, 1, n)) = n
         /\ \A i \in 1 .. n : SubSeq(z, 1, n)[i] = z[i]
<1>1. 1 \in Int /\ n \in Int /\ \A i \in 1 .. n : z[i] \in S
  OBVIOUS
<1>2. /\ SubSeq(z, 1, n) \in Seq(S)
      /\ Len(SubSeq(z, 1, n)) = IF 1 <= n THEN n - 1 + 1 ELSE 0
      /\ \A i \in 1 .. n - 1 + 1 : SubSeq(z, 1, n)[i] = z[1 + i - 1]
  BY <1>1, SubSeqProperties
<1>3. n - 1 + 1 = n /\ \A i \in 1 .. n : 1 + i - 1 = i
  BY <1>1
<1>4. QED
  BY <1>1, <1>2, <1>3

LEMMA PrefixIs ==
  ASSUME NEW S, NEW z \in Seq(S), NEW t \in Seq(S)
  PROVE  IsPrefix(z, t) <=> Begins(z, t)
<1>1. ASSUME Len(z) <= Len(t) PROVE IsPrefix(z, t) <=> Begins(z, t)
  <2> DEFINE n == Len(z)
             a == SubSeq(z, 1, n)
             b == SubSeq(t, 1, n)
  <2>1. n \in 0 .. Len(z) /\ n \in 0 .. Len(t)
    BY <1>1
  <2>2. a \in Seq(S) /\ Len(a) = n /\ \A i \in 1 .. n : a[i] = z[i]
    BY <2>1, Cut
  <2>3. b \in Seq(S) /\ Len(b) = n /\ \A i \in 1 .. n : b[i] = t[i]
    BY <2>1, Cut
  <2>4. IsPrefix(z, t) <=> a = b
    BY <1>1 DEF IsPrefix
  <2>5. Begins(z, t) <=> \A i \in 1 .. n : z[i] = t[i]
    BY <1>1 DEF Begins
  <2> HIDE DEF a, b, n
  <2>6. ASSUME \A i \in 1 .. n : z[i] = t[i] PROVE a = b
    <3>1. \A i \in 1 .. Len(a) : a[i] = b[i]
      BY <2>2, <2>3, <2>6
    <3>2. QED
      BY <2>2, <2>3, <3>1, SeqEqual
  <2>7. ASSUME a = b PROVE \A i \in 1 .. n : z[i] = t[i]
    BY <2>2, <2>3, <2>7
  <2>8. QED
    BY <2>4, <2>5, <2>6, <2>7
<1>2. CASE ~ (Len(z) <= Len(t))
  BY <1>2 DEF IsPrefix, Begins
<1>3. QED
  BY <1>1, <1>2

LEMMA OneMoreType ==
  ASSUME Typed, NEW z \in Seq(0 .. range_ - 1), NEW i \in Nat
  PROVE  /\ OneMore(z, i) \in Seq(0 .. range_ - 1)
         /\ IsPrefix(z, OneMore(z, i))
<1> DEFINE raw == Word(keystream, i * WordBytes)
           S == 0 .. range_ - 1
<1>1. raw \in Nat
  BY WordType DEF Typed
<1> HIDE DEF raw
<1>2. ValueOf(raw) \in S
  BY <1>1, ValueType
<1>3. OneMore(z, i) = IF raw < Limit THEN Append(z, ValueOf(raw)) ELSE z
  BY DEF OneMore, raw
<1> DEFINE t == Append(z, ValueOf(raw))
<1>4. z \in Seq(S) /\ Len(z) \in Nat
  OBVIOUS
<1> HIDE DEF S
<1>5. /\ t \in Seq(S) /\ Len(t) = Len(z) + 1
      /\ \A j \in 1 .. Len(z) : t[j] = z[j]
  BY <1>2, <1>4, AppendProperties
<1> HIDE DEF t
<1>6. IsPrefix(z, z)
  BY <1>4 DEF IsPrefix
<1>7. IsPrefix(z, t)
  BY <1>4, <1>5, PrefixIs DEF Begins
<1>8. QED
  BY <1>3, <1>4, <1>5, <1>6, <1>7 DEF S, t

LEMMA DrawingExists ==
  ASSUME Typed, NEW n \in Nat
  PROVE  \E drawn : Drawing(drawn, n)
<1> DEFINE T == {m \in 0 .. n : \E drawn : Drawing(drawn, m)}
           S == Seq(0 .. range_ - 1)
<1>1. 0 \in T
  <2>1. Drawing([k \in 0 .. 0 |-> <<>>], 0)
    BY EmptySeq DEF Drawing
  <2>2. QED
    BY <2>1
<1>2. ASSUME NEW k \in 0 .. n - 1, k \in T PROVE k + 1 \in T
  <2>1. PICK f : Drawing(f, k)
    BY <1>2
  <2> DEFINE next == OneMore(f[k], k)
             g == [i \in 0 .. k + 1 |-> IF i = k + 1 THEN next ELSE f[i]]
  <2>2. next \in S
    <3>1. f[k] \in S /\ k \in Nat
      BY <2>1 DEF Drawing
    <3>2. QED
      BY <3>1, OneMoreType
  <2>3. next = OneMore(f[k], k)
    OBVIOUS
  <2> HIDE DEF next
  <2>4. \A i \in 0 .. k : g[i] = f[i] /\ f[i] \in S
    BY <2>1 DEF Drawing
  <2>5. g \in [0 .. k + 1 -> S] /\ g[0] = <<>> /\ g[k + 1] = OneMore(g[k], k)
    BY <2>1, <2>2, <2>3, <2>4 DEF Drawing
  <2> HIDE DEF g
  <2>6. \A i \in 1 .. k + 1 : g[i] = OneMore(g[i - 1], i - 1)
    <3> SUFFICES ASSUME NEW i \in 1 .. k + 1 PROVE g[i] = OneMore(g[i - 1], i - 1)
      OBVIOUS
    <3>1. CASE i = k + 1
      <4>1. i - 1 = k
        BY <3>1
      <4>2. QED
        BY <2>5, <3>1, <4>1
    <3>2. CASE i # k + 1
      <4>1. i \in 1 .. k /\ i \in 0 .. k /\ i - 1 \in 0 .. k
        BY <3>2
      <4>2. f[i] = OneMore(f[i - 1], i - 1)
        BY <2>1, <4>1 DEF Drawing
      <4>3. QED
        BY <2>4, <4>1, <4>2
    <3>3. QED
      BY <3>1, <3>2
  <2>7. Drawing(g, k + 1)
    BY <2>5, <2>6 DEF Drawing
  <2>8. QED
    BY <2>7
<1> HIDE DEF T
<1>3. n \in T
  BY <1>1, <1>2, Induction
<1>4. QED
  BY <1>3 DEF T

LEMMA DrawnIs ==
  ASSUME NEW n \in Nat, NEW drawn, Drawing(drawn, n)
  PROVE  Drawn(n) = drawn[n]
<1> DEFINE Def(g) == g = [i \in 0 .. n |-> IF i = 0 THEN <<>> ELSE OneMore(g[i - 1], i - 1)]
           g == CHOOSE g : Def(g)
           T == {i \in 0 .. n : g[i] = drawn[i]}
<1>1. Def(drawn)
  BY DEF Drawing
<1>2. Def(g)
  BY <1>1
<1>3. Drawn(n) = g[n]
  BY DEF Drawn
<1>4. ASSUME NEW i \in 0 .. n, i # 0 PROVE g[i] = OneMore(g[i - 1], i - 1)
  BY <1>2, <1>4
<1> HIDE DEF g
<1>5. 0 \in T
  <2>1. 0 \in 0 .. n /\ drawn[0] = <<>>
    BY DEF Drawing
  <2>2. g[0] = <<>>
    BY <1>2, <2>1
  <2>3. QED
    BY <2>1, <2>2
<1>6. ASSUME NEW k \in 0 .. n - 1, k \in T PROVE k + 1 \in T
  <2>1. k + 1 \in 0 .. n /\ k + 1 # 0 /\ (k + 1) - 1 = k /\ k + 1 \in 1 .. n
    OBVIOUS
  <2>2. g[k + 1] = OneMore(g[k], k)
    BY <1>4, <2>1
  <2>3. drawn[k + 1] = OneMore(drawn[k], k)
    BY <2>1 DEF Drawing
  <2>4. g[k + 1] = drawn[k + 1]
    BY <1>6, <2>2, <2>3
  <2>5. QED
    BY <2>1, <2>4
<1> HIDE DEF T
<1>7. n \in T
  BY <1>5, <1>6, Induction
<1>8. QED
  BY <1>3, <1>7 DEF T

\* One word more gives at most one value more.
LEMMA DrawnSteps ==
  ASSUME Typed, NEW n \in Nat
  PROVE  /\ Drawn(0) = <<>> /\ Drawn(n) \in Seq(0 .. range_ - 1)
         /\ Drawn(n + 1) = OneMore(Drawn(n), n)
<1>1. PICK f : Drawing(f, n + 1)
  BY DrawingExists
<1>2. \A i \in 0 .. n + 1 : Drawn(i) = f[i]
  <2> SUFFICES ASSUME NEW i \in 0 .. n + 1 PROVE Drawn(i) = f[i]
    OBVIOUS
  <2> DEFINE g == [j \in 0 .. i |-> f[j]]
  <2>1. Drawing(g, i)
    BY <1>1 DEF Drawing
  <2>2. Drawn(i) = g[i]
    BY <2>1, DrawnIs
  <2>3. QED
    BY <2>2
<1>3. QED
  BY <1>1, <1>2 DEF Drawing

\* What fewer words give begins what more words give.
LEMMA FewerWordsBegin ==
  ASSUME Typed, NEW n \in Nat, NEW m \in Nat, n <= m
  PROVE  IsPrefix(Drawn(n), Drawn(m))
<1> DEFINE S == 0 .. range_ - 1
           T == {d \in 0 .. m - n : Begins(Drawn(n), Drawn(n + d))}
<1>0. \A i \in Nat : Drawn(i) \in Seq(S)
  BY DrawnSteps
<1>1. 0 \in T
  <2>1. Begins(Drawn(n), Drawn(n))
    BY <1>0 DEF Begins
  <2>2. n + 0 = n
    OBVIOUS
  <2>3. QED
    BY <2>1, <2>2
<1>2. ASSUME NEW k \in 0 .. (m - n) - 1, k \in T PROVE k + 1 \in T
  <2> DEFINE a == Drawn(n)
             b == Drawn(n + k)
             c == Drawn((n + k) + 1)
  <2>1. n + k \in Nat /\ (n + k) + 1 \in Nat
    OBVIOUS
  <2>2. a \in Seq(S) /\ b \in Seq(S) /\ c \in Seq(S)
    BY <1>0, <2>1
  <2>3. IsPrefix(b, c)
    BY <2>1, <2>2, DrawnSteps, OneMoreType
  <2>4. Begins(a, b)
    BY <1>2
  <2>5. n + (k + 1) = (n + k) + 1
    OBVIOUS
  <2> HIDE DEF a, b, c, S
  <2>6. Begins(b, c)
    BY <2>2, <2>3, PrefixIs
  <2>7. Begins(a, c)
    BY <2>2, <2>4, <2>6 DEF Begins
  <2>8. QED
    BY <2>5, <2>7 DEF a, c
<1>3. m - n \in T
  <2> HIDE DEF T
  <2>1. m - n \in Nat
    OBVIOUS
  <2>2. \A k \in 0 .. m - n : k \in T
    BY <1>1, <1>2, <2>1, Induction
  <2>3. QED
    BY <2>1, <2>2
<1>4. Begins(Drawn(n), Drawn(m))
  BY <1>3
<1>5. QED
  BY <1>0, <1>4, PrefixIs

----------------------------------------------------------------------------
(* The inductive invariant. *)

\* r has read whole words of the chunk it holds, which is the last that its
\* cipher has produced.
InChunk(r) ==
  \E q \in 0 .. PerChunk :
    /\ buffer_pos_[r] = q * WordBytes
    /\ counter[r] = 0 => q = PerChunk
    /\ counter[r] # 0 => buffer_[r] = Chunk(counter[r] - 1)

IInv == TypeOK /\ \A r \in Replicas : InChunk(r) /\ values[r] = Drawn(WordsRead(r))

LEMMA TypedHolds == TypeOK => Typed /\ DOMAIN keystream = 0 .. MaxChunks * ChunkBytes - 1
BY DEF TypeOK, Typed

\* The words read, and how much of the buffer is left, by the words of the chunk.
LEMMA WordsReadIs ==
  ASSUME NEW r, NEW q \in 0 .. PerChunk, NEW c \in Nat, counter[r] = c,
         buffer_pos_[r] = q * WordBytes
  PROVE  /\ WordsRead(r) = IF c = 0 THEN 0 ELSE (c - 1) * PerChunk + q
         /\ Refills(r) <=> q = PerChunk
<1>1. /\ WordBytes \in Nat \ {0} /\ PerChunk \in Nat \ {0} /\ ChunkBytes = PerChunk * WordBytes
      /\ q \in Nat
  BY Constants
<1>2. (q * WordBytes) \div WordBytes = q
  <2>1. (WordBytes * q + 0) \div WordBytes = q
    BY <1>1, Division
  <2>2. WordBytes * q + 0 = q * WordBytes
    BY <1>1
  <2>3. QED
    BY <2>1, <2>2
<1>3. WordsRead(r) = IF c = 0 THEN 0 ELSE (c - 1) * PerChunk + q
  BY <1>2 DEF WordsRead, PerChunk
<1>4. Refills(r) <=> q * WordBytes + WordBytes > ChunkBytes
  BY DEF Refills, RefillsWith
<1>5. q * WordBytes \in Nat /\ PerChunk * WordBytes \in Nat
  BY <1>1
<1>6. CASE q = PerChunk
  BY <1>1, <1>3, <1>4, <1>5, <1>6
<1>7. CASE q # PerChunk
  <2>1. PerChunk - 1 - q \in Nat
    <3>1. PerChunk \in Nat /\ q \in Nat /\ q <= PerChunk /\ q # PerChunk
      BY <1>1, <1>7
    <3>2. QED
      BY <3>1
  <2>2. (PerChunk - 1 - q) * WordBytes >= 0
    BY <1>1, <2>1
  <2>3. (PerChunk - 1 - q) * WordBytes = (PerChunk * WordBytes - WordBytes) - q * WordBytes
    BY <1>1
  <2>4. q * WordBytes + WordBytes <= PerChunk * WordBytes
    BY <1>1, <1>5, <2>2, <2>3
  <2>5. ~ (q * WordBytes + WordBytes > ChunkBytes)
    BY <1>1, <1>5, <2>4
  <2>6. QED
    BY <1>3, <1>4, <1>7, <2>5
<1>8. QED
  BY <1>6, <1>7

LEMMA InitInvariant == Init => IInv
<1> SUFFICES ASSUME Init PROVE IInv
  OBVIOUS
<1>1. TypeOK
  <2>1. 0 \in Bytes
    BY Constants DEF Bytes
  <2>2. ChunkBytes \in 0 .. ChunkBytes /\ 0 \in 0 .. MaxChunks
    BY Constants
  <2>3. <<>> \in Seq(0 .. range_ - 1)
    BY EmptySeq
  <2>4. QED
    BY <2>1, <2>2, <2>3 DEF Init, TypeOK
<1>2. ASSUME NEW r \in Replicas PROVE InChunk(r) /\ values[r] = Drawn(WordsRead(r))
  <2>1. counter[r] = 0 /\ buffer_pos_[r] = PerChunk * WordBytes /\ values[r] = <<>>
    BY Constants DEF Init
  <2>2. InChunk(r)
    BY <2>1, Constants DEF InChunk
  <2>3. Drawn(0) = <<>>
    <3>1. 0 \in Nat
      OBVIOUS
    <3>2. QED
      BY <1>1, <3>1, TypedHolds, DrawnSteps
  <2>4. WordsRead(r) = 0
    BY <2>1 DEF WordsRead
  <2>5. QED
    BY <2>1, <2>2, <2>3, <2>4
<1>3. QED
  BY <1>1, <1>2 DEF IInv

\* Drawing a word that is the next one of the keystream.
LEMMA DrawInvariant ==
  ASSUME IInv, NEW r \in Replicas, NEW c \in 0 .. MaxChunks - 1, NEW q \in 0 .. PerChunk - 1,
         WordsRead(r) = c * PerChunk + q, counter' = [counter EXCEPT ![r] = c + 1],
         DrawFrom(r, Chunk(c), q * WordBytes)
  PROVE  IInv'
<1> DEFINE n == c * PerChunk + q
           at == q * WordBytes
           raw == Word(Chunk(c), at)
<1>1. /\ WordBytes \in Nat \ {0} /\ PerChunk \in Nat \ {0} /\ ChunkBytes = PerChunk * WordBytes
      /\ MaxChunks \in Nat /\ q \in Nat /\ c \in Nat /\ c + 1 \in 0 .. MaxChunks /\ q + 1 \in 0 .. PerChunk
      /\ ChunkBytes \in Nat \ {0}
  BY Constants
<1>2. n \in Nat /\ at \in Nat
  BY <1>1
<1>3. /\ buffer_' = [buffer_ EXCEPT ![r] = Chunk(c)]
      /\ buffer_pos_' = [buffer_pos_ EXCEPT ![r] = at + WordBytes]
      /\ keystream' = keystream /\ range_' = range_
      /\ \/ raw >= Limit /\ values' = values
         \/ raw < Limit /\ values' = [values EXCEPT ![r] = Append(@, ValueOf(raw))]
  BY DEF DrawFrom
<1>4. Typed /\ TypeOK /\ DOMAIN keystream = 0 .. MaxChunks * ChunkBytes - 1
  BY TypedHolds DEF IInv
<1>5. raw = Word(keystream, n * WordBytes)
  BY <1>4, ChunkWord
<1>6. raw \in Nat /\ Limit \in Nat
  <2>1. Limit \in Nat
    BY <1>4, LimitFacts DEF Typed
  <2>2. Word(keystream, n * WordBytes) \in Nat
    BY <1>4, WordType DEF Typed
  <2>3. QED
    BY <1>5, <2>1, <2>2
<1>7. values[r] = Drawn(n)
  BY DEF IInv
<1>8. at + WordBytes = (q + 1) * WordBytes /\ at + WordBytes \in 0 .. ChunkBytes
  <2>1. at + WordBytes = (q + 1) * WordBytes
    BY <1>1
  <2>2. (PerChunk - 1 - q) * WordBytes >= 0
    BY <1>1
  <2>3. (PerChunk - 1 - q) * WordBytes = (PerChunk * WordBytes - WordBytes) - q * WordBytes
    BY <1>1
  <2>4. PerChunk * WordBytes \in Nat
    BY <1>1
  <2>5. QED
    BY <1>1, <1>2, <2>1, <2>2, <2>3, <2>4
<1> HIDE DEF raw, n, at
<1>9. values' = [values EXCEPT ![r] = OneMore(values[r], n)]
  <2>1. OneMore(values[r], n) = IF raw < Limit THEN Append(values[r], ValueOf(raw)) ELSE values[r]
    BY <1>5 DEF OneMore
  <2>2. CASE raw < Limit
    BY <1>3, <1>6, <2>1, <2>2
  <2>3. CASE ~ (raw < Limit)
    BY <1>3, <1>4, <1>6, <2>1, <2>3 DEF TypeOK
  <2>4. QED
    BY <2>2, <2>3
<1>10. OneMore(values[r], n) = Drawn(n + 1) /\ Drawn(n + 1) \in Seq(0 .. range_ - 1)
  <2>1. n + 1 \in Nat
    BY <1>2
  <2>2. Drawn(n + 1) \in Seq(0 .. range_ - 1)
    BY <1>4, <2>1, DrawnSteps
  <2>3. Drawn(n + 1) = OneMore(Drawn(n), n)
    BY <1>2, <1>4, DrawnSteps
  <2>4. QED
    BY <1>7, <2>2, <2>3
<1>11. Chunk(c) \in [Offsets -> Bytes]
  <2> DEFINE base == c * ChunkBytes
             end == MaxChunks * ChunkBytes
  <2>1. base \in Nat /\ end \in Nat /\ base + ChunkBytes <= end
    <3>1. (MaxChunks - 1 - c) * ChunkBytes >= 0 /\ end \in Nat /\ base \in Nat
      BY <1>1
    <3>2. (MaxChunks - 1 - c) * ChunkBytes = (MaxChunks * ChunkBytes - ChunkBytes) - c * ChunkBytes
      BY <1>1
    <3>3. QED
      BY <1>1, <3>1, <3>2
  <2>2. Chunk(c) = [i \in Offsets |-> keystream[base + i]]
    BY DEF Chunk
  <2>3. keystream \in [0 .. end - 1 -> Bytes]
    BY <1>4 DEF TypeOK
  <2> HIDE DEF base, end
  <2>4. \A i \in Offsets : base + i \in 0 .. end - 1
    BY <1>1, <2>1 DEF Offsets
  <2>5. QED
    BY <2>2, <2>3, <2>4
<1>12. TypeOK'
  <2>1. buffer_' \in [Replicas -> [Offsets -> Bytes]]
    BY <1>3, <1>4, <1>11 DEF TypeOK
  <2>2. buffer_pos_' \in [Replicas -> 0 .. ChunkBytes] /\ counter' \in [Replicas -> 0 .. MaxChunks]
    BY <1>1, <1>3, <1>4, <1>8 DEF TypeOK
  <2>3. values' \in [Replicas -> Seq(0 .. range_ - 1)]
    BY <1>4, <1>9, <1>10 DEF TypeOK
  <2>4. QED
    BY <1>3, <1>4, <2>1, <2>2, <2>3 DEF TypeOK
\* The others, and the keystream, stay.
<1>13. \A i : Drawn(i)' = Drawn(i) /\ Chunk(i)' = Chunk(i)
  BY <1>3 DEF Drawn, Chunk, OneMore, Word, Limit, LimitWith, ValueOf
<1>14. ASSUME NEW other \in Replicas, other # r
       PROVE  InChunk(other)' /\ values'[other] = Drawn(WordsRead(other))'
  <2>1. /\ counter'[other] = counter[other] /\ buffer_pos_'[other] = buffer_pos_[other]
        /\ buffer_'[other] = buffer_[other] /\ values'[other] = values[other]
    BY <1>3, <1>4, <1>9, <1>14 DEF TypeOK
  <2>2. InChunk(other)'
    BY <1>13, <2>1 DEF IInv, InChunk
  <2>3. WordsRead(other)' = WordsRead(other)
    BY <2>1 DEF WordsRead
  <2>4. Drawn(WordsRead(other))' = Drawn(WordsRead(other))
    BY <1>3, <2>3 DEF Drawn, OneMore, Word, Limit, LimitWith, ValueOf
  <2>5. QED
    BY <2>1, <2>2, <2>4 DEF IInv
<1>15. InChunk(r)' /\ values'[r] = Drawn(WordsRead(r))'
  <2>1. /\ counter'[r] = c + 1 /\ buffer_pos_'[r] = (q + 1) * WordBytes
        /\ buffer_'[r] = Chunk(c) /\ values'[r] = Drawn(n + 1)
    BY <1>3, <1>4, <1>8, <1>9, <1>10 DEF TypeOK
  <2>2. InChunk(r)'
    <3>1. c + 1 # 0 /\ (c + 1) - 1 = c
      BY <1>1
    <3>2. Chunk(counter[r] - 1)' = Chunk(c)
      BY <1>3, <2>1, <3>1 DEF Chunk
    <3>3. counter'[r] # 0 /\ buffer_'[r] = Chunk(counter[r] - 1)'
      BY <2>1, <3>1, <3>2
    <3>4. q + 1 \in 0 .. PerChunk /\ buffer_pos_'[r] = (q + 1) * WordBytes
      BY <1>1, <2>1
    <3>5. QED
      BY <3>3, <3>4 DEF InChunk
  <2>3. WordsRead(r)' = n + 1
    <3> DEFINE d == c + 1
               p == q + 1
    <3>1. p \in 0 .. PerChunk /\ d \in Nat /\ d # 0 /\ d - 1 = c
      BY <1>1
    <3>2. (p * WordBytes) \div WordBytes = p
      <4>1. p \in Nat /\ (WordBytes * p + 0) \div WordBytes = p
        BY <1>1, Division
      <4>2. WordBytes * p + 0 = p * WordBytes
        BY <1>1
      <4>3. QED
        BY <4>1, <4>2
    <3>3. counter'[r] = d /\ buffer_pos_'[r] = p * WordBytes
      BY <2>1
    <3>4. WordsRead(r)' = (d - 1) * PerChunk + p
      BY <3>1, <3>2, <3>3 DEF WordsRead, PerChunk
    <3>5. (d - 1) * PerChunk + p = n + 1
      BY <1>1, <3>1 DEF n
    <3>6. QED
      BY <3>4, <3>5
  <2>4. Drawn(WordsRead(r))' = Drawn(n + 1)
    BY <1>3, <2>3 DEF Drawn, OneMore, Word, Limit, LimitWith, ValueOf
  <2>5. QED
    BY <2>1, <2>2, <2>4
<1>16. QED
  BY <1>12, <1>14, <1>15 DEF IInv

LEMMA StepInvariant == IInv /\ [Next]_vars => IInv'
<1> SUFFICES ASSUME IInv, [Next]_vars PROVE IInv'
  OBVIOUS
<1>1. ASSUME NEW r \in Replicas, DrawAfterRefill(r) PROVE IInv'
  <2> DEFINE c == counter[r]
  <2>1. PICK q \in 0 .. PerChunk :
          /\ buffer_pos_[r] = q * WordBytes /\ (c = 0 => q = PerChunk)
          /\ c # 0 => buffer_[r] = Chunk(c - 1)
    BY DEF IInv, InChunk
  <2>2. c \in 0 .. MaxChunks - 1 /\ c \in Nat
    BY <1>1, Constants DEF DrawAfterRefill, IInv, TypeOK
  <2>3. /\ WordsRead(r) = IF c = 0 THEN 0 ELSE (c - 1) * PerChunk + q
        /\ Refills(r) <=> q = PerChunk
    BY <2>1, <2>2, WordsReadIs
  <2>4. /\ Refills(r) /\ counter' = [counter EXCEPT ![r] = c + 1]
        /\ DrawFrom(r, Chunk(c), 0)
    BY <1>1 DEF DrawAfterRefill, NextChunk
  <2> HIDE DEF c
  <2>5. WordsRead(r) = c * PerChunk + 0 /\ 0 \in 0 .. PerChunk - 1 /\ 0 * WordBytes = 0
    BY <2>2, <2>3, <2>4, Constants
  <2>6. QED
    BY <2>2, <2>4, <2>5, DrawInvariant
<1>2. ASSUME NEW r \in Replicas, DrawFromBuffer(r) PROVE IInv'
  <2> DEFINE c == counter[r]
             d == c - 1
  <2>1. PICK q \in 0 .. PerChunk :
          /\ buffer_pos_[r] = q * WordBytes /\ (c = 0 => q = PerChunk)
          /\ c # 0 => buffer_[r] = Chunk(c - 1)
    BY DEF IInv, InChunk
  <2>2. c \in 0 .. MaxChunks /\ c \in Nat
    BY Constants DEF IInv, TypeOK
  <2>3. /\ WordsRead(r) = IF c = 0 THEN 0 ELSE (c - 1) * PerChunk + q
        /\ Refills(r) <=> q = PerChunk
    BY <2>1, <2>2, WordsReadIs
  <2>4. /\ ~ Refills(r) /\ counter' = [counter EXCEPT ![r] = c]
        /\ DrawFrom(r, buffer_[r], buffer_pos_[r])
    BY <1>2 DEF DrawFromBuffer, IInv, TypeOK
  <2> HIDE DEF c
  <2>5. c # 0 /\ q # PerChunk
    BY <2>1, <2>3, <2>4
  <2>6. d \in 0 .. MaxChunks - 1 /\ d + 1 = c /\ q \in 0 .. PerChunk - 1
    BY <2>2, <2>5, Constants
  <2>7. DrawFrom(r, Chunk(d), q * WordBytes) /\ WordsRead(r) = d * PerChunk + q
    BY <2>1, <2>3, <2>4, <2>5
  <2>8. counter' = [counter EXCEPT ![r] = d + 1]
    BY <2>4, <2>6
  <2> HIDE DEF d
  <2>9. QED
    BY <2>6, <2>7, <2>8, DrawInvariant
<1>3. CASE UNCHANGED vars
  <2>1. TypeOK'
    BY <1>3 DEF vars, IInv, TypeOK
  <2>2. ASSUME NEW r \in Replicas PROVE InChunk(r)' /\ values'[r] = Drawn(WordsRead(r))'
    <3>1. InChunk(r) /\ values[r] = Drawn(WordsRead(r))
      BY DEF IInv
    <3>2. InChunk(r)'
      BY <1>3, <3>1 DEF vars, InChunk, Chunk
    <3>3. WordsRead(r)' = WordsRead(r)
      BY <1>3 DEF vars, WordsRead
    <3>4. Drawn(WordsRead(r))' = Drawn(WordsRead(r))
      BY <1>3, <3>3 DEF vars, Drawn, OneMore, Word, Limit, LimitWith, ValueOf
    <3>5. QED
      BY <1>3, <3>1, <3>2, <3>4 DEF vars
  <2>3. QED
    BY <2>1, <2>2 DEF IInv
<1>4. QED
  BY <1>1, <1>2, <1>3 DEF Next

LEMMA InvariantHolds == Spec => []IInv
<1>1. QED
  BY InitInvariant, StepInvariant, PTL DEF Spec

----------------------------------------------------------------------------
(* The theorems. *)

\* The words a replica has read are a natural number of them.
LEMMA WordsReadType == ASSUME IInv, NEW r \in Replicas PROVE WordsRead(r) \in Nat
<1>1. PICK q \in 0 .. PerChunk : buffer_pos_[r] = q * WordBytes
  BY DEF IInv, InChunk
<1>2. counter[r] \in Nat
  BY Constants DEF IInv, TypeOK
<1>3. WordsRead(r) = IF counter[r] = 0 THEN 0 ELSE (counter[r] - 1) * PerChunk + q
  BY <1>1, <1>2, WordsReadIs
<1>4. QED
  BY <1>2, <1>3, Constants

\* Rejection below the limit (SeededUniformDistribution::next) leaves each value
\* of the range as many words as every other, and at least half of all words.
THEOREM ValuesAreUniform == Spec => []Uniform
<1>1. IInv => Uniform
  BY SamplingIsUniform DEF IInv, TypeOK
<1>2. QED
  BY <1>1, InvariantHolds, PTL

\* Whatever the chunk, the word and the range, refill_buffer and next_raw_u64
\* read every word of the keystream once and in its order.
THEOREM StreamIsContinuous == Spec => []Continuous
<1>1. IInv => Continuous
  BY DEF IInv, Continuous
<1>2. QED
  BY <1>1, InvariantHolds, PTL

\* Any number of distributions of one seed and range, each at its own pace, draw
\* the same values.
THEOREM SeedsAgree == Spec => []ReplicasAgree
<1>1. IInv => ReplicasAgree
  <2> SUFFICES ASSUME IInv, NEW r \in Replicas, NEW other \in Replicas
               PROVE  IsPrefix(values[r], values[other]) \/ IsPrefix(values[other], values[r])
    BY DEF IInv, ReplicasAgree
  <2> DEFINE n == WordsRead(r)
             m == WordsRead(other)
  <2>1. n \in Nat /\ m \in Nat
    BY WordsReadType
  <2>2. values[r] = Drawn(n) /\ values[other] = Drawn(m) /\ Typed
    BY TypedHolds DEF IInv
  <2> HIDE DEF n, m
  <2>3. CASE n <= m
    BY <2>1, <2>2, <2>3, FewerWordsBegin
  <2>4. CASE ~ (n <= m)
    <3>1. m <= n
      BY <2>1, <2>4
    <3>2. QED
      BY <2>1, <2>2, <3>1, FewerWordsBegin
  <2>5. QED
    BY <2>3, <2>4
<1>2. QED
  BY <1>1, InvariantHolds, PTL

----------------------------------------------------------------------------
(* Bit packing.  Sequences are built one element at a time. *)

\* A set that holds the empty sequence and with a sequence all that are one longer.
LEMMA SequenceInduction ==
  ASSUME NEW S, NEW T, <<>> \in T, \A s1 \in Seq(S), x \in S : s1 \in T => Append(s1, x) \in T
  PROVE  Seq(S) \subseteq T
<1> SUFFICES ASSUME NEW t \in Seq(S) PROVE t \in T
  OBVIOUS
<1> DEFINE n == Len(t)
           K == {k \in 0 .. n : SubSeq(t, 1, k) \in T}
<1>1. n \in Nat
  OBVIOUS
<1>2. 0 \in K
  <2>1. SubSeq(t, 1, 0) = <<>>
    BY SubSeqEmpty
  <2>2. 0 \in 0 .. n
    BY <1>1
  <2> HIDE DEF n
  <2>3. QED
    BY <2>1, <2>2
<1>3. ASSUME NEW k \in 0 .. n - 1, k \in K PROVE k + 1 \in K
  <2>1. k + 1 \in 1 .. Len(t)
    BY <1>1
  <2>2. SubSeq(t, 1, k + 1) = SubSeq(t, 1, k) \o <<t[k + 1]>>
    <3>1. 1 \in 1 .. Len(t) /\ k + 1 \in 1 .. Len(t) /\ (k + 1) - 1 = k
      BY <1>1
    <3>2. QED
      BY <3>1, SubSeqRecursiveSecond
  <2>3. SubSeq(t, 1, k) \in Seq(S) /\ t[k + 1] \in S
    <3>1. 1 \in Int /\ k \in Int /\ \A i \in 1 .. k : t[i] \in S
      BY <1>1
    <3>2. QED
      BY <2>1, <3>1, SubSeqProperties
  <2>4. SubSeq(t, 1, k + 1) = Append(SubSeq(t, 1, k), t[k + 1])
    BY <2>2, <2>3, AppendIsConcat
  <2>5. SubSeq(t, 1, k + 1) \in T
    BY <1>3, <2>3, <2>4
  <2>6. k + 1 \in 0 .. n
    BY <1>1
  <2> HIDE DEF n
  <2>7. QED
    BY <2>5, <2>6
<1> HIDE DEF K, n
<1>4. n \in K
  <2>1. \A k \in 0 .. n : k \in K
    BY <1>1, <1>2, <1>3, Induction
  <2>2. QED
    BY <1>1, <2>1
<1>5. SubSeq(t, 1, n) = t
  BY SubSeqFull DEF n
<1>6. QED
  BY <1>4, <1>5 DEF K

----------------------------------------------------------------------------
(* Powers of two. *)

LEMMA PowerIsPositive == ASSUME NEW k \in Nat PROVE 2 ^ k \in Nat \ {0}
<1>1. IsFiniteSet(1 .. k) /\ Cardinality(1 .. k) = k
  BY FS_Interval
<1>2. IsFiniteSet(SUBSET (1 .. k)) /\ Cardinality(SUBSET (1 .. k)) = 2 ^ k
  BY <1>1, FS_SUBSET
<1>3. SUBSET (1 .. k) # {}
  OBVIOUS
<1>4. Cardinality(SUBSET (1 .. k)) \in Nat /\ Cardinality(SUBSET (1 .. k)) # 0
  BY <1>2, <1>3, FS_EmptySet, FS_CardinalityType
<1>5. QED
  BY <1>2, <1>4

\* A set has twice as many subsets with one element more.
LEMMA PowerStep == ASSUME NEW k \in Nat PROVE 2 ^ 0 = 1 /\ 2 ^ (k + 1) = 2 * 2 ^ k
<1>1. \A n \in Nat : IsFiniteSet(SUBSET (1 .. n)) /\ Cardinality(SUBSET (1 .. n)) = 2 ^ n
  <2> SUFFICES ASSUME NEW n \in Nat
               PROVE  IsFiniteSet(SUBSET (1 .. n)) /\ Cardinality(SUBSET (1 .. n)) = 2 ^ n
    OBVIOUS
  <2>1. IsFiniteSet(1 .. n) /\ Cardinality(1 .. n) = n
    BY FS_Interval
  <2>2. QED
    BY <2>1, FS_SUBSET
<1>2. 2 ^ 0 = 1
  <2>1. SUBSET (1 .. 0) = {{}}
    OBVIOUS
  <2>2. Cardinality({{}}) = 1
    BY FS_Singleton
  <2>3. QED
    BY <1>1, <2>1, <2>2
<1> DEFINE A == SUBSET (1 .. k)
           B == {a \cup {k + 1} : a \in A}
           f == [a \in A |-> a \cup {k + 1}]
<1>3. SUBSET (1 .. k + 1) = A \cup B
  <2>1. 1 .. k + 1 = (1 .. k) \cup {k + 1}
    OBVIOUS
  <2>2. ASSUME NEW x \in SUBSET (1 .. k + 1), x \notin A PROVE x \in B
    <3>1. x \ {k + 1} \in A /\ x = (x \ {k + 1}) \cup {k + 1}
      BY <2>1, <2>2
    <3>2. QED
      BY <3>1
  <2>3. A \cup B \subseteq SUBSET (1 .. k + 1)
    BY <2>1
  <2>4. QED
    BY <2>2, <2>3
<1>4. A \cap B = {}
  <2>1. ~ (k + 1 \in 1 .. k)
    OBVIOUS
  <2>2. QED
    BY <2>1
<1>5. IsFiniteSet(B) /\ Cardinality(B) = Cardinality(A)
  <2>1. f \in Bijection(A, B)
    <3>1. \A a \in A : f[a] \ {k + 1} = a
      <4>1. ~ (k + 1 \in 1 .. k)
        OBVIOUS
      <4>2. QED
        BY <4>1
    <3>2. f \in [A -> B] /\ \A b \in B : \E a \in A : f[a] = b
      OBVIOUS
    <3> HIDE DEF f
    <3>3. \A a, b \in A : f[a] = f[b] => a = b
      BY <3>1
    <3>4. QED
      BY <3>2, <3>3 DEF Bijection, Injection, Surjection, IsInjective
  <2>2. ExistsBijection(A, B)
    BY <2>1 DEF ExistsBijection
  <2>3. IsFiniteSet(A)
    BY <1>1
  <2>4. QED
    BY <2>2, <2>3, FS_Bijection
<1> HIDE DEF A, B
<1>6. Cardinality(A \cup B) = Cardinality(A) + Cardinality(B)
  <2>1. IsFiniteSet(A)
    BY <1>1 DEF A
  <2>2. Cardinality(A) \in Nat /\ Cardinality(A \cap B) = 0
    BY <2>1, <1>4, FS_CardinalityType, FS_EmptySet
  <2>3. Cardinality(A \cup B) = Cardinality(A) + Cardinality(B) - Cardinality(A \cap B)
    BY <1>5, <2>1, FS_Union
  <2>4. QED
    BY <1>5, <2>2, <2>3
<1>7. Cardinality(A) = 2 ^ k /\ Cardinality(A \cup B) = 2 ^ (k + 1)
  <2>1. Cardinality(A) = 2 ^ k
    BY <1>1 DEF A
  <2>2. k + 1 \in Nat
    OBVIOUS
  <2>3. QED
    BY <1>1, <1>3, <2>1, <2>2
<1>8. 2 ^ k \in Nat
  BY PowerIsPositive
<1>9. QED
  BY <1>2, <1>5, <1>6, <1>7, <1>8

LEMMA PowerOfSum ==
  ASSUME NEW a \in Nat, NEW b \in Nat
  PROVE  2 ^ (a + b) = 2 ^ a * 2 ^ b
<1> DEFINE T == {k \in 0 .. b : 2 ^ (a + k) = 2 ^ a * 2 ^ k}
<1>1. 0 \in T
  <2>1. 2 ^ a \in Nat /\ 2 ^ 0 = 1 /\ a + 0 = a
    BY PowerIsPositive, PowerStep
  <2>2. QED
    BY <2>1
<1>2. ASSUME NEW k \in 0 .. b - 1, k \in T PROVE k + 1 \in T
  <2> DEFINE x == 2 ^ a
             y == 2 ^ k
             z == 2 ^ (a + k)
  <2>1. x \in Nat /\ y \in Nat /\ z \in Nat
    <3>1. a \in Nat /\ k \in Nat /\ a + k \in Nat
      OBVIOUS
    <3>2. QED
      BY <3>1, PowerIsPositive
  <2>2. 2 ^ (a + (k + 1)) = 2 * z
    <3>1. a + (k + 1) = (a + k) + 1 /\ a + k \in Nat
      OBVIOUS
    <3>2. QED
      BY <3>1, PowerStep
  <2>3. 2 ^ (k + 1) = 2 * y
    BY PowerStep
  <2>4. z = x * y
    BY <1>2
  <2> HIDE DEF x, y, z
  <2>5. x * (2 * y) = 2 * (x * y)
    BY <2>1
  <2>6. 2 ^ (a + (k + 1)) = x * 2 ^ (k + 1)
    BY <2>2, <2>3, <2>4, <2>5
  <2>7. QED
    BY <2>6 DEF x
<1> HIDE DEF T
<1>3. b \in T
  BY <1>1, <1>2, Induction
<1>4. QED
  BY <1>3 DEF T

----------------------------------------------------------------------------
(* Numbers by their digits. *)

\* number lists the numbers of the first digits.
Numbers(number, digits, width, n) ==
  /\ number \in [0 .. n -> Nat] /\ number[0] = 0
  /\ \A k \in 1 .. n : number[k] = number[k - 1] + digits[k] * 2 ^ (width * (k - 1))

LEMMA DigitWeight ==
  ASSUME NEW width \in Nat, NEW k \in Nat
  PROVE  width * k \in Nat /\ 2 ^ (width * k) \in Nat \ {0}
<1>1. width * k \in Nat
  OBVIOUS
<1>2. QED
  BY <1>1, PowerIsPositive

LEMMA ProductIsNatural == ASSUME NEW x \in Nat, NEW y \in Nat PROVE x * y \in Nat
OBVIOUS

\* One digit more.
LEMMA NumbersGrow ==
  ASSUME NEW width \in Nat, NEW n \in Nat, NEW d \in [1 .. n + 1 -> Nat],
         NEW f, Numbers(f, d, width, n)
  PROVE  Numbers([i \in 0 .. n + 1 |-> IF i = n + 1 THEN f[n] + d[n + 1] * 2 ^ (width * n) ELSE f[i]],
                 d, width, n + 1)
<1> DEFINE last == f[n] + d[n + 1] * 2 ^ (width * n)
           g == [i \in 0 .. n + 1 |-> IF i = n + 1 THEN last ELSE f[i]]
<1>1. last \in Nat
  <2>1. d[n + 1] \in Nat /\ f[n] \in Nat
    BY DEF Numbers
  <2>2. d[n + 1] * 2 ^ (width * n) \in Nat
    BY <2>1, DigitWeight, ProductIsNatural
  <2>3. QED
    BY <2>1, <2>2
<1>2. last = f[n] + d[n + 1] * 2 ^ (width * n)
  OBVIOUS
<1> HIDE DEF last
<1>3. /\ g \in [0 .. n + 1 -> Nat] /\ g[0] = 0 /\ g[n + 1] = last
      /\ \A i \in 0 .. n : g[i] = f[i]
  BY <1>1 DEF Numbers
<1> HIDE DEF g
<1>4. \A k \in 1 .. n + 1 : g[k] = g[k - 1] + d[k] * 2 ^ (width * (k - 1))
  <2> SUFFICES ASSUME NEW k \in 1 .. n + 1 PROVE g[k] = g[k - 1] + d[k] * 2 ^ (width * (k - 1))
    OBVIOUS
  <2>1. CASE k = n + 1
    <3>1. k - 1 = n /\ n \in 0 .. n
      BY <2>1
    <3>2. g[k - 1] = f[n] /\ g[k] = last
      BY <1>3, <2>1, <3>1
    <3>3. QED
      BY <1>2, <2>1, <3>1, <3>2
  <2>2. CASE k # n + 1
    <3>1. k \in 1 .. n /\ k \in 0 .. n /\ k - 1 \in 0 .. n
      BY <2>2
    <3>2. f[k] = f[k - 1] + d[k] * 2 ^ (width * (k - 1))
      BY <3>1 DEF Numbers
    <3>3. QED
      BY <1>3, <3>1, <3>2
  <2>3. QED
    BY <2>1, <2>2
<1>5. Numbers(g, d, width, n + 1)
  BY <1>3, <1>4 DEF Numbers
<1>6. QED
  BY <1>5 DEF g, last

LEMMA NumbersExist ==
  ASSUME NEW width \in Nat, NEW n \in Nat, NEW d \in [1 .. n -> Nat]
  PROVE  \E f : Numbers(f, d, width, n)
<1> DEFINE T == {m \in 0 .. n : \E f : Numbers(f, d, width, m)}
<1>1. 0 \in T
  <2>1. Numbers([k \in 0 .. 0 |-> 0], d, width, 0)
    BY DEF Numbers
  <2>2. QED
    BY <2>1
<1>2. ASSUME NEW k \in 0 .. n - 1, k \in T PROVE k + 1 \in T
  <2>1. PICK f : Numbers(f, d, width, k)
    BY <1>2
  <2> DEFINE e == [i \in 1 .. k + 1 |-> d[i]]
             g == [i \in 0 .. k + 1 |-> IF i = k + 1 THEN f[k] + e[k + 1] * 2 ^ (width * k) ELSE f[i]]
  <2>2. e \in [1 .. k + 1 -> Nat] /\ \A i \in 1 .. k + 1 : e[i] = d[i]
    OBVIOUS
  <2> HIDE DEF e
  <2>3. Numbers(f, e, width, k)
    <3>1. \A i \in 1 .. k : e[i] = d[i]
      BY <2>2
    <3>2. QED
      BY <2>1, <3>1 DEF Numbers
  <2>4. k \in Nat
    OBVIOUS
  <2>5. Numbers(g, e, width, k + 1)
    BY <2>2, <2>3, <2>4, NumbersGrow
  <2> HIDE DEF g
  <2>6. Numbers(g, d, width, k + 1)
    BY <2>2, <2>5 DEF Numbers
  <2>7. QED
    BY <2>6
<1> HIDE DEF T
<1>3. n \in T
  <2>1. \A k \in 0 .. n : k \in T
    BY <1>1, <1>2, Induction
  <2>2. QED
    BY <2>1
<1>4. QED
  BY <1>3 DEF T

LEMMA NumberIs ==
  ASSUME NEW width \in Nat, NEW d \in Seq(Nat), NEW f, Numbers(f, d, width, Len(d))
  PROVE  Number(d, width) = f[Len(d)]
<1> DEFINE n == Len(d)
           Def(g) == g = [k \in 0 .. Len(d) |->
                            IF k = 0 THEN 0 ELSE g[k - 1] + d[k] * 2 ^ (width * (k - 1))]
           g == CHOOSE g : Def(g)
           T == {k \in 0 .. n : g[k] = f[k]}
<1>0. n \in Nat
  OBVIOUS
<1>1. Def(f)
  BY DEF Numbers
<1>2. Def(g)
  BY <1>1
<1>3. Number(d, width) = g[n]
  BY DEF Number
<1>4. /\ g[0] = 0 /\ f[0] = 0
      /\ \A k \in 1 .. n : /\ g[k] = g[k - 1] + d[k] * 2 ^ (width * (k - 1))
                          /\ f[k] = f[k - 1] + d[k] * 2 ^ (width * (k - 1))
  <2>1. g[0] = 0 /\ \A k \in 1 .. n : g[k] = g[k - 1] + d[k] * 2 ^ (width * (k - 1))
    <3> HIDE DEF g
    <3>1. \A k \in 0 .. n :
            g[k] = IF k = 0 THEN 0 ELSE g[k - 1] + d[k] * 2 ^ (width * (k - 1))
      BY <1>2
    <3> HIDE DEF n
    <3>2. 0 \in 0 .. n /\ \A k \in 1 .. n : k \in 0 .. n /\ k # 0
      BY <1>0
    <3>3. QED
      BY <3>1, <3>2
  <2>2. QED
    BY <2>1 DEF Numbers
<1> HIDE DEF g, n
<1>5. 0 \in T
  BY <1>0, <1>4
<1>6. ASSUME NEW k \in 0 .. n - 1, k \in T PROVE k + 1 \in T
  <2>1. k + 1 \in 1 .. n /\ (k + 1) - 1 = k
    BY <1>0
  <2>2. g[k] = f[k]
    BY <1>6
  <2>3. QED
    BY <1>4, <2>1, <2>2
<1> HIDE DEF T
<1>7. n \in T
  <2>1. \A k \in 0 .. n : k \in T
    BY <1>0, <1>5, <1>6, Induction
  <2>2. QED
    BY <1>0, <2>1
<1>8. QED
  BY <1>3, <1>7 DEF T, n

\* No digits, and one digit more.
LEMMA NumberSteps ==
  ASSUME NEW width \in Nat, NEW d \in Seq(Nat), NEW x \in Nat
  PROVE  /\ Number(<<>>, width) = 0 /\ Number(d, width) \in Nat
         /\ Number(Append(d, x), width) = Number(d, width) + x * 2 ^ (width * Len(d))
<1>1. Number(<<>>, width) = 0
  <2>1. <<>> \in Seq(Nat) /\ Len(<<>>) = 0
    OBVIOUS
  <2>2. Numbers([k \in 0 .. 0 |-> 0], <<>>, width, 0)
    BY DEF Numbers
  <2>3. Number(<<>>, width) = [k \in 0 .. 0 |-> 0][0]
    BY <2>1, <2>2, NumberIs
  <2>4. QED
    BY <2>3
<1> DEFINE n == Len(d)
           e == Append(d, x)
<1>2. n \in Nat /\ d \in [1 .. n -> Nat]
  BY LenProperties
<1>3. PICK f : Numbers(f, d, width, n)
  BY <1>2, NumbersExist
<1>4. Number(d, width) = f[n] /\ f[n] \in Nat
  <2>1. Number(d, width) = f[n]
    BY <1>3, NumberIs
  <2>2. QED
    BY <1>2, <1>3, <2>1 DEF Numbers
<1>5. /\ e \in Seq(Nat) /\ Len(e) = n + 1 /\ e[n + 1] = x
      /\ \A i \in 1 .. n : e[i] = d[i]
  BY AppendProperties
<1> HIDE DEF n, e
<1>6. e \in [1 .. n + 1 -> Nat]
  BY <1>5, LenProperties
<1>7. Numbers(f, e, width, n)
  BY <1>3, <1>5 DEF Numbers
<1> DEFINE g == [i \in 0 .. n + 1 |-> IF i = n + 1 THEN f[n] + e[n + 1] * 2 ^ (width * n) ELSE f[i]]
<1>8. Numbers(g, e, width, n + 1)
  BY <1>2, <1>6, <1>7, NumbersGrow
<1>9. g[n + 1] = f[n] + e[n + 1] * 2 ^ (width * n)
  BY <1>2
<1> HIDE DEF g
<1>10. Number(e, width) = g[n + 1]
  BY <1>5, <1>8, NumberIs
<1>11. Number(e, width) = Number(d, width) + x * 2 ^ (width * n)
  BY <1>4, <1>5, <1>9, <1>10
<1>12. QED
  BY <1>1, <1>4, <1>11 DEF n, e

LEMMA NumberType ==
  ASSUME NEW width \in Nat, NEW d \in Seq(Nat)
  PROVE  Number(<<>>, width) = 0 /\ Number(d, width) \in Nat /\ Len(d) \in Nat
<1>1. 0 \in Nat
  OBVIOUS
<1>2. Number(<<>>, width) = 0 /\ Number(d, width) \in Nat
  BY <1>1, NumberSteps
<1>3. QED
  BY <1>2

\* A quotient and a remainder belong to one number only.
LEMMA SameDivision ==
  ASSUME NEW m \in Nat \ {0}, NEW a \in 0 .. m - 1, NEW b \in 0 .. m - 1,
         NEW x \in Int, NEW y \in Int, a + x * m = b + y * m
  PROVE  a = b /\ x = y
<1>1. (x * m + a) \div m = x /\ (x * m + a) % m = a
  OBVIOUS
<1>2. (y * m + b) \div m = y /\ (y * m + b) % m = b
  OBVIOUS
<1>3. x * m + a = y * m + b
  <2>1. x * m \in Int /\ y * m \in Int
    OBVIOUS
  <2>2. QED
    BY <2>1
<1>4. QED
  BY <1>1, <1>2, <1>3

Digits(width) == 0 .. 2 ^ width - 1

LEMMA DigitsAreNatural ==
  ASSUME NEW width \in Nat, NEW d \in Seq(Digits(width))
  PROVE  d \in Seq(Nat) /\ Len(d) \in Nat
<1>1. Digits(width) \subseteq Nat
  BY DEF Digits
<1>2. QED
  BY <1>1, SeqMonotonic

LEMMA OneMoreWeight ==
  ASSUME NEW width \in Nat, NEW k \in Nat
  PROVE  2 ^ (width * (k + 1)) = 2 ^ width * 2 ^ (width * k)
<1>1. width * (k + 1) = width + width * k /\ width * k \in Nat
  OBVIOUS
<1>2. 2 ^ (width + width * k) = 2 ^ width * 2 ^ (width * k)
  BY <1>1, PowerOfSum
<1>3. QED
  BY <1>1, <1>2

\* n digits give a number below the weight of the next one.
LEMMA NumberBound ==
  ASSUME NEW width \in Nat, NEW d \in Seq(Digits(width))
  PROVE  Number(d, width) \in Nat /\ Number(d, width) < 2 ^ (width * Len(d))
<1> DEFINE S == Digits(width)
           T == {s1 \in Seq(S) : Number(s1, width) < 2 ^ (width * Len(s1))}
<1>1. <<>> \in T
  <2>1. <<>> \in Seq(S) /\ <<>> \in Seq(Nat) /\ Len(<<>>) = 0 /\ width * 0 = 0
    OBVIOUS
  <2>2. Number(<<>>, width) = 0 /\ 2 ^ 0 = 1
    <3>1. 0 \in Nat
      OBVIOUS
    <3>2. QED
      BY <2>1, <3>1, NumberType, PowerStep
  <2>3. 2 ^ (width * Len(<<>>)) = 1
    BY <2>1, <2>2
  <2>4. QED
    BY <2>1, <2>2, <2>3
<1>2. ASSUME NEW s1 \in Seq(S), NEW x \in S, s1 \in T PROVE Append(s1, x) \in T
  <2> DEFINE n == Number(s1, width)
             m == 2 ^ (width * Len(s1))
             b == 2 ^ width
  <2>1. s1 \in Seq(Nat) /\ Len(s1) \in Nat /\ x \in Nat
    BY DigitsAreNatural DEF Digits
  <2>2. n \in Nat /\ m \in Nat \ {0} /\ b \in Nat \ {0}
    BY <2>1, NumberType, DigitWeight, PowerIsPositive
  <2>3. n < m /\ x <= b - 1
    BY <1>2, <2>2 DEF Digits
  <2>4. Number(Append(s1, x), width) = n + x * m
    BY <2>1, NumberSteps
  <2>5. /\ Append(s1, x) \in Seq(S) /\ Len(Append(s1, x)) = Len(s1) + 1
    BY AppendProperties
  <2>6. 2 ^ (width * Len(Append(s1, x))) = b * m
    BY <2>1, <2>5, OneMoreWeight
  <2> HIDE DEF n, m, b
  <2>7. n + x * m < b * m
    <3>1. x * m <= (b - 1) * m
      BY <2>1, <2>2, <2>3
    <3>2. (b - 1) * m = b * m - m
      BY <2>2
    <3>3. x * m \in Int /\ b * m \in Int
      BY <2>1, <2>2
    <3>4. QED
      BY <2>2, <2>3, <3>1, <3>2, <3>3
  <2>8. QED
    BY <2>4, <2>5, <2>6, <2>7
<1>3. d \in T
  <2> HIDE DEF T, S
  <2>1. Seq(S) \subseteq T
    BY <1>1, <1>2, SequenceInduction
  <2>2. QED
    BY <2>1 DEF S
<1>4. Number(d, width) \in Nat
  BY DigitsAreNatural, NumberType
<1>5. QED
  BY <1>3, <1>4

\* The digits of one sequence after those of another.
LEMMA NumberOfConcat ==
  ASSUME NEW width \in Nat, NEW d \in Seq(Nat), NEW e \in Seq(Nat)
  PROVE  Number(d \o e, width) = Number(d, width) + 2 ^ (width * Len(d)) * Number(e, width)
<1> DEFINE n == Number(d, width)
           m == 2 ^ (width * Len(d))
           T == {t \in Seq(Nat) : Number(d \o t, width) = n + m * Number(t, width)}
<1>1. n \in Nat /\ m \in Nat \ {0} /\ Len(d) \in Nat
  BY NumberType, DigitWeight
<1>2. <<>> \in T
  <2>1. <<>> \in Seq(Nat) /\ d \o <<>> = d
    BY ConcatEmptySeq
  <2>2. Number(<<>>, width) = 0
    BY <2>1, NumberType
  <2> HIDE DEF m
  <2>3. m * 0 = 0 /\ n + 0 = n
    BY <1>1
  <2>4. QED
    BY <2>1, <2>2, <2>3
<1>3. ASSUME NEW t \in Seq(Nat), NEW x \in Nat, t \in T PROVE Append(t, x) \in T
  <2> DEFINE y == Number(t, width)
             p == 2 ^ (width * Len(t))
  <2>1. y \in Nat /\ p \in Nat \ {0} /\ Len(t) \in Nat
    BY NumberType, DigitWeight
  <2>2. d \o Append(t, x) = Append(d \o t, x) /\ d \o t \in Seq(Nat) /\ Len(d \o t) = Len(d) + Len(t)
    <3>1. /\ d \o t \in Seq(Nat) /\ <<x>> \in Seq(Nat) /\ Len(d \o t) = Len(d) + Len(t)
      BY ConcatProperties
    <3>2. Append(t, x) = t \o <<x>> /\ Append(d \o t, x) = (d \o t) \o <<x>>
      BY <3>1, AppendIsConcat
    <3>3. (d \o t) \o <<x>> = d \o (t \o <<x>>)
      BY <3>1, ConcatAssociative
    <3>4. QED
      BY <3>1, <3>2, <3>3
  <2>3. Number(Append(d \o t, x), width) = Number(d \o t, width) + x * 2 ^ (width * (Len(d) + Len(t)))
    <3> DEFINE u == d \o t
    <3>1. Number(Append(u, x), width) = Number(u, width) + x * 2 ^ (width * Len(u))
      <4> HIDE DEF u
      <4>1. u \in Seq(Nat)
        BY <2>2 DEF u
      <4>2. QED
        BY <4>1, NumberSteps
    <3>2. QED
      BY <2>2, <3>1
  <2>4. 2 ^ (width * (Len(d) + Len(t))) = m * p
    <3>1. width * (Len(d) + Len(t)) = width * Len(d) + width * Len(t)
      BY <1>1, <2>1
    <3>2. width * Len(d) \in Nat /\ width * Len(t) \in Nat
      BY <1>1, <2>1, DigitWeight
    <3>3. QED
      BY <3>1, <3>2, PowerOfSum
  <2>5. Number(d \o t, width) = n + m * y
    BY <1>3
  <2>6. Number(Append(t, x), width) = y + x * p
    BY NumberSteps
  <2>7. Append(t, x) \in Seq(Nat)
    BY AppendProperties
  <2> HIDE DEF n, m, y, p
  <2>8. (n + m * y) + x * (m * p) = n + m * (y + x * p)
    <3>1. x * (m * p) = m * (x * p)
      BY <1>1, <2>1
    <3>2. x * p \in Int
      BY <2>1
    <3> DEFINE z == x * p
    <3> HIDE DEF z
    <3>3. m * (y + z) = m * y + m * z /\ m * y \in Int /\ m * z \in Int
      BY <1>1, <2>1, <3>2 DEF z
    <3>4. QED
      BY <1>1, <3>1, <3>3 DEF z
  <2>9. Number(d \o Append(t, x), width) = n + m * Number(Append(t, x), width)
    BY <2>2, <2>3, <2>4, <2>5, <2>6, <2>8
  <2>10. QED
    BY <2>7, <2>9
<1> HIDE DEF T
<1>4. e \in T
  <2>1. Seq(Nat) \subseteq T
    BY <1>2, <1>3, SequenceInduction
  <2>2. QED
    BY <2>1
<1>5. QED
  BY <1>4 DEF T, n, m

\* The least digits of n are its residue, one digit more is the next residue.
LEMMA NextDigit ==
  ASSUME NEW n \in Nat, NEW p \in Nat \ {0}, NEW b \in Nat \ {0}
  PROVE  n % (b * p) = (n % p) + ((n \div p) % b) * p
<1> DEFINE q == n \div p
           r == n % p
           q2 == q \div b
           d == q % b
<1>1. q \in Nat /\ r \in 0 .. p - 1 /\ n = p * q + r
  OBVIOUS
<1>2. q2 \in Nat /\ d \in 0 .. b - 1 /\ q = b * q2 + d
  <2> HIDE DEF q
  <2>1. QED
    BY <1>1
<1> HIDE DEF q, r, q2, d
<1>3. n = (b * p) * q2 + (d * p + r)
  <2>1. n = p * (b * q2 + d) + r
    BY <1>1, <1>2
  <2>2. p * (b * q2 + d) = (b * p) * q2 + d * p
    BY <1>1, <1>2
  <2>3. QED
    BY <1>1, <1>2, <2>1, <2>2
<1>4. b * p \in Nat \ {0} /\ d * p \in Nat /\ d * p + r \in 0 .. (b * p) - 1
  <2>1. b * p \in Nat \ {0} /\ d * p \in Nat
    BY <1>2
  <2>2. (b - 1) * p - d * p = (b - 1 - d) * p /\ (b - 1 - d) * p >= 0
    BY <1>2
  <2>3. b * p = (b - 1) * p + p
    BY <1>2
  <2>4. QED
    BY <1>1, <1>2, <2>1, <2>2, <2>3
<1> DEFINE m == b * p
           t == d * p + r
<1>5. m \in Nat \ {0} /\ t \in 0 .. m - 1 /\ n = m * q2 + t
  BY <1>1, <1>3, <1>4
<1> HIDE DEF m, t
<1>6. n % m = t
  BY <1>2, <1>5
<1>7. QED
  BY <1>1, <1>6 DEF m, t, q, r, d

\* The n least digits of x.
LeastDigits(x, width, n) == [i \in 1 .. n |-> (x \div 2 ^ (width * (i - 1))) % 2 ^ width]

LEMMA LeastDigitsAre ==
  ASSUME NEW width \in Nat, NEW x \in Nat, NEW n \in Nat
  PROVE  /\ LeastDigits(x, width, n) \in Seq(Digits(width)) /\ Len(LeastDigits(x, width, n)) = n
         /\ Number(LeastDigits(x, width, n), width) = x % 2 ^ (width * n)
<1> DEFINE digit(k) == (x \div 2 ^ (width * (k - 1))) % 2 ^ width
           T == {k \in 0 .. n : Number(LeastDigits(x, width, k), width) = x % 2 ^ (width * k)}
<1>1. \A k \in 1 .. n : digit(k) \in Digits(width)
  <2> SUFFICES ASSUME NEW k \in 1 .. n PROVE digit(k) \in Digits(width)
    OBVIOUS
  <2> DEFINE m == 2 ^ (width * (k - 1))
             b == 2 ^ width
  <2>1. m \in Nat \ {0} /\ b \in Nat \ {0}
    <3>1. k - 1 \in Nat
      OBVIOUS
    <3>2. QED
      BY <3>1, DigitWeight, PowerIsPositive
  <2> HIDE DEF m, b
  <2>2. x \div m \in Nat
    BY <2>1
  <2>3. (x \div m) % b \in 0 .. b - 1
    BY <2>1, <2>2
  <2>4. QED
    BY <2>3 DEF m, b, Digits
<1> HIDE DEF digit
<1>2. \A k \in 0 .. n : LeastDigits(x, width, k) = [i \in 1 .. k |-> digit(i)]
  BY DEF LeastDigits, digit
<1>3. \A k \in 0 .. n : /\ LeastDigits(x, width, k) \in Seq(Digits(width))
                        /\ Len(LeastDigits(x, width, k)) = k
  BY <1>1, <1>2
<1>4. 0 \in T
  <2>1. LeastDigits(x, width, 0) = <<>>
    BY <1>2
  <2>2. Number(<<>>, width) = 0
    <3>1. <<>> \in Seq(Nat)
      OBVIOUS
    <3>2. QED
      BY <3>1, NumberType
  <2>3. x % 2 ^ (width * 0) = 0
    <3>1. width * 0 = 0 /\ 2 ^ 0 = 1
      BY PowerStep
    <3>2. x % 1 = 0
      OBVIOUS
    <3>3. QED
      BY <3>1, <3>2
  <2>4. 0 \in 0 .. n
    OBVIOUS
  <2>5. QED
    BY <2>1, <2>2, <2>3, <2>4
<1>5. ASSUME NEW k \in 0 .. n - 1, k \in T PROVE k + 1 \in T
  <2> DEFINE d == LeastDigits(x, width, k)
             m == 2 ^ (width * k)
             b == 2 ^ width
  <2>1. k \in Nat /\ k \in 0 .. n /\ k + 1 \in 0 .. n /\ k + 1 \in 1 .. n
    OBVIOUS
  <2>2. d \in Seq(Digits(width)) /\ Len(d) = k /\ d \in Seq(Nat)
    BY <1>3, <2>1, DigitsAreNatural
  <2>3. digit(k + 1) = (x \div m) % b
    <3>1. (k + 1) - 1 = k
      OBVIOUS
    <3>2. QED
      BY <3>1 DEF digit
  <2>4. digit(k + 1) \in Nat
    BY <1>1, <2>1 DEF Digits
  <2>5. LeastDigits(x, width, k + 1) = Append(d, digit(k + 1))
    <3> DEFINE e == LeastDigits(x, width, k + 1)
               f == Append(d, digit(k + 1))
    <3>1. e \in Seq(Nat) /\ Len(e) = k + 1 /\ \A i \in 1 .. k + 1 : e[i] = digit(i)
      BY <1>2, <1>3, <2>1, DigitsAreNatural
    <3>2. /\ f \in Seq(Nat) /\ Len(f) = k + 1 /\ f[k + 1] = digit(k + 1)
          /\ \A i \in 1 .. k : f[i] = d[i]
      BY <2>2, <2>4, AppendProperties
    <3>3. \A i \in 1 .. k : d[i] = digit(i)
      BY <1>2, <2>1
    <3> HIDE DEF e, f
    <3>4. \A i \in 1 .. Len(e) : e[i] = f[i]
      BY <3>1, <3>2, <3>3, <2>1
    <3>5. e = f
      BY <3>1, <3>2, <3>4, SeqEqual
    <3>6. QED
      BY <3>5 DEF e, f
  <2>6. Number(LeastDigits(x, width, k + 1), width) = Number(d, width) + digit(k + 1) * m
    BY <2>2, <2>4, <2>5, NumberSteps
  <2>7. m \in Nat \ {0} /\ b \in Nat \ {0} /\ 2 ^ (width * (k + 1)) = b * m
    BY <2>1, DigitWeight, PowerIsPositive, OneMoreWeight
  <2>8. x % (b * m) = (x % m) + ((x \div m) % b) * m
    BY <2>7, NextDigit
  <2>9. Number(d, width) = x % m
    BY <1>5
  <2>10. QED
    BY <2>1, <2>3, <2>6, <2>7, <2>8, <2>9
<1> HIDE DEF T
<1>6. n \in T
  <2>1. \A k \in 0 .. n : k \in T
    BY <1>4, <1>5, Induction
  <2>2. QED
    BY <2>1
<1>7. QED
  BY <1>3, <1>6 DEF T

----------------------------------------------------------------------------
(* Bits on their way from digits of one width to digits of another. *)

\* What from says is in to, but for the nbits bits in acc.
Moved(from, a, to, b, acc, nbits) ==
  /\ from \in Seq(Digits(a)) /\ to \in Seq(Digits(b))
  /\ nbits \in Nat /\ acc \in 0 .. 2 ^ nbits - 1
  /\ Number(from, a) = Number(to, b) + acc * 2 ^ (b * Len(to))
  /\ a * Len(from) = b * Len(to) + nbits

\* Digits come in.
LEMMA MoveIn ==
  ASSUME NEW a \in Nat, NEW b \in Nat, NEW from, NEW to, NEW acc, NEW nbits,
         Moved(from, a, to, b, acc, nbits), NEW e \in Seq(Digits(a))
  PROVE  Moved(from \o e, a, to, b, acc + 2 ^ nbits * Number(e, a), nbits + a * Len(e))
<1> DEFINE x == Number(e, a)
           m == 2 ^ nbits
           w == 2 ^ (b * Len(to))
           k == Len(e)
           y == 2 ^ (a * k)
           u == Number(from, a)
           v == Number(to, b)
<1>1. /\ from \in Seq(Nat) /\ e \in Seq(Nat) /\ to \in Seq(Nat)
      /\ Len(from) \in Nat /\ k \in Nat /\ Len(to) \in Nat
      /\ from \in Seq(Digits(a)) /\ to \in Seq(Digits(b)) /\ nbits \in Nat
  BY DigitsAreNatural DEF Moved
<1>2. x \in Nat /\ m \in Nat \ {0} /\ w \in Nat \ {0} /\ u \in Nat /\ v \in Nat /\ y \in Nat \ {0}
  BY <1>1, NumberType, PowerIsPositive, DigitWeight
<1>3. x < y
  BY NumberBound
<1>4. acc \in Nat /\ acc < m
  BY <1>2 DEF Moved
<1>5. /\ from \o e \in Seq(Digits(a)) /\ Len(from \o e) = Len(from) + k
  BY <1>1, ConcatProperties
<1>6. a * k \in Nat /\ b * Len(to) \in Nat /\ nbits + a * k \in Nat
  <2>1. a * k \in Nat /\ b * Len(to) \in Nat
    BY <1>1, ProductIsNatural
  <2> DEFINE z == a * k
  <2> HIDE DEF z
  <2>2. z \in Nat => nbits + z \in Nat
    BY <1>1
  <2>3. QED
    BY <2>1, <2>2 DEF z
<1>7. 2 ^ (nbits + a * k) = m * y
  BY <1>1, <1>6, PowerOfSum
<1>8. acc + m * x \in 0 .. m * y - 1
  <2> HIDE DEF m, x, y
  <2>1. m * x \in Nat /\ m * y \in Nat /\ m * (y - 1) = m * y - m /\ m * x <= m * (y - 1)
    BY <1>2, <1>3
  <2>2. QED
    BY <1>2, <1>4, <2>1
<1>9. Number(from \o e, a) = u + 2 ^ (a * Len(from)) * x
  BY <1>1, NumberOfConcat
<1>10. 2 ^ (a * Len(from)) = w * m
  <2>1. a * Len(from) = b * Len(to) + nbits
    BY DEF Moved
  <2>2. 2 ^ (b * Len(to) + nbits) = w * m
    BY <1>1, <1>6, PowerOfSum
  <2>3. QED
    BY <2>1, <2>2
<1>11. u = v + acc * w
  BY DEF Moved
<1>12. Number(from \o e, a) = v + (acc + m * x) * w
  <2> HIDE DEF u, v, w, m, x
  <2>1. m * x \in Nat /\ (w * m) * x = (m * x) * w
    BY <1>2
  <2>2. (acc + m * x) * w = acc * w + (m * x) * w
    BY <1>2, <1>4, <2>1
  <2>3. acc * w \in Nat /\ (m * x) * w \in Nat
    BY <1>2, <1>4, <2>1
  <2>4. Number(from \o e, a) = u + (w * m) * x
    BY <1>9, <1>10
  <2> DEFINE z == (m * x) * w
             y1 == acc * w
  <2>5. z \in Nat /\ y1 \in Nat /\ Number(from \o e, a) = u + z /\ u = v + y1
        /\ (acc + m * x) * w = y1 + z
    BY <1>11, <2>1, <2>2, <2>3, <2>4
  <2> HIDE DEF z, y1
  <2>6. QED
    BY <1>2, <2>5
<1>13. a * Len(from \o e) = b * Len(to) + (nbits + a * k)
  <2>1. a * (Len(from) + k) = a * Len(from) + a * k
    BY <1>1
  <2>2. a * Len(from) = b * Len(to) + nbits
    BY DEF Moved
  <2> DEFINE z == a * k
             z1 == a * Len(from)
             z2 == b * Len(to)
  <2>3. z \in Nat /\ z2 \in Nat /\ a * Len(from \o e) = z1 + z /\ z1 = z2 + nbits
    BY <1>5, <1>6, <2>1, <2>2
  <2>4. z2 + nbits + z = z2 + (nbits + z)
    BY <1>1, <2>3
  <2> HIDE DEF z, z1, z2
  <2>5. a * Len(from \o e) = z2 + (nbits + z)
    BY <1>1, <2>3, <2>4
  <2>6. QED
    BY <2>5 DEF z, z2
<1>14. QED
  BY <1>1, <1>5, <1>6, <1>7, <1>8, <1>12, <1>13 DEF Moved

\* The n least digits go out.
LEMMA MoveOut ==
  ASSUME NEW a \in Nat, NEW b \in Nat, NEW from, NEW to, NEW acc, NEW nbits,
         Moved(from, a, to, b, acc, nbits), NEW n \in Nat, b * n <= nbits
  PROVE  Moved(from, a, to \o LeastDigits(acc, b, n), b, acc \div 2 ^ (b * n), nbits - b * n)
<1> DEFINE e == LeastDigits(acc, b, n)
           m == 2 ^ (b * n)
           w == 2 ^ (b * Len(to))
           u == Number(from, a)
           v == Number(to, b)
           r == acc % m
           q == acc \div m
           left == nbits - b * n
           h == 2 ^ left
<1>1. /\ from \in Seq(Nat) /\ to \in Seq(Nat) /\ Len(from) \in Nat /\ Len(to) \in Nat
      /\ from \in Seq(Digits(a)) /\ to \in Seq(Digits(b)) /\ nbits \in Nat
  BY DigitsAreNatural DEF Moved
<1>2. b * n \in Nat /\ b * Len(to) \in Nat /\ left \in Nat /\ nbits = left + b * n
  <2>1. b * n \in Nat /\ b * Len(to) \in Nat
    BY <1>1, ProductIsNatural
  <2> DEFINE z == b * n
  <2> HIDE DEF z
  <2>2. z \in Nat => nbits - z \in Nat /\ nbits = (nbits - z) + z
    BY <1>1 DEF z
  <2>3. QED
    BY <2>1, <2>2 DEF z
<1>3. /\ m \in Nat \ {0} /\ w \in Nat \ {0} /\ u \in Nat /\ v \in Nat /\ h \in Nat \ {0}
      /\ 2 ^ nbits = h * m
  BY <1>1, <1>2, NumberType, PowerIsPositive, PowerOfSum
<1>4. acc \in Nat /\ acc < h * m
  BY <1>3 DEF Moved
<1>5. r \in 0 .. m - 1 /\ q \in Nat /\ acc = q * m + r
  <2> HIDE DEF m
  <2>1. QED
    BY <1>3, <1>4
<1>6. q < h
  <2> HIDE DEF m, h, q, r
  <2> SUFFICES ASSUME q >= h PROVE FALSE
    BY <1>3, <1>5
  <2>1. q * m >= h * m /\ q * m \in Nat /\ h * m \in Nat
    BY <1>3, <1>5
  <2>2. QED
    BY <1>4, <1>5, <2>1
<1>7. e \in Seq(Digits(b)) /\ Len(e) = n /\ Number(e, b) = r /\ e \in Seq(Nat)
  BY <1>4, LeastDigitsAre, DigitsAreNatural
<1>8. to \o e \in Seq(Digits(b)) /\ Len(to \o e) = Len(to) + n
  BY <1>1, <1>7, ConcatProperties
<1>9. Number(to \o e, b) = v + w * r
  BY <1>1, <1>7, NumberOfConcat
<1>10. 2 ^ (b * Len(to \o e)) = w * m /\ b * Len(to \o e) = b * Len(to) + b * n
  <2>1. b * (Len(to) + n) = b * Len(to) + b * n
    BY <1>1
  <2>2. 2 ^ (b * Len(to) + b * n) = w * m
    BY <1>2, PowerOfSum
  <2>3. QED
    BY <1>8, <2>1, <2>2
<1>11. u = v + acc * w
  BY DEF Moved
<1>12. u = (v + w * r) + q * (w * m)
  <2> HIDE DEF u, v, w, m, r, q
  <2>1. (q * m + r) * w = q * (w * m) + w * r
    BY <1>3, <1>5
  <2>2. q * (w * m) \in Nat /\ w * r \in Nat
    BY <1>3, <1>5
  <2>3. QED
    BY <1>3, <1>5, <1>11, <2>1, <2>2
<1>13. a * Len(from) = b * Len(to \o e) + left
  <2>1. a * Len(from) = b * Len(to) + nbits
    BY DEF Moved
  <2>2. QED
    BY <1>2, <1>10, <2>1
<1>14. q \in 0 .. h - 1
  BY <1>3, <1>5, <1>6
<1>15. QED
  BY <1>1, <1>2, <1>8, <1>9, <1>10, <1>12, <1>13, <1>14 DEF Moved

----------------------------------------------------------------------------
(* Digits of a number, and rounding up. *)

\* f counts the digits of the numbers up to v.
Counts(f, v, base) ==
  /\ f \in [0 .. v -> Nat] /\ f[0] = 0
  /\ \A x \in 1 .. v : f[x] = 1 + f[x \div base]

LEMMA QuotientIsLess ==
  ASSUME NEW x \in Nat \ {0}, NEW base \in Nat \ {0, 1}
  PROVE  x \div base \in 0 .. x - 1
<1> DEFINE y == x \div base
           r == x % base
<1>1. y \in Nat /\ r \in 0 .. base - 1 /\ x = base * y + r
  OBVIOUS
<1> HIDE DEF y, r
<1>2. y < x
  <2> SUFFICES ASSUME y >= x PROVE FALSE
    BY <1>1
  <2>1. base * y >= 2 * y
    BY <1>1
  <2>2. base * y \in Nat
    BY <1>1
  <2>3. QED
    BY <1>1, <2>1, <2>2
<1>3. QED
  BY <1>1, <1>2 DEF y

LEMMA CountsExist ==
  ASSUME NEW v \in Nat, NEW base \in Nat \ {0, 1}
  PROVE  \E f : Counts(f, v, base)
<1> DEFINE T == {m \in 0 .. v : \E f : Counts(f, m, base)}
<1>1. 0 \in T
  <2>1. Counts([x \in 0 .. 0 |-> 0], 0, base)
    BY DEF Counts
  <2>2. QED
    BY <2>1
<1>2. ASSUME NEW k \in 0 .. v - 1, k \in T PROVE k + 1 \in T
  <2>1. PICK f : Counts(f, k, base)
    BY <1>2
  <2> DEFINE j == (k + 1) \div base
             g == [x \in 0 .. k + 1 |-> IF x = k + 1 THEN 1 + f[j] ELSE f[x]]
  <2>2. j \in 0 .. k
    <3>1. k + 1 \in Nat \ {0} /\ (k + 1) - 1 = k
      OBVIOUS
    <3>2. QED
      BY <3>1, QuotientIsLess
  <2>3. j = (k + 1) \div base
    OBVIOUS
  <2> HIDE DEF j
  <2>4. f[j] \in Nat
    BY <2>1, <2>2 DEF Counts
  <2>5. /\ g \in [0 .. k + 1 -> Nat] /\ g[0] = 0 /\ g[k + 1] = 1 + f[j]
        /\ \A x \in 0 .. k : g[x] = f[x]
    <3> DEFINE u == 1 + f[j]
    <3>1. f \in [0 .. k -> Nat] /\ f[0] = 0 /\ u \in Nat
      <4>1. f \in [0 .. k -> Nat] /\ f[0] = 0
        BY <2>1 DEF Counts
      <4>2. u \in Nat
        BY <2>4
      <4>3. QED
        BY <4>1, <4>2
    <3>2. /\ k \in Nat /\ 0 \in 0 .. k /\ k + 1 \in 0 .. k + 1
          /\ \A x \in 0 .. k : x \in 0 .. k + 1 /\ x # k + 1
          /\ \A x \in 0 .. k + 1 : x # k + 1 => x \in 0 .. k
      OBVIOUS
    <3> HIDE DEF u
    <3>3. g = [x \in 0 .. k + 1 |-> IF x = k + 1 THEN u ELSE f[x]]
      BY DEF u
    <3> HIDE DEF g
    <3>4. g \in [0 .. k + 1 -> Nat] /\ g[k + 1] = u /\ \A x \in 0 .. k : g[x] = f[x]
      BY <3>1, <3>2, <3>3
    <3>5. QED
      BY <3>1, <3>2, <3>4 DEF u
  <2> HIDE DEF g
  <2>6. \A x \in 1 .. k + 1 : g[x] = 1 + g[x \div base]
    <3> SUFFICES ASSUME NEW x \in 1 .. k + 1 PROVE g[x] = 1 + g[x \div base]
      OBVIOUS
    <3>1. CASE x = k + 1
      BY <2>2, <2>3, <2>5, <3>1
    <3>2. CASE x # k + 1
      <4>1. x \in 1 .. k /\ x \in 0 .. k
        BY <3>2
      <4>2. x \div base \in 0 .. k
        <5>1. x \in Nat \ {0}
          OBVIOUS
        <5>2. x \div base \in 0 .. x - 1
          BY <5>1, QuotientIsLess
        <5>3. QED
          BY <4>1, <5>2
      <4>3. f[x] = 1 + f[x \div base]
        BY <2>1, <4>1 DEF Counts
      <4>4. QED
        BY <2>5, <4>1, <4>2, <4>3
    <3>3. QED
      BY <3>1, <3>2
  <2>7. Counts(g, k + 1, base)
    BY <2>5, <2>6 DEF Counts
  <2>8. QED
    BY <2>7
<1> HIDE DEF T
<1>3. v \in T
  <2>1. \A k \in 0 .. v : k \in T
    BY <1>1, <1>2, Induction
  <2>2. QED
    BY <2>1
<1>4. QED
  BY <1>3 DEF T

LEMMA DigitCountIs ==
  ASSUME NEW v \in Nat, NEW base \in Nat \ {0, 1}, NEW f, Counts(f, v, base)
  PROVE  DigitCount(v, base) = f[v]
<1> DEFINE Def(g) == g = [x \in 0 .. v |-> IF x = 0 THEN 0 ELSE 1 + g[x \div base]]
           g == CHOOSE g : Def(g)
           T == {k \in 0 .. v : \A x \in 0 .. k : g[x] = f[x]}
<1>1. Def(f)
  <2>1. f \in [0 .. v -> Nat]
    BY DEF Counts
  <2>2. \A x \in 0 .. v : f[x] = IF x = 0 THEN 0 ELSE 1 + f[x \div base]
    <3>1. f[0] = 0 /\ \A x \in 1 .. v : f[x] = 1 + f[x \div base]
      BY DEF Counts
    <3>2. QED
      BY <3>1
  <2>3. QED
    BY <2>1, <2>2
<1>2. Def(g)
  BY <1>1
<1>3. DigitCount(v, base) = g[v]
  BY DEF DigitCount
<1>4. g[0] = 0 /\ \A x \in 1 .. v : g[x] = 1 + g[x \div base]
  <2> HIDE DEF g
  <2>1. \A x \in 0 .. v : g[x] = IF x = 0 THEN 0 ELSE 1 + g[x \div base]
    BY <1>2
  <2>2. QED
    BY <2>1
<1> HIDE DEF g
<1>5. 0 \in T
  BY <1>4 DEF Counts
<1>6. ASSUME NEW k \in 0 .. v - 1, k \in T PROVE k + 1 \in T
  <2>1. k + 1 \in 1 .. v /\ k + 1 \in Nat \ {0}
    OBVIOUS
  <2>2. (k + 1) \div base \in 0 .. k
    <3>1. (k + 1) - 1 = k
      OBVIOUS
    <3>2. QED
      BY <2>1, <3>1, QuotientIsLess
  <2>3. g[(k + 1) \div base] = f[(k + 1) \div base]
    BY <1>6, <2>2
  <2>4. g[k + 1] = f[k + 1]
    BY <1>4, <2>1, <2>3 DEF Counts
  <2>5. \A x \in 0 .. k + 1 : g[x] = f[x]
    BY <1>6, <2>4
  <2>6. QED
    BY <2>5
<1> HIDE DEF T
<1>7. v \in T
  <2>1. \A k \in 0 .. v : k \in T
    BY <1>5, <1>6, Induction
  <2>2. QED
    BY <2>1
<1>8. QED
  BY <1>3, <1>7 DEF T

\* v has so many digits, one of them if it is not 0; in binary they are enough for v.
LEMMA DigitCountProperties ==
  ASSUME NEW v \in Nat, NEW base \in Nat \ {0, 1}
  PROVE  /\ DigitCount(v, base) \in Nat
         /\ v # 0 => DigitCount(v, base) >= 1
         /\ base = 2 => v < 2 ^ DigitCount(v, base)
<1>1. PICK f : Counts(f, v, base)
  BY CountsExist
<1>2. DigitCount(v, base) = f[v]
  BY <1>1, DigitCountIs
<1>3. f[v] \in Nat
  BY <1>1 DEF Counts
<1>4. ASSUME v # 0 PROVE f[v] >= 1
  <2>1. v \in 1 .. v /\ v \div base \in 0 .. v
    <3>1. v \in Nat \ {0}
      BY <1>4
    <3>2. v \div base \in 0 .. v - 1
      BY <3>1, QuotientIsLess
    <3>3. QED
      BY <3>1, <3>2
  <2>2. f[v] = 1 + f[v \div base] /\ f[v \div base] \in Nat
    BY <1>1, <2>1 DEF Counts
  <2>3. QED
    BY <2>2
<1>5. ASSUME base = 2 PROVE v < 2 ^ f[v]
  <2> DEFINE T == {k \in 0 .. v : \A x \in 0 .. k : x < 2 ^ f[x]}
  <2>1. 0 \in T
    <3>1. f[0] = 0 /\ 2 ^ 0 = 1
      BY <1>1, PowerStep DEF Counts
    <3>2. 0 \in 0 .. v /\ \A x \in 0 .. 0 : x = 0
      OBVIOUS
    <3>3. 0 < 2 ^ f[0]
      BY <3>1
    <3>4. QED
      BY <3>2, <3>3
  <2>2. ASSUME NEW k \in 0 .. v - 1, k \in T PROVE k + 1 \in T
    <3> DEFINE j == (k + 1) \div 2
               r == (k + 1) % 2
               p == 2 ^ f[j]
    <3>1. k + 1 \in 1 .. v /\ j \in 0 .. k /\ j \in 0 .. v /\ k + 1 <= 2 * j + 1
      OBVIOUS
    <3>2. f[k + 1] = 1 + f[j] /\ f[j] \in Nat
      BY <1>1, <1>5, <3>1 DEF Counts
    <3>3. j < p
      BY <2>2, <3>1
    <3>4. p \in Nat /\ 2 ^ (f[j] + 1) = 2 * p
      BY <3>2, PowerIsPositive, PowerStep
    <3>5. 2 ^ f[k + 1] = 2 * p
      <4>1. 1 + f[j] = f[j] + 1
        BY <3>2
      <4>2. QED
        BY <3>2, <3>4, <4>1
    <3>6. k + 1 < 2 * p
      <4> HIDE DEF j, p
      <4>1. QED
        BY <3>1, <3>3, <3>4
    <3> HIDE DEF j, p
    <3>7. k + 1 < 2 ^ f[k + 1]
      BY <3>5, <3>6
    <3>8. \A x \in 0 .. k + 1 : x < 2 ^ f[x]
      <4> SUFFICES ASSUME NEW x \in 0 .. k + 1 PROVE x < 2 ^ f[x]
        OBVIOUS
      <4>1. CASE x = k + 1
        BY <3>7, <4>1
      <4>2. CASE x # k + 1
        <5>1. x \in 0 .. k
          BY <4>2
        <5>2. QED
          BY <2>2, <5>1
      <4>3. QED
        BY <4>1, <4>2
    <3>9. QED
      BY <3>1, <3>8
  <2> HIDE DEF T
  <2>3. v \in T
    <3>1. \A k \in 0 .. v : k \in T
      BY <2>1, <2>2, Induction
    <3>2. QED
      BY <3>1
  <2>4. QED
    BY <2>3 DEF T
<1>6. QED
  BY <1>2, <1>3, <1>4, <1>5

\* Rounding up to a multiple of y adds less than y.
LEMMA CeilDivIs ==
  ASSUME NEW x \in Nat, NEW y \in Nat \ {0}
  PROVE  CeilDiv(x, y) \in Nat /\ y * CeilDiv(x, y) - x \in 0 .. y - 1
<1> DEFINE n == x + y - 1
           d == n \div y
           r == n % y
<1>1. n \in Nat
  OBVIOUS
<1>2. n = x + y - 1
  OBVIOUS
<1> HIDE DEF n
<1>3. d \in Nat /\ r \in 0 .. y - 1 /\ n = y * d + r
  BY <1>1
<1> DEFINE z == y * d
<1>4. z \in Nat /\ n = z + r
  BY <1>3
<1> HIDE DEF d, r, z
<1>5. z - x \in 0 .. y - 1
  BY <1>2, <1>3, <1>4
<1>6. CeilDiv(x, y) = d
  BY DEF CeilDiv, d, n
<1>7. QED
  BY <1>3, <1>5, <1>6 DEF z

\* It is the only multiple that does.
LEMMA CeilDivOnly ==
  ASSUME NEW x \in Nat, NEW y \in Nat \ {0}, NEW k \in Nat, y * k - x \in 0 .. y - 1
  PROVE  k = CeilDiv(x, y)
<1> DEFINE c == CeilDiv(x, y)
           a == y * k - x
           b == y * c - x
<1>1. c \in Nat /\ b \in 0 .. y - 1
  BY CeilDivIs
<1>2. y * k \in Nat /\ y * c \in Nat
  BY <1>1
<1>3. a \in 0 .. y - 1
  OBVIOUS
<1>4. a + c * y = b + k * y
  <2>1. c * y = y * c /\ k * y = y * k
    BY <1>1
  <2> DEFINE u == y * k
             v == y * c
  <2>2. u \in Nat /\ v \in Nat /\ a = u - x /\ b = v - x
    BY <1>2
  <2> HIDE DEF u, v, a, b, c
  <2>3. a + v = b + u
    BY <2>2
  <2>4. QED
    BY <2>1, <2>3 DEF u, v
<1> HIDE DEF a, b, c
<1>5. QED
  BY <1>1, <1>3, <1>4, SameDivision DEF c

----------------------------------------------------------------------------
(* The sizes of the streams. *)

LEMMA ParamsAre ==
  ASSUME NEW p \in ParamSets
  PROVE  /\ p.q \in Nat \ {0, 1} /\ p.n \in Nat \ {0} /\ p.splits_per_cluster \in Nat \ {0}
         /\ p.embedding_length \in Nat \ {0} /\ p.num_clusters \in Nat \ {0}
         /\ p.num_component_rings \in Nat \ {0}
         /\ p.decomposition_base_ksk \in Nat \ {0, 1} /\ p.decomposition_base_prime \in Nat \ {0, 1}
         /\ InMemory(p.q) \subseteq Int
         /\ BitsPerByte \in Nat \ {0} /\ SeedBytes \in Nat
BY PackingAssumption

\* width bits hold every residue.
LEMMA ShapeIs ==
  ASSUME NEW p \in ParamSets
  PROVE  /\ CoefficientBitWidth(p) \in Nat /\ CoefficientBitWidth(p) >= 1
         /\ p.q <= 2 ^ CoefficientBitWidth(p)
         /\ AutomorphismLevels(p) \in Nat /\ KskDigits(p) \in Nat /\ PrimeDigits(p) \in Nat
<1>1. /\ p.q - 1 \in Nat /\ p.q - 1 # 0 /\ p.q \in Nat /\ p.n \in Nat /\ p.n # 0
      /\ 2 \in Nat \ {0, 1}
      /\ p.decomposition_base_ksk \in Nat \ {0, 1} /\ p.decomposition_base_prime \in Nat \ {0, 1}
  BY ParamsAre
<1>2. /\ DigitCount(p.q - 1, 2) \in Nat /\ DigitCount(p.q - 1, 2) >= 1
      /\ p.q - 1 < 2 ^ DigitCount(p.q - 1, 2)
  BY <1>1, DigitCountProperties
<1>3. 2 ^ DigitCount(p.q - 1, 2) \in Nat
  BY <1>2, PowerIsPositive
<1>4. DigitCount(p.n, 2) \in Nat /\ DigitCount(p.n, 2) >= 1
  BY <1>1, DigitCountProperties
<1>5. KskDigits(p) \in Nat /\ PrimeDigits(p) \in Nat
  BY <1>1, DigitCountProperties DEF KskDigits, PrimeDigits, PowerTimes
<1>6. AutomorphismLevels(p) \in Nat
  BY <1>4 DEF AutomorphismLevels
<1>7. p.q <= 2 ^ CoefficientBitWidth(p)
  BY <1>1, <1>2, <1>3 DEF CoefficientBitWidth
<1>8. QED
  BY <1>2, <1>5, <1>6, <1>7 DEF CoefficientBitWidth

\* Bytes before the coefficients.
Start(of) == IF Seeded(of) THEN SeedBytes ELSE 0

BodyBytes(p, of) == BitsToBytes(CoefficientBitWidth(p) * Coefficients(p, of))

LEMMA StreamsAre ==
  ASSUME NEW p \in ParamSets, NEW of \in Streams(p)
  PROVE  \/ of.kind = "keys" /\ of = Keys
         \/ of.kind = "query" /\ of.ring \in Rings(p) /\ of = Query(of.ring)
         \/ of.kind = "response" /\ of = Response
BY DEF Streams, Keys, Query, Response

LEMMA KeysAre ==
  ASSUME NEW p \in ParamSets
  PROVE  /\ KeysCoefficients(p) \in Nat
         /\ AutomorphismLevels(p) * KskDigits(p) * p.n + PrimeDigits(p) * p.n = KeysCoefficients(p)
<1> DEFINE l == AutomorphismLevels(p)
           k == KskDigits(p)
           d == PrimeDigits(p)
           n == p.n
<1>1. l \in Nat /\ k \in Nat /\ d \in Nat /\ n \in Nat
  BY ShapeIs, ParamsAre
<1> HIDE DEF l, k, d, n
<1>2. l * k \in Nat
  BY <1>1
<1>3. (l * k + d) * n = l * k * n + d * n /\ (l * k + d) * n \in Nat
  <2> DEFINE x == l * k
  <2>1. x \in Nat
    BY <1>2
  <2> HIDE DEF x
  <2>2. (x + d) * n = x * n + d * n /\ (x + d) * n \in Nat
    BY <1>1, <2>1
  <2>3. QED
    BY <2>2 DEF x
<1>4. QED
  BY <1>3 DEF KeysCoefficients, l, k, d, n

LEMMA QueryIs ==
  ASSUME NEW p \in ParamSets, NEW ring \in Rings(p)
  PROVE  QueryCoefficients(p, ring) \in Nat
<1> DEFINE x == p.num_clusters * PrimeDigits(p)
<1>1. x \in Nat /\ p.embedding_length \in Nat
  <2>1. p.num_clusters \in Nat /\ PrimeDigits(p) \in Nat /\ p.embedding_length \in Nat
    BY ShapeIs, ParamsAre
  <2>2. QED
    BY <2>1, ProductIsNatural
<1> HIDE DEF x
<1>2. p.embedding_length + (IF ring = 0 THEN x ELSE 0) \in Nat
  BY <1>1
<1>3. QED
  BY <1>2 DEF QueryCoefficients, x

LEMMA ResponseIs ==
  ASSUME NEW p \in ParamSets
  PROVE  /\ ResponseCoefficients(p) \in Nat
         /\ CoefficientBitWidth(p) * p.splits_per_cluster * 2 * p.n
              = CoefficientBitWidth(p) * ResponseCoefficients(p)
<1> DEFINE w == CoefficientBitWidth(p)
           c == p.splits_per_cluster
           n == p.n
<1>1. w \in Nat /\ c \in Nat /\ n \in Nat
  BY ShapeIs, ParamsAre
<1> HIDE DEF w, c, n
<1>2. c * (n + n) \in Nat
  BY <1>1
<1>3. w * c * 2 * n = w * (c * (n + n))
  <2>1. c * (n + n) = 2 * (c * n) /\ c * n \in Nat
    BY <1>1
  <2> DEFINE z == c * n
  <2> HIDE DEF z
  <2>2. w * c * 2 * n = 2 * ((w * c) * n) /\ (w * c) * n = w * (c * n)
    BY <1>1
  <2>3. z \in Nat /\ w * (2 * z) = 2 * (w * z)
    BY <1>1, <2>1 DEF z
  <2>4. QED
    BY <2>1, <2>2, <2>3 DEF z
<1>4. QED
  BY <1>2, <1>3 DEF ResponseCoefficients, w, c, n

\* A stream is the seed and its coefficients' bits, in whole bytes.
LEMMA StreamBytesAre ==
  ASSUME NEW p \in ParamSets, NEW of \in Streams(p)
  PROVE  /\ Coefficients(p, of) \in Nat
         /\ StreamBytes(p, of) = Start(of) + BodyBytes(p, of)
<1> DEFINE w == CoefficientBitWidth(p)
<1>1. CASE of.kind = "keys"
  <2>1. Coefficients(p, of) = KeysCoefficients(p) /\ StreamBytes(p, of) = PublicMaterialStreamBytes(p)
    BY <1>1 DEF Coefficients, StreamBytes
  <2>2. Start(of) = SeedBytes
    BY <1>1 DEF Start, Seeded
  <2>3. PublicMaterialStreamBytes(p) = SeedBytes + BitsToBytes(w * KeysCoefficients(p))
    BY KeysAre DEF PublicMaterialStreamBytes
  <2>4. QED
    BY <2>1, <2>2, <2>3, KeysAre DEF BodyBytes
<1>2. CASE of.kind = "query"
  <2>1. of.ring \in Rings(p)
    BY <1>2, StreamsAre
  <2>2. Coefficients(p, of) = QueryCoefficients(p, of.ring) /\ StreamBytes(p, of) = QueryStreamBytes(p, of.ring)
    BY <1>2 DEF Coefficients, StreamBytes
  <2>3. Start(of) = SeedBytes
    BY <1>2 DEF Start, Seeded
  <2>4. QueryStreamBytes(p, of.ring) = SeedBytes + BitsToBytes(w * QueryCoefficients(p, of.ring))
    BY DEF QueryStreamBytes, QueryCoefficients
  <2>5. QED
    BY <2>1, <2>2, <2>3, <2>4, QueryIs DEF BodyBytes
<1>3. CASE of.kind = "response"
  <2>1. Coefficients(p, of) = ResponseCoefficients(p) /\ StreamBytes(p, of) = ResponseStreamBytes(p)
    BY <1>3 DEF Coefficients, StreamBytes
  <2>2. Start(of) = 0
    BY <1>3 DEF Start, Seeded
  <2>3. ResponseStreamBytes(p) = BitsToBytes(w * ResponseCoefficients(p))
    BY ResponseIs DEF ResponseStreamBytes
  <2> DEFINE x == w * ResponseCoefficients(p)
  <2>4. BitsToBytes(x) \in Nat
    <3>1. x \in Nat
      BY ShapeIs, ResponseIs, ProductIsNatural
    <3> HIDE DEF x
    <3>2. QED
      BY <3>1, ParamsAre, CeilDivIs DEF BitsToBytes
  <2>5. QED
    BY <2>1, <2>2, <2>3, <2>4, ResponseIs DEF BodyBytes
<1>4. QED
  BY <1>1, <1>2, <1>3, StreamsAre

\* The bytes are as few as the bits allow.
LEMMA BodyBytesAre ==
  ASSUME NEW p \in ParamSets, NEW of \in Streams(p)
  PROVE  /\ CoefficientBitWidth(p) * Coefficients(p, of) \in Nat
         /\ BodyBytes(p, of) \in Nat /\ Start(of) \in Nat
         /\ BitsPerByte * BodyBytes(p, of) - CoefficientBitWidth(p) * Coefficients(p, of)
              \in 0 .. BitsPerByte - 1
<1> DEFINE x == CoefficientBitWidth(p) * Coefficients(p, of)
<1>1. x \in Nat
  BY ShapeIs, StreamBytesAre, ProductIsNatural
<1> HIDE DEF x
<1>2. BitsToBytes(x) \in Nat /\ BitsPerByte * BitsToBytes(x) - x \in 0 .. BitsPerByte - 1
  BY <1>1, ParamsAre, CeilDivIs DEF BitsToBytes
<1>3. Start(of) \in Nat
  BY ParamsAre DEF Start
<1>4. QED
  BY <1>1, <1>2, <1>3 DEF BodyBytes, x

----------------------------------------------------------------------------
(* The theoretical cost. *)

LEMMA SeedAndBody ==
  ASSUME NEW y \in Nat, NEW x \in Nat
  PROVE  IsPadding(SeedBytes + BitsToBytes(x), SeedBits + x, 1)
         /\ IsPadding(BitsToBytes(x), x, 1)
<1> DEFINE d == BitsToBytes(x)
           b == BitsPerByte
           e == SeedBytes
<1>1. d \in Nat /\ b * d - x \in 0 .. b - 1 /\ b \in Nat \ {0} /\ e \in Nat
  BY PackingAssumption, CeilDivIs DEF BitsToBytes
<1> HIDE DEF d
<1>2. (e + d) * b = b * e + b * d /\ d * b = b * d /\ b * e \in Nat /\ b * d \in Nat
  BY <1>1
<1> DEFINE u == b * e
           v == b * d
<1> HIDE DEF u, v
<1>3. (e + d) * b - (u + x) \in 0 .. b - 1 /\ d * b - x \in 0 .. b - 1
  BY <1>1, <1>2 DEF u, v
<1>4. 1 * (b - 1) = b - 1
  BY <1>1
<1>5. QED
  BY <1>3, <1>4 DEF IsPadding, SeedBits, d, u

\* Paddings add up.
LEMMA PaddingsAdd ==
  ASSUME NEW x \in Int, NEW y \in Int, NEW j \in Nat, NEW a \in Int, NEW c \in Int, NEW k \in Nat,
         IsPadding(x, y, j), IsPadding(a, c, k)
  PROVE  IsPadding(x + a, y + c, j + k)
<1> DEFINE b == BitsPerByte
           m == b - 1
           u == x * b
           v == a * b
           f == j * m
           g == k * m
<1>1. b \in Int /\ m \in Int
  BY PackingAssumption
<1>2. u \in Int /\ v \in Int /\ f \in Int /\ g \in Int
  BY <1>1
<1>3. (x + a) * b = u + v /\ (j + k) * m = f + g
  BY <1>1
<1>4. u - y \in 0 .. f /\ v - c \in 0 .. g
  BY DEF IsPadding
<1> HIDE DEF b, m, u, v, f, g
<1>5. (u + v) - (y + c) \in 0 .. f + g
  BY <1>2, <1>4
<1>6. QED
  BY <1>3, <1>5 DEF IsPadding, b, m

LEMMA KeysPadding ==
  ASSUME NEW p \in ParamSets
  PROVE  IsPadding(StreamBytes(p, Keys), KeysBits(p), 1)
<1> DEFINE x == CoefficientBitWidth(p) * KeysCoefficients(p)
<1>1. x \in Nat
  BY ShapeIs, KeysAre, ProductIsNatural
<1> HIDE DEF x
<1>2. IsPadding(SeedBytes + BitsToBytes(x), SeedBits + x, 1)
  BY <1>1, SeedAndBody
<1>3. StreamBytes(p, Keys) = SeedBytes + BitsToBytes(x)
  BY KeysAre DEF StreamBytes, Keys, PublicMaterialStreamBytes, x
<1>4. KeysBits(p) = SeedBits + x
  BY KeysAre DEF KeysBits, x
<1>5. QED
  BY <1>2, <1>3, <1>4

\* The sum of the queries' streams.
LEMMA UploadIs ==
  ASSUME NEW p \in ParamSets
  PROVE  \E f : /\ f \in [0 .. p.num_component_rings -> Nat] /\ f[0] = 0
                /\ \A k \in 1 .. p.num_component_rings : f[k] = f[k - 1] + StreamBytes(p, Query(k - 1))
                /\ UploadBytes(p) = f[p.num_component_rings]
<1> DEFINE r == p.num_component_rings
           bytes(k) == StreamBytes(p, Query(k - 1))
           d == [k \in 1 .. r |-> bytes(k)]
           Def(g) == g = [k \in 0 .. r |-> IF k = 0 THEN 0 ELSE g[k - 1] + bytes(k)]
           g == CHOOSE g : Def(g)
<1>1. r \in Nat \ {0}
  BY ParamsAre
<1>2. d \in [1 .. r -> Nat]
  <2>1. ASSUME NEW k \in 1 .. r PROVE bytes(k) \in Nat
    <3> DEFINE of == Query(k - 1)
    <3>1. of \in Streams(p)
      <4>1. k - 1 \in Rings(p)
        BY <1>1 DEF Rings
      <4>2. QED
        BY <4>1 DEF Streams
    <3> HIDE DEF of
    <3>2. BodyBytes(p, of) \in Nat /\ Start(of) \in Nat /\ StreamBytes(p, of) = Start(of) + BodyBytes(p, of)
      BY <3>1, BodyBytesAre, StreamBytesAre
    <3>3. StreamBytes(p, of) \in Nat
      BY <3>2
    <3>4. QED
      BY <3>3 DEF of
  <2> HIDE DEF bytes
  <2>2. QED
    BY <2>1
<1> HIDE DEF r
<1>3. PICK f : Numbers(f, d, 0, r)
  BY <1>1, <1>2, NumbersExist
<1> HIDE DEF bytes
<1>4. /\ f \in [0 .. r -> Nat] /\ f[0] = 0
      /\ \A k \in 1 .. r : f[k] = f[k - 1] + bytes(k)
  <2>1. f \in [0 .. r -> Nat] /\ f[0] = 0
    BY <1>3 DEF Numbers
  <2>2. ASSUME NEW k \in 1 .. r PROVE f[k] = f[k - 1] + bytes(k)
    <3>1. f[k] = f[k - 1] + d[k] * 2 ^ (0 * (k - 1))
      BY <1>3 DEF Numbers
    <3>2. d[k] \in Nat /\ d[k] = bytes(k)
      BY <1>2
    <3>3. 0 * (k - 1) = 0 /\ 2 ^ 0 = 1
      BY PowerStep
    <3>4. d[k] * 1 = d[k]
      BY <3>2
    <3>5. QED
      BY <3>1, <3>2, <3>3, <3>4
  <2>3. QED
    BY <2>1, <2>2
<1> HIDE DEF d
<1>5. Def(f)
  BY <1>1, <1>4
<1>6. Def(g)
  BY <1>5
<1>7. UploadBytes(p) = g[r]
  BY DEF UploadBytes, bytes, r
<1> DEFINE T == {k \in 0 .. r : g[k] = f[k]}
<1>8. g[0] = 0 /\ \A k \in 1 .. r : g[k] = g[k - 1] + bytes(k)
  <2> HIDE DEF g
  <2>1. \A k \in 0 .. r : g[k] = IF k = 0 THEN 0 ELSE g[k - 1] + bytes(k)
    BY <1>6
  <2>2. 0 \in 0 .. r /\ \A k \in 1 .. r : k \in 0 .. r /\ k # 0
    BY <1>1
  <2>3. QED
    BY <2>1, <2>2
<1> HIDE DEF g
<1>9. 0 \in T
  BY <1>1, <1>4, <1>8
<1>10. ASSUME NEW k \in 0 .. r - 1, k \in T PROVE k + 1 \in T
  <2>1. k + 1 \in 1 .. r /\ (k + 1) - 1 = k /\ k + 1 \in 0 .. r
    BY <1>1
  <2>2. g[k] = f[k]
    BY <1>10
  <2>3. g[k + 1] = g[k] + bytes(k + 1) /\ f[k + 1] = f[k] + bytes(k + 1)
    BY <1>4, <1>8, <2>1
  <2>4. QED
    BY <2>1, <2>2, <2>3
<1> HIDE DEF T
<1>11. r \in T
  <2>1. \A k \in 0 .. r : k \in T
    BY <1>1, <1>9, <1>10, Induction
  <2>2. QED
    BY <1>1, <2>1
<1>12. UploadBytes(p) = f[r]
  BY <1>7, <1>11 DEF T
<1>13. QED
  BY <1>4, <1>12 DEF bytes, r

LEMMA UploadPadding ==
  ASSUME NEW p \in ParamSets
  PROVE  IsPadding(UploadBytes(p), UploadBits(p), p.num_component_rings)
<1> DEFINE r == p.num_component_rings
           e == p.embedding_length
           c == p.num_clusters * PrimeDigits(p)
           w == CoefficientBitWidth(p)
           bits(k) == k * SeedBits + w * (k * e + (IF k = 0 THEN 0 ELSE c))
<1>1. r \in Nat \ {0} /\ e \in Nat /\ c \in Nat /\ w \in Nat /\ SeedBits \in Nat
  <2>1. p.num_clusters \in Nat /\ PrimeDigits(p) \in Nat /\ BitsPerByte \in Nat /\ SeedBytes \in Nat
    BY ParamsAre, ShapeIs
  <2>2. c \in Nat /\ SeedBits \in Nat
    BY <2>1, ProductIsNatural DEF SeedBits
  <2>3. QED
    BY <2>2, ParamsAre, ShapeIs
<1>2. PICK f : /\ f \in [0 .. r -> Nat] /\ f[0] = 0
               /\ \A k \in 1 .. r : f[k] = f[k - 1] + StreamBytes(p, Query(k - 1))
               /\ UploadBytes(p) = f[r]
  BY UploadIs
<1> DEFINE T == {k \in 0 .. r : IsPadding(f[k], bits(k), k)}
<1>3. 0 \in T
  <2>1. bits(0) = 0
    <3> HIDE DEF r, e, c, w
    <3>1. QED
      BY <1>1
  <2>2. 0 * BitsPerByte = 0 /\ 0 * (BitsPerByte - 1) = 0
    BY PackingAssumption
  <2> HIDE DEF bits
  <2>3. IsPadding(f[0], bits(0), 0)
    BY <1>2, <2>1, <2>2 DEF IsPadding
  <2>4. QED
    BY <1>1, <2>3
<1>4. ASSUME NEW k \in 0 .. r - 1, k \in T PROVE k + 1 \in T
  <2> DEFINE x == w * QueryCoefficients(p, k)
  <2>1. k \in Rings(p) /\ k + 1 \in 1 .. r /\ (k + 1) - 1 = k /\ k + 1 \in 0 .. r /\ k \in 0 .. r
    BY <1>1 DEF Rings
  <2>2. f[k + 1] = f[k] + (SeedBytes + BitsToBytes(x))
    <3>1. StreamBytes(p, Query(k)) = SeedBytes + BitsToBytes(x)
      BY DEF StreamBytes, Query, QueryStreamBytes, QueryCoefficients
    <3>2. f[k + 1] = f[k] + StreamBytes(p, Query((k + 1) - 1))
      BY <1>2, <2>1
    <3>3. QED
      BY <2>1, <3>1, <3>2
  <2>3. x \in Nat
    BY <1>1, <2>1, QueryIs, ProductIsNatural
  <2>4. BitsToBytes(x) \in Nat /\ SeedBytes \in Nat
    BY <2>3, PackingAssumption, CeilDivIs DEF BitsToBytes
  <2>5. IsPadding(SeedBytes + BitsToBytes(x), SeedBits + x, 1)
    BY <2>3, SeedAndBody
  <2>6. bits(k + 1) = bits(k) + (SeedBits + x) /\ bits(k) \in Int
    <3> DEFINE y == IF k = 0 THEN c ELSE 0
               z == IF k = 0 THEN 0 ELSE c
    <3>1. x = w * (e + y)
      BY DEF QueryCoefficients
    <3>2. y \in Nat /\ z \in Nat /\ y + z = c /\ k \in Nat /\ k + 1 # 0
      BY <1>1
    <3>3. bits(k + 1) = (k + 1) * SeedBits + w * ((k + 1) * e + c) /\ bits(k) = k * SeedBits + w * (k * e + z)
      BY <3>2
    <3> HIDE DEF e, c, w, x, y, z, bits
    <3>4. (k + 1) * e = k * e + e /\ k * e \in Nat
      BY <1>1, <3>2
    <3> DEFINE u == k * e
    <3> HIDE DEF u
    <3>5. w * ((u + e) + c) = w * (u + z) + w * (e + y)
      BY <1>1, <3>2, <3>4 DEF u
    <3>6. (k + 1) * SeedBits = k * SeedBits + SeedBits /\ k * SeedBits \in Nat
      BY <1>1, <3>2
    <3>7. w * (u + z) \in Nat /\ w * (e + y) \in Nat
      BY <1>1, <3>2, <3>4 DEF u
    <3>8. (k + 1) * SeedBits + w * ((u + e) + c) = (k * SeedBits + w * (u + z)) + (SeedBits + w * (e + y))
      <4> DEFINE v == k * SeedBits
                 v1 == w * (u + z)
                 v2 == w * (e + y)
      <4>1. v \in Nat /\ v1 \in Nat /\ v2 \in Nat
        BY <3>6, <3>7
      <4> HIDE DEF v, v1, v2
      <4>2. (v + SeedBits) + (v1 + v2) = (v + v1) + (SeedBits + v2)
        BY <1>1, <4>1
      <4>3. QED
        BY <3>5, <3>6, <4>2 DEF v, v1, v2
    <3>9. k * SeedBits + w * (u + z) \in Int
      BY <3>6, <3>7
    <3>10. QED
      BY <3>1, <3>3, <3>4, <3>8, <3>9 DEF u
  <2> HIDE DEF bits, x
  <2>7. f[k] \in Int /\ SeedBytes + BitsToBytes(x) \in Int /\ SeedBits + x \in Int /\ k \in Nat
    <3>1. f[k] \in Nat /\ k \in Nat
      <4>1. f \in [0 .. r -> Nat]
        BY <1>2
      <4> HIDE DEF r
      <4>2. QED
        BY <2>1, <4>1
    <3>2. SeedBytes + BitsToBytes(x) \in Int
      BY <2>4
    <3>3. SeedBits + x \in Int
      BY <1>1, <2>3
    <3>4. QED
      BY <3>1, <3>2, <3>3
  <2>8. IsPadding(f[k], bits(k), k)
    BY <1>4
  <2>9. IsPadding(f[k] + (SeedBytes + BitsToBytes(x)), bits(k) + (SeedBits + x), k + 1)
    BY <2>5, <2>6, <2>7, <2>8, PaddingsAdd
  <2>10. QED
    BY <2>1, <2>2, <2>6, <2>9
<1>5. bits(r) = UploadBits(p)
  BY <1>1 DEF UploadBits
<1> HIDE DEF T, bits
<1>6. r \in T
  <2>1. \A k \in 0 .. r : k \in T
    BY <1>1, <1>3, <1>4, Induction
  <2>2. QED
    BY <1>1, <2>1
<1>7. QED
  BY <1>2, <1>5, <1>6 DEF T

LEMMA DownloadPadding ==
  ASSUME NEW p \in ParamSets
  PROVE  IsPadding(p.num_component_rings * StreamBytes(p, Response), DownloadBits(p), p.num_component_rings)
<1> DEFINE r == p.num_component_rings
           x == CoefficientBitWidth(p) * ResponseCoefficients(p)
           d == BitsToBytes(x)
           T == {k \in 0 .. r : IsPadding(k * d, k * x, k)}
<1>1. r \in Nat /\ x \in Nat
  BY ParamsAre, ShapeIs, ResponseIs, ProductIsNatural
<1>2. StreamBytes(p, Response) = d
  BY ResponseIs DEF StreamBytes, Response, ResponseStreamBytes
<1>3. DownloadBits(p) = r * x
  <2> DEFINE w == CoefficientBitWidth(p)
             c == p.splits_per_cluster
             n == p.n
  <2>1. w \in Nat /\ c \in Nat /\ n \in Nat /\ r \in Nat
    BY ShapeIs, ParamsAre
  <2>2. w * r * c * 2 * n = r * (w * c * 2 * n)
    <3> HIDE DEF w, c, n, r
    <3>1. w * r * c * 2 * n = ((r * w) * c) * (2 * n) /\ (r * w) * c = r * (w * c)
      BY <2>1
    <3>2. w * c \in Nat /\ 2 * n \in Nat /\ w * c * 2 * n = (w * c) * (2 * n)
      BY <2>1
    <3>3. (r * (w * c)) * (2 * n) = r * ((w * c) * (2 * n))
      <4> DEFINE u == w * c
                 v == 2 * n
      <4>1. u \in Nat /\ v \in Nat
        BY <3>2
      <4> HIDE DEF u, v
      <4>2. (r * u) * v = r * (u * v)
        BY <2>1, <4>1
      <4>3. QED
        BY <4>2 DEF u, v
    <3>4. QED
      BY <3>1, <3>2, <3>3
  <2>3. QED
    BY <2>2, ResponseIs DEF DownloadBits
<1> HIDE DEF x
<1>4. d \in Nat
  BY <1>1, PackingAssumption, CeilDivIs DEF BitsToBytes
<1>5. IsPadding(d, x, 1)
  BY <1>1, SeedAndBody
<1> HIDE DEF d, r
<1>6. 0 \in T
  <2>1. 0 * d = 0 /\ 0 * x = 0 /\ 0 * BitsPerByte = 0 /\ 0 * (BitsPerByte - 1) = 0
    BY <1>1, <1>4, PackingAssumption
  <2>2. IsPadding(0 * d, 0 * x, 0)
    BY <2>1 DEF IsPadding
  <2>3. QED
    BY <1>1, <2>2
<1>7. ASSUME NEW k \in 0 .. r - 1, k \in T PROVE k + 1 \in T
  <2>1. k \in Nat /\ k + 1 \in 0 .. r /\ k * d \in Int /\ k * x \in Int
    BY <1>1, <1>4
  <2>2. (k + 1) * d = k * d + d /\ (k + 1) * x = k * x + x
    BY <1>1, <1>4
  <2>3. IsPadding(k * d + d, k * x + x, k + 1)
    <3>1. IsPadding(k * d, k * x, k)
      BY <1>7
    <3>2. d \in Int /\ x \in Int /\ 1 \in Nat
      BY <1>1, <1>4
    <3> DEFINE u == k * d
               v == k * x
    <3> HIDE DEF u, v
    <3>3. IsPadding(u + d, v + x, k + 1)
      BY <1>5, <2>1, <3>1, <3>2, PaddingsAdd DEF u, v
    <3>4. QED
      BY <3>3 DEF u, v
  <2>4. QED
    BY <2>1, <2>2, <2>3
<1> HIDE DEF T
<1>8. r \in T
  <2>1. \A k \in 0 .. r : k \in T
    BY <1>1, <1>6, <1>7, Induction
  <2>2. QED
    BY <1>1, <2>1
<1>9. QED
  BY <1>2, <1>3, <1>8 DEF T, r

\* What the packer puts for a coefficient.
Reduced(list, q) == [i \in 1 .. Len(list) |-> list[i] % q]

LEMMA CanonicalIs ==
  ASSUME NEW v \in Int, NEW q \in Nat \ {0}
  PROVE  Canonical(v, q) = v % q /\ v % q \in 0 .. q - 1
<1>1. v % q \in 0 .. q - 1
  OBVIOUS
<1>2. CASE v >= 0
  <2>1. Remainder(v, q) = v % q /\ v % q >= 0
    BY <1>1, <1>2 DEF Remainder
  <2>2. QED
    BY <1>1, <2>1 DEF Canonical
<1>3. CASE v < 0
  <2> DEFINE a == (-v) \div q
             m == (-v) % q
             c == IF m = 0 THEN 0 ELSE q - m
             d == IF m = 0 THEN -a ELSE -a - 1
  <2>1. -v \in Nat
    BY <1>3
  <2>2. a \in Int /\ m \in 0 .. q - 1 /\ -v = a * q + m
    BY <2>1
  <2>3. Remainder(v, q) = -m
    BY <1>3 DEF Remainder
  <2> HIDE DEF a, m
  <2>4. Canonical(v, q) = c
    BY <2>2, <2>3 DEF Canonical
  <2>5. c \in 0 .. q - 1 /\ d \in Int
    BY <2>2
  <2>6. v = d * q + c
    <3>1. (-a) * q = -(a * q) /\ (-a - 1) * q = -(a * q) - q /\ a * q \in Int
      BY <2>2
    <3> DEFINE z == a * q
    <3> HIDE DEF z
    <3>2. z \in Int /\ v = -z - m
      BY <2>2, <3>1 DEF z
    <3>3. CASE m = 0
      BY <3>1, <3>2, <3>3 DEF z
    <3>4. CASE m # 0
      <4>1. d * q = -z - q
        BY <3>1, <3>4 DEF z
      <4>2. c = q - m
        BY <3>4
      <4> HIDE DEF c, d
      <4>3. v = (-z - q) + (q - m)
        BY <2>2, <3>2
      <4>4. QED
        BY <4>1, <4>2, <4>3
    <3>5. QED
      BY <3>3, <3>4
  <2> HIDE DEF c, d
  <2>7. (d * q + c) % q = c
    BY <2>5
  <2>8. QED
    BY <1>1, <2>4, <2>6, <2>7
<1>4. QED
  BY <1>1, <1>2, <1>3

LEMMA ReducedGrows ==
  ASSUME NEW q \in Nat \ {0}, NEW width \in Nat, q <= 2 ^ width, NEW w \in Seq(Int), NEW v \in Int
  PROVE  /\ Reduced(w, q) \in Seq(Digits(width)) /\ Len(Reduced(w, q)) = Len(w)
         /\ v % q \in Digits(width)
         /\ Reduced(Append(w, v), q) = Reduced(w, q) \o <<v % q>>
<1>1. \A x \in Int : x % q \in Digits(width)
  <2> SUFFICES ASSUME NEW x \in Int PROVE x % q \in Digits(width)
    OBVIOUS
  <2>1. x % q \in 0 .. q - 1 /\ 2 ^ width \in Nat
    BY PowerIsPositive
  <2>2. QED
    BY <2>1 DEF Digits
<1>2. ASSUME NEW t \in Seq(Int)
      PROVE  /\ Reduced(t, q) \in Seq(Digits(width)) /\ Len(Reduced(t, q)) = Len(t)
             /\ \A i \in 1 .. Len(t) : Reduced(t, q)[i] = t[i] % q
  <2>1. \A i \in 1 .. Len(t) : t[i] % q \in Digits(width)
    <3>1. \A i \in 1 .. Len(t) : t[i] \in Int
      OBVIOUS
    <3>2. QED
      BY <1>1, <3>1
  <2>2. Len(t) \in Nat
    OBVIOUS
  <2> DEFINE n == Len(t)
             x(i) == t[i] % q
             u == [i \in 1 .. n |-> x(i)]
  <2>3. n \in Nat /\ \A i \in 1 .. n : x(i) \in Digits(width)
    BY <2>1, <2>2
  <2> HIDE DEF n, x
  <2>4. u \in Seq(Digits(width)) /\ Len(u) = n /\ \A i \in 1 .. n : u[i] = x(i)
    BY <2>3
  <2>5. QED
    BY <2>4 DEF Reduced, n, x
<1> DEFINE a == Append(w, v)
           y == v % q
           l == Reduced(a, q)
           r == Append(Reduced(w, q), y)
<1>3. /\ a \in Seq(Int) /\ Len(a) = Len(w) + 1 /\ a[Len(w) + 1] = v
      /\ \A i \in 1 .. Len(w) : a[i] = w[i]
  BY AppendProperties
<1>4. y \in Digits(width)
  BY <1>1
<1>5. /\ Reduced(w, q) \in Seq(Digits(width)) /\ Len(Reduced(w, q)) = Len(w) /\ Len(w) \in Nat
      /\ \A i \in 1 .. Len(w) : Reduced(w, q)[i] = w[i] % q
  BY <1>2
<1> HIDE DEF a
<1>6. /\ l \in Seq(Digits(width)) /\ Len(l) = Len(w) + 1
      /\ \A i \in 1 .. Len(w) + 1 : l[i] = a[i] % q
  BY <1>2, <1>3
<1>7. y = v % q
  OBVIOUS
<1> HIDE DEF y, l
<1>8. /\ r \in Seq(Digits(width)) /\ Len(r) = Len(w) + 1 /\ r[Len(w) + 1] = y
      /\ \A i \in 1 .. Len(w) : r[i] = Reduced(w, q)[i]
  BY <1>4, <1>5, AppendProperties
<1>9. r = Reduced(w, q) \o <<y>>
  BY <1>4, <1>5, AppendIsConcat
<1> HIDE DEF r
<1>10. \A i \in 1 .. Len(l) : l[i] = r[i]
  <2> SUFFICES ASSUME NEW i \in 1 .. Len(w) + 1 PROVE l[i] = r[i]
    BY <1>6
  <2>1. CASE i = Len(w) + 1
    BY <1>3, <1>6, <1>7, <1>8, <2>1
  <2>2. CASE i # Len(w) + 1
    <3>1. i \in 1 .. Len(w)
      BY <1>5, <2>2
    <3>2. QED
      BY <1>3, <1>5, <1>6, <1>8, <3>1
  <2>3. QED
    BY <2>1, <2>2
<1>11. l = r
  BY <1>6, <1>8, <1>10, SeqEqual
<1>12. QED
  BY <1>4, <1>5, <1>9, <1>11 DEF l, y, a

\* A number has one digit 2 ^ width wide at a place.
LEMMA OneDigit ==
  ASSUME NEW width \in Nat, NEW x \in Digits(width)
  PROVE  <<x>> \in Seq(Digits(width)) /\ Len(<<x>>) = 1 /\ Number(<<x>>, width) = x
<1>1. <<x>> \in Seq(Digits(width)) /\ Len(<<x>>) = 1 /\ <<x>> = Append(<<>>, x)
  OBVIOUS
<1>2. x \in Nat /\ <<>> \in Seq(Nat) /\ Len(<<>>) = 0
  BY DEF Digits
<1>3. Number(Append(<<>>, x), width) = Number(<<>>, width) + x * 2 ^ (width * 0) /\ Number(<<>>, width) = 0
  BY <1>2, NumberSteps
<1>4. 2 ^ (width * 0) = 1
  <2>1. width * 0 = 0 /\ 2 ^ 0 = 1
    BY PowerStep
  <2>2. QED
    BY <2>1
<1>5. Number(Append(<<>>, x), width) = 0 + x * 1
  BY <1>2, <1>3, <1>4
<1>6. 0 + x * 1 = x
  BY <1>2
<1>7. Number(<<x>>, width) = Number(Append(<<>>, x), width)
  BY <1>1
<1>8. QED
  BY <1>1, <1>5, <1>6, <1>7

LEMMA BytesAreDigits == ByteRange = Digits(BitsPerByte) /\ BitsPerByte \in Nat \ {0}
BY PackingAssumption DEF ByteRange, Digits

LEMMA RemainderOfBits ==
  ASSUME NEW x \in Nat, NEW b \in Nat \ {0}
  PROVE  x \div b \in Nat /\ b * (x \div b) <= x /\ x - b * (x \div b) = x % b /\ x % b \in 0 .. b - 1
<1> DEFINE d == x \div b
           r == x % b
<1>1. d \in Nat /\ r \in 0 .. b - 1 /\ x = b * d + r
  OBVIOUS
<1> HIDE DEF d, r
<1> DEFINE z == b * d
<1>2. z \in Nat
  BY <1>1
<1>3. x = z + r
  BY <1>1
<1> HIDE DEF z
<1>4. z <= x /\ x - z = r
  BY <1>1, <1>2, <1>3
<1>5. QED
  BY <1>1, <1>4 DEF z, d, r

\* A packer holds the prefix and what the digits say, less than a byte of it
\* in the accumulator.
PackerHolds(out, prefix, digits, width) ==
  \E body \in Seq(ByteRange) :
    /\ out.buf = prefix \o body
    /\ out.nbits \in 0 .. BitsPerByte - 1
    /\ Moved(digits, width, body, BitsPerByte, out.acc, out.nbits)

\* A stream holds them, in as few bytes as the bits allow.
StreamHolds(bytes, prefix, digits, width) ==
  \E body \in Seq(ByteRange) :
    /\ bytes = prefix \o body
    /\ Number(body, BitsPerByte) = Number(digits, width)
    /\ Len(body) = BitsToBytes(width * Len(digits))

\* A coefficient goes to the accumulator, and whole bytes from there to the stream.
LEMMA PutMoves ==
  ASSUME NEW width \in Nat, NEW from, NEW out, NEW value \in Digits(width), NEW prefix \in Seq(ByteRange),
         PackerHolds(out, prefix, from, width)
  PROVE  PackerHolds(Put(out, value, width), prefix, from \o <<value>>, width)
<1>0. PICK to \in Seq(ByteRange) :
        out.buf = prefix \o to /\ Moved(from, width, to, BitsPerByte, out.acc, out.nbits)
  BY DEF PackerHolds
<1> DEFINE acc == out.acc + value * 2 ^ out.nbits
           nbits == out.nbits + width
           whole == nbits \div BitsPerByte
           e == LeastDigits(acc, BitsPerByte, whole)
           more == to \o e
           new == Put(out, value, width)
<1>1. out.nbits \in Nat /\ out.acc \in Nat /\ to \in Seq(ByteRange) /\ BitsPerByte \in Nat \ {0}
  <2>1. out.nbits \in Nat /\ out.acc \in 0 .. 2 ^ out.nbits - 1 /\ to \in Seq(ByteRange)
    BY <1>0, BytesAreDigits DEF Moved
  <2>2. QED
    BY <2>1, BytesAreDigits
<1>2. Moved(from \o <<value>>, width, to, BitsPerByte, acc, nbits)
  <2>1. <<value>> \in Seq(Digits(width)) /\ Len(<<value>>) = 1 /\ Number(<<value>>, width) = value
    BY OneDigit
  <2>2. Moved(from \o <<value>>, width, to, BitsPerByte,
              out.acc + 2 ^ out.nbits * Number(<<value>>, width), out.nbits + width * Len(<<value>>))
    BY <1>0, <1>1, <2>1, MoveIn
  <2>3. 2 ^ out.nbits * value = value * 2 ^ out.nbits /\ width * 1 = width
    <3>1. value \in Nat /\ 2 ^ out.nbits \in Nat
      BY <1>1, PowerIsPositive DEF Digits
    <3>2. QED
      BY <3>1
  <2>4. QED
    BY <2>1, <2>2, <2>3
<1>3. acc \in Nat /\ nbits \in Nat
  <2>1. nbits \in Nat
    BY <1>1
  <2>2. acc \in 0 .. 2 ^ nbits - 1
    BY <1>2 DEF Moved
  <2>3. QED
    BY <2>1, <2>2
<1> HIDE DEF acc, nbits
<1>4. /\ whole \in Nat /\ BitsPerByte * whole <= nbits /\ nbits - BitsPerByte * whole = nbits % BitsPerByte
      /\ nbits % BitsPerByte \in 0 .. BitsPerByte - 1
  BY <1>1, <1>3, RemainderOfBits
<1> HIDE DEF whole
<1>5. Moved(from \o <<value>>, width, more, BitsPerByte, acc \div 2 ^ (BitsPerByte * whole), nbits % BitsPerByte)
  <2>1. Moved(from \o <<value>>, width, more, BitsPerByte,
              acc \div 2 ^ (BitsPerByte * whole), nbits - BitsPerByte * whole)
    BY <1>1, <1>2, <1>4, MoveOut
  <2>2. QED
    BY <1>4, <2>1
<1>6. e \in Seq(ByteRange)
  BY <1>1, <1>3, <1>4, LeastDigitsAre, BytesAreDigits
<1>7. more \in Seq(ByteRange)
  <2> HIDE DEF e
  <2>1. QED
    BY <1>1, <1>6, ConcatProperties
<1>8. /\ new.buf = out.buf \o e /\ new.nbits = nbits % BitsPerByte
      /\ new.acc = acc \div 2 ^ (BitsPerByte * whole)
  BY DEF Put, LeastDigits, acc, nbits, whole
<1> HIDE DEF e
<1>9. out.buf \o e = prefix \o more
  <2> HIDE DEF e
  <2>1. (prefix \o to) \o e = prefix \o (to \o e)
    BY <1>1, <1>6, ConcatAssociative
  <2>2. QED
    BY <1>0, <2>1
<1> HIDE DEF more, new
<1>10. new.buf = prefix \o more
  BY <1>8, <1>9
<1>11. Moved(from \o <<value>>, width, more, BitsPerByte, new.acc, new.nbits)
  BY <1>5, <1>8
<1>12. new.nbits \in 0 .. BitsPerByte - 1
  BY <1>4, <1>8
<1>13. QED
  BY <1>7, <1>10, <1>11, <1>12 DEF new, PackerHolds

LEMMA PowerGrows ==
  ASSUME NEW a \in Nat, NEW b \in Nat, a <= b
  PROVE  2 ^ a <= 2 ^ b
<1>1. b - a \in Nat /\ b = a + (b - a)
  OBVIOUS
<1> DEFINE x == 2 ^ a
           y == 2 ^ (b - a)
<1>2. 2 ^ b = x * y
  <2> DEFINE d == b - a
  <2>1. d \in Nat /\ b = a + d
    BY <1>1
  <2> HIDE DEF d
  <2>2. 2 ^ (a + d) = 2 ^ a * 2 ^ d
    BY <2>1, PowerOfSum
  <2>3. QED
    BY <2>1, <2>2 DEF d
<1>3. x \in Nat \ {0} /\ y \in Nat \ {0}
  BY <1>1, PowerIsPositive
<1> HIDE DEF x, y
<1>4. x <= x * y
  BY <1>3
<1>5. QED
  BY <1>2, <1>4 DEF x

\* What is left goes to a last byte.
LEMMA FinishMoves ==
  ASSUME NEW width \in Nat, NEW from, NEW out, NEW prefix \in Seq(ByteRange),
         PackerHolds(out, prefix, from, width)
  PROVE  StreamHolds(Finish(out), prefix, from, width)
<1>0. PICK to \in Seq(ByteRange) :
        /\ out.buf = prefix \o to /\ out.nbits \in 0 .. BitsPerByte - 1
        /\ Moved(from, width, to, BitsPerByte, out.acc, out.nbits)
  BY DEF PackerHolds
<1> DEFINE b == BitsPerByte
           more == IF out.nbits > 0 THEN Append(to, out.acc) ELSE to
           k == Len(to)
           n == out.nbits
           u == Number(to, b)
           w == 2 ^ (b * k)
<1>1. /\ n \in Nat /\ out.acc \in 0 .. 2 ^ n - 1 /\ to \in Seq(ByteRange) /\ b \in Nat \ {0}
      /\ from \in Seq(Digits(width)) /\ n < b
  BY <1>0, BytesAreDigits DEF Moved
<1>2. to \in Seq(Nat) /\ k \in Nat /\ u \in Nat /\ from \in Seq(Nat) /\ Len(from) \in Nat
  BY <1>1, BytesAreDigits, DigitsAreNatural, NumberType
<1>3. /\ Number(from, width) = u + out.acc * w
      /\ width * Len(from) = b * k + n
  BY <1>0 DEF Moved
<1>4. CASE n > 0
  <2> DEFINE x == out.acc
  <2>1. x \in Nat /\ x \in ByteRange
    <3>1. 2 ^ n <= 2 ^ b /\ 2 ^ n \in Nat /\ 2 ^ b \in Nat
      BY <1>1, PowerGrows, PowerIsPositive
    <3>2. QED
      BY <1>1, <3>1 DEF ByteRange
  <2>2. more = Append(to, x)
    BY <1>4
  <2>3. Finish(out) = Append(out.buf, x)
    BY <1>4 DEF Finish
  <2> HIDE DEF x, more
  <2>4. Append(prefix \o to, x) = prefix \o Append(to, x)
    <3>1. prefix \o to \in Seq(ByteRange) /\ <<x>> \in Seq(ByteRange)
      BY <1>1, <2>1, ConcatProperties
    <3>2. Append(prefix \o to, x) = (prefix \o to) \o <<x>> /\ Append(to, x) = to \o <<x>>
      BY <1>1, <2>1, <3>1, AppendIsConcat
    <3>3. (prefix \o to) \o <<x>> = prefix \o (to \o <<x>>)
      <4> DEFINE y == <<x>>
      <4>1. y \in Seq(ByteRange) /\ to \in Seq(ByteRange)
        BY <1>1, <3>1
      <4> HIDE DEF y
      <4>2. (prefix \o to) \o y = prefix \o (to \o y)
        BY <4>1, ConcatAssociative
      <4>3. QED
        BY <4>2 DEF y
    <3>4. QED
      BY <3>2, <3>3
  <2>5. Number(more, b) = u + x * w
    BY <1>1, <1>2, <2>1, <2>2, NumberSteps
  <2>6. more \in Seq(ByteRange) /\ Len(more) = k + 1
    BY <1>1, <2>1, <2>2, AppendProperties
  <2>7. k + 1 = BitsToBytes(width * Len(from))
    <3> DEFINE z == b * k
    <3>1. z \in Nat /\ b * (k + 1) = z + b
      BY <1>1, <1>2
    <3>2. width * Len(from) = z + n
      BY <1>3
    <3> HIDE DEF z, n, k, b
    <3>3. z + n \in Nat /\ k + 1 \in Nat /\ b * (k + 1) - (z + n) \in 0 .. b - 1
      BY <1>1, <1>2, <1>4, <3>1
    <3>4. k + 1 = CeilDiv(z + n, b)
      BY <1>1, <3>3, CeilDivOnly
    <3>5. QED
      BY <3>2, <3>4 DEF BitsToBytes, b
  <2>8. QED
    <3>1. Finish(out) = prefix \o more
      BY <1>0, <2>2, <2>3, <2>4
    <3>2. Number(more, b) = Number(from, width)
      BY <1>3, <2>5 DEF x
    <3>3. QED
      BY <2>6, <2>7, <3>1, <3>2 DEF StreamHolds
<1>5. CASE ~ (n > 0)
  <2>1. n = 0 /\ more = to /\ Finish(out) = out.buf
    BY <1>1, <1>5 DEF Finish
  <2>2. out.acc = 0
    BY <1>1, <2>1, PowerStep
  <2>3. 0 * w = 0
    <3>1. w \in Nat
      BY <1>1, <1>2, DigitWeight
    <3> HIDE DEF w
    <3>2. QED
      BY <3>1
  <2>4. Number(from, width) = u
    BY <1>2, <1>3, <2>2, <2>3
  <2>5. k = BitsToBytes(width * Len(from))
    <3> DEFINE z == b * k
    <3>1. z \in Nat /\ width * Len(from) = z
      BY <1>1, <1>2, <1>3, <2>1
    <3>2. b * k - z \in 0 .. b - 1
      BY <1>1, <3>1
    <3>3. k = CeilDiv(z, b)
      <4> HIDE DEF z, k
      <4>1. QED
        BY <1>1, <1>2, <3>1, <3>2, CeilDivOnly
    <3>4. QED
      BY <3>1, <3>3 DEF BitsToBytes
  <2>6. QED
    <3>1. Finish(out) = prefix \o to
      BY <1>0, <2>1
    <3> HIDE DEF more
    <3>2. QED
      BY <1>1, <2>4, <2>5, <3>1 DEF StreamHolds
<1>6. QED
  BY <1>4, <1>5

\* Digits already moved are those of the number that is on its way.
LEMMA MovedPrefix ==
  ASSUME NEW a \in Nat, NEW b \in Nat, NEW from, NEW to, NEW acc, NEW nbits,
         Moved(from, a, to, b, acc, nbits),
         NEW rest \in Seq(Digits(a)), NEW first \in Seq(Digits(b)), NEW last \in Seq(Digits(b)),
         Len(first) = Len(to), Number(from \o rest, a) = Number(first \o last, b)
  PROVE  Number(to, b) = Number(first, b)
<1> DEFINE m == 2 ^ (b * Len(to))
           w == 2 ^ nbits
           x == Number(rest, a)
           y == Number(last, b)
           u == Number(to, b)
           v == Number(first, b)
           z == acc + w * x
<1>1. /\ from \in Seq(Digits(a)) /\ to \in Seq(Digits(b)) /\ nbits \in Nat
      /\ from \in Seq(Nat) /\ to \in Seq(Nat) /\ rest \in Seq(Nat) /\ first \in Seq(Nat) /\ last \in Seq(Nat)
      /\ Len(to) \in Nat /\ Len(rest) \in Nat
  BY DigitsAreNatural DEF Moved
<1>2. /\ m \in Nat \ {0} /\ w \in Nat \ {0} /\ x \in Nat /\ y \in Nat
      /\ u \in 0 .. m - 1 /\ v \in 0 .. m - 1
  <2>1. m \in Nat \ {0} /\ w \in Nat \ {0} /\ x \in Nat /\ y \in Nat
    BY <1>1, DigitWeight, PowerIsPositive, NumberType
  <2>2. u \in Nat /\ u < m
    BY <1>1, NumberBound
  <2>3. v \in Nat /\ v < 2 ^ (b * Len(first))
    BY <1>1, NumberBound
  <2>4. QED
    BY <2>1, <2>2, <2>3
<1>3. acc \in Nat /\ z \in Nat
  <2>1. acc \in Nat
    BY <1>2 DEF Moved
  <2>2. w * x \in Nat
    BY <1>2, ProductIsNatural
  <2>3. QED
    BY <2>1, <2>2
<1>4. Moved(from \o rest, a, to, b, z, nbits + a * Len(rest))
  BY <1>1, MoveIn
<1>5. Number(from \o rest, a) = u + z * m
  BY <1>4 DEF Moved
<1>6. Number(first \o last, b) = v + m * y
  <2>1. Number(first \o last, b) = Number(first, b) + 2 ^ (b * Len(first)) * Number(last, b)
    BY <1>1, NumberOfConcat
  <2>2. QED
    BY <2>1
<1>7. m * y = y * m
  BY <1>2
<1>8. u + z * m = v + y * m
  BY <1>5, <1>6, <1>7
<1> HIDE DEF u, v, z, m, y
<1>9. u = v
  BY <1>2, <1>3, <1>8, SameDivision
<1>10. QED
  BY <1>9 DEF u, v

\* So is the last of them.
LEMMA MovedDigit ==
  ASSUME NEW width \in Nat, NEW to \in Seq(Nat), NEW x \in Nat, NEW y \in Nat,
         Number(Append(to, x), width) = Number(Append(to, y), width)
  PROVE  x = y
<1> DEFINE m == 2 ^ (width * Len(to))
           u == Number(to, width)
<1>1. m \in Nat \ {0} /\ u \in Nat
  BY DigitWeight, NumberType
<1>2. u + x * m = u + y * m
  BY NumberSteps
<1> HIDE DEF m, u
<1>3. x * m = y * m
  BY <1>1, <1>2
<1>4. 0 + x * m = 0 + y * m /\ 0 \in 0 .. m - 1
  BY <1>1, <1>3
<1>5. QED
  BY <1>1, <1>4, SameDivision

----------------------------------------------------------------------------
(* The invariant. *)

SeedPart(of) == IF Seeded(of) THEN SeedBlock ELSE <<>>

Width == CoefficientBitWidth(params)
PeerWidth == CoefficientBitWidth(peer)

\* The packer holds the seed and the coefficients put so far, a finished stream all.
PackerInv ==
  LET held == Reduced(written, params.q) IN
  IF pc = "pack"
  THEN /\ PackerHolds(packer, SeedPart(s), held, Width)
       /\ Len(written) <= Coefficients(params, s)
  ELSE /\ StreamHolds(packer.buf, SeedPart(s), held, Width)
       /\ Len(written) = Coefficients(params, s)

BeforeArrival == /\ stream = <<>> /\ read = <<>> /\ peer = params
                 /\ unpacker = [pos |-> 0, acc |-> 0, nbits |-> 0]

\* The coefficients read are those of the bytes fetched.
Unpacking ==
  /\ s \in Streams(peer)
  /\ Len(stream) = StreamBytes(peer, s)
  /\ unpacker.pos \in Start(s) .. Len(stream)
  /\ Moved(SubSeq(stream, Start(s) + 1, unpacker.pos), BitsPerByte, read, PeerWidth,
           unpacker.acc, unpacker.nbits)
  /\ Len(read) <= Coefficients(peer, s)
  /\ Undamaged => \A i \in 1 .. Len(read) : read[i] = written[i] % params.q

Accepted ==
  unpacker.pos = Len(stream) /\ unpacker.acc = 0 /\ Len(read) = Coefficients(peer, s)

PackingInv ==
  /\ PackingTypeOK
  /\ PackerInv
  /\ pc \in {"pack", "sent"} => BeforeArrival
  /\ pc \in {"unpack", "accepted"} => Unpacking
  /\ pc = "accepted" => Accepted
  /\ pc = "rejected" => ~ Undamaged

LEMMA SeedPartIs ==
  ASSUME NEW of
  PROVE  SeedPart(of) \in Seq(ByteRange) /\ Len(SeedPart(of)) = Start(of) /\ Start(of) \in Nat
<1>1. SeedBytes \in Nat /\ 2 ^ BitsPerByte - 1 \in ByteRange
  <2>1. BitsPerByte \in Nat /\ SeedBytes \in Nat
    BY PackingAssumption
  <2>2. 2 ^ BitsPerByte \in Nat \ {0}
    BY <2>1, PowerIsPositive
  <2>3. QED
    BY <2>1, <2>2 DEF ByteRange
<1>2. SeedBlock \in Seq(ByteRange) /\ Len(SeedBlock) = SeedBytes
  <2> DEFINE x == 2 ^ BitsPerByte - 1
  <2>1. x \in ByteRange
    BY <1>1
  <2> HIDE DEF x
  <2>2. [i \in 1 .. SeedBytes |-> x] \in Seq(ByteRange) /\ Len([i \in 1 .. SeedBytes |-> x]) = SeedBytes
    BY <1>1, <2>1
  <2>3. QED
    BY <2>2 DEF SeedBlock, x
<1>3. QED
  BY <1>1, <1>2 DEF SeedPart, Start

LEMMA NothingMoved ==
  ASSUME NEW a \in Nat, NEW b \in Nat
  PROVE  Moved(<<>>, a, <<>>, b, 0, 0)
<1>1. <<>> \in Seq(Digits(a)) /\ <<>> \in Seq(Digits(b)) /\ <<>> \in Seq(Nat) /\ Len(<<>>) = 0
  OBVIOUS
<1>2. Number(<<>>, a) = 0 /\ Number(<<>>, b) = 0
  BY <1>1, NumberType
<1>3. a * 0 = 0 /\ b * 0 = 0 /\ 2 ^ 0 = 1 /\ 0 \in 0 .. 1 - 1 /\ 0 \in Nat
  BY PowerStep
<1>4. 0 * 2 ^ (b * Len(<<>>)) = 0
  <2>1. b * Len(<<>>) = 0
    BY <1>1, <1>3
  <2>2. 0 * 1 = 0
    OBVIOUS
  <2>3. QED
    BY <1>3, <2>1, <2>2
<1>5. QED
  BY <1>1, <1>2, <1>3, <1>4 DEF Moved

LEMMA NothingReduced == ASSUME NEW q PROVE Reduced(<<>>, q) = <<>>
BY DEF Reduced

LEMMA PackingInitInv == PackingInit => PackingInv
<1> SUFFICES ASSUME PackingInit PROVE PackingInv
  OBVIOUS
<1>1. /\ params \in ParamSets /\ s \in Streams(params) /\ pc = "pack" /\ written = <<>>
      /\ packer = [buf |-> SeedPart(s), acc |-> 0, nbits |-> 0]
      /\ peer = params /\ stream = <<>> /\ read = <<>> /\ why = "none"
      /\ unpacker = [pos |-> 0, acc |-> 0, nbits |-> 0]
  BY DEF PackingInit, SeedPart
<1>2. BitsPerByte \in Nat \ {0} /\ 2 ^ 0 = 1
  BY PackingAssumption, PowerStep
<1>3. AccumulatorOK(0, 0)
  BY <1>2 DEF AccumulatorOK
<1>4. SeedPart(s) \in Seq(ByteRange)
  BY SeedPartIs
<1>5. PackingTypeOK
  <2>1. /\ packer.buf = SeedPart(s) /\ packer.acc = 0 /\ packer.nbits = 0
        /\ unpacker.pos = 0 /\ unpacker.acc = 0 /\ unpacker.nbits = 0
    BY <1>1
  <2>2. written \in Seq(Int) /\ stream \in Seq(ByteRange) /\ read \in Seq(0 .. peer.q - 1) /\ Len(stream) = 0
    BY <1>1
  <2>3. QED
    BY <1>1, <1>3, <1>4, <2>1, <2>2 DEF PackingTypeOK
<1>6. PackerHolds(packer, SeedPart(s), Reduced(written, params.q), Width)
  <2>1. CoefficientBitWidth(params) \in Nat
    BY <1>1, ShapeIs
  <2>2. Reduced(written, params.q) = <<>>
    BY <1>1, NothingReduced
  <2>3. Moved(<<>>, Width, <<>>, BitsPerByte, 0, 0)
    BY <1>2, <2>1, NothingMoved DEF Width
  <2>4. packer.buf = SeedPart(s) \o <<>> /\ packer.acc = 0 /\ packer.nbits = 0
    BY <1>1, <1>4
  <2>5. <<>> \in Seq(ByteRange)
    OBVIOUS
  <2>6. QED
    <3>1. 0 \in 0 .. BitsPerByte - 1
      BY <1>2
    <3>2. Moved(<<>>, Width, <<>>, BitsPerByte, packer.acc, packer.nbits)
      BY <2>3, <2>4
    <3>3. PackerHolds(packer, SeedPart(s), <<>>, Width)
      BY <2>4, <2>5, <3>1, <3>2 DEF PackerHolds
    <3>4. QED
      BY <2>2, <3>3
<1>7. PackerInv
  <2>1. Len(written) = 0 /\ Coefficients(params, s) \in Nat
    BY <1>1, StreamBytesAre
  <2>2. QED
    BY <1>1, <1>6, <2>1 DEF PackerInv
<1>8. BeforeArrival
  BY <1>1 DEF BeforeArrival
<1>9. QED
  BY <1>1, <1>5, <1>7, <1>8 DEF PackingInv

\* What the type invariant says of a sender.
LEMMA SenderIs ==
  ASSUME PackingTypeOK
  PROVE  /\ params.q \in Nat \ {0, 1} /\ Width \in Nat /\ params.q <= 2 ^ Width
         /\ Coefficients(params, s) \in Nat /\ written \in Seq(Int)
         /\ InMemory(params.q) \subseteq Int
BY ParamsAre, ShapeIs, StreamBytesAre DEF PackingTypeOK, Width

LEMMA PackCoefficientInv == PackingInv /\ PackCoefficient => PackingInv'
<1> SUFFICES ASSUME PackingInv, PackCoefficient PROVE PackingInv'
  OBVIOUS
<1>1. /\ PackingTypeOK /\ pc = "pack" /\ pc' = "pack" /\ Len(written) < Coefficients(params, s)
      /\ params' = params /\ s' = s /\ peer' = peer /\ stream' = stream /\ unpacker' = unpacker
      /\ read' = read /\ why' = why /\ BeforeArrival /\ PackerInv
  BY DEF PackingInv, PackCoefficient
<1>2. PICK v \in InMemory(params.q) :
        /\ written' = Append(written, v)
        /\ packer' = Put(packer, Canonical(v, params.q), CoefficientBitWidth(params))
  BY DEF PackCoefficient
<1>3. /\ v \in Int /\ params.q \in Nat \ {0} /\ Width \in Nat /\ params.q <= 2 ^ Width
      /\ Coefficients(params, s) \in Nat /\ written \in Seq(Int)
  BY <1>1, <1>2, SenderIs
<1> DEFINE value == v % params.q
           from == Reduced(written, params.q)
           new == Put(packer, value, Width)
<1>4. packer' = new
  BY <1>2, <1>3, CanonicalIs DEF Width
<1>5. /\ value \in Digits(Width)
      /\ Reduced(Append(written, v), params.q) = from \o <<value>>
  BY <1>3, ReducedGrows
<1>6. SeedPart(s) \in Seq(ByteRange)
  BY SeedPartIs
<1>7. PackerHolds(new, SeedPart(s), from \o <<value>>, Width)
  <2>1. PackerHolds(packer, SeedPart(s), from, Width)
    BY <1>1 DEF PackerInv
  <2> HIDE DEF value, from
  <2>2. QED
    BY <1>3, <1>5, <1>6, <2>1, PutMoves
<1>8. written' \in Seq(Int) /\ Len(written') = Len(written) + 1 /\ Len(written) \in Nat
  BY <1>2, <1>3, AppendProperties
<1>9. Reduced(written', params.q) = from \o <<value>>
  BY <1>2, <1>5
<1> HIDE DEF new, from, value
<1>10. PackerInv'
  <2>1. Len(written') <= Coefficients(params, s)
    BY <1>1, <1>3, <1>8
  <2>2. Width' = Width
    BY <1>1 DEF Width
  <2>3. PackerHolds(packer', SeedPart(s), Reduced(written', params.q), Width)
    BY <1>4, <1>7, <1>9
  <2>4. QED
    BY <1>1, <2>1, <2>2, <2>3 DEF PackerInv
<1>11. PackingTypeOK'
  <2>1. PICK more \in Seq(ByteRange) :
          /\ new.buf = SeedPart(s) \o more /\ new.nbits \in 0 .. BitsPerByte - 1
          /\ Moved(from \o <<value>>, Width, more, BitsPerByte, new.acc, new.nbits)
    BY <1>7 DEF PackerHolds
  <2>2. packer'.buf \in Seq(ByteRange)
    BY <1>4, <1>6, <2>1, ConcatProperties
  <2>3. AccumulatorOK(packer'.acc, packer'.nbits)
    BY <1>4, <2>1 DEF AccumulatorOK, Moved
  <2>4. QED
    BY <1>1, <1>8, <2>2, <2>3 DEF PackingTypeOK
<1>12. BeforeArrival'
  BY <1>1 DEF BeforeArrival
<1>13. QED
  BY <1>1, <1>10, <1>11, <1>12 DEF PackingInv

LEMMA FinishPackingInv == PackingInv /\ FinishPacking => PackingInv'
<1> SUFFICES ASSUME PackingInv, FinishPacking PROVE PackingInv'
  OBVIOUS
<1>1. /\ PackingTypeOK /\ pc = "pack" /\ pc' = "sent" /\ Len(written) = Coefficients(params, s)
      /\ packer' = [buf |-> Finish(packer), acc |-> 0, nbits |-> 0]
      /\ params' = params /\ s' = s /\ peer' = peer /\ stream' = stream /\ unpacker' = unpacker
      /\ read' = read /\ why' = why /\ written' = written /\ BeforeArrival /\ PackerInv
  BY DEF PackingInv, FinishPacking
<1>2. Width \in Nat
  BY <1>1, SenderIs
<1> DEFINE from == Reduced(written, params.q)
<1>3. SeedPart(s) \in Seq(ByteRange)
  BY SeedPartIs
<1>4. StreamHolds(Finish(packer), SeedPart(s), from, Width)
  <2>1. PackerHolds(packer, SeedPart(s), from, Width)
    BY <1>1 DEF PackerInv
  <2> HIDE DEF from
  <2>2. QED
    BY <1>2, <1>3, <2>1, FinishMoves
<1>5. PackerInv'
  <2>1. Width' = Width
    BY <1>1 DEF Width
  <2>2. packer'.buf = Finish(packer) /\ pc' # "pack"
    BY <1>1
  <2>3. QED
    BY <1>1, <1>4, <2>1, <2>2 DEF PackerInv
<1>6. PackingTypeOK'
  <2>1. Finish(packer) \in Seq(ByteRange)
    BY <1>3, <1>4, ConcatProperties DEF StreamHolds
  <2>2. AccumulatorOK(0, 0)
    BY PackingAssumption, PowerStep DEF AccumulatorOK
  <2>3. packer'.buf = Finish(packer) /\ packer'.acc = 0 /\ packer'.nbits = 0
    BY <1>1
  <2>4. QED
    BY <1>1, <2>1, <2>2, <2>3 DEF PackingTypeOK
<1>7. BeforeArrival'
  BY <1>1 DEF BeforeArrival
<1>8. QED
  BY <1>1, <1>5, <1>6, <1>7 DEF PackingInv

\* A finished stream has the announced size.
LEMMA SentSize ==
  ASSUME PackingTypeOK, PackerInv, pc # "pack"
  PROVE  /\ Len(packer.buf) = StreamBytes(params, s)
         /\ StreamHolds(packer.buf, SeedPart(s), Reduced(written, params.q), Width)
         /\ Len(written) = Coefficients(params, s)
<1> DEFINE held == Reduced(written, params.q)
<1>1. /\ StreamHolds(packer.buf, SeedPart(s), held, Width)
      /\ Len(written) = Coefficients(params, s)
  BY DEF PackerInv
<1>2. Len(held) = Coefficients(params, s)
  <2>1. 0 \in Int
    OBVIOUS
  <2>2. QED
    BY <1>1, <2>1, SenderIs, ReducedGrows
<1> HIDE DEF held
<1>3. PICK body \in Seq(ByteRange) :
        packer.buf = SeedPart(s) \o body /\ Len(body) = BitsToBytes(Width * Len(held))
  BY <1>1 DEF StreamHolds
<1>4. Len(packer.buf) = Start(s) + Len(body)
  BY <1>3, SeedPartIs, ConcatProperties
<1>5. StreamBytes(params, s) = Start(s) + BodyBytes(params, s)
  BY StreamBytesAre DEF PackingTypeOK
<1>6. QED
  BY <1>1, <1>2, <1>3, <1>4, <1>5 DEF BodyBytes, Width, held

\* What arrives is bytes.
LEMMA ArrivingIsBytes ==
  ASSUME Sent \in Seq(ByteRange), NEW bytes \in Arriving
  PROVE  bytes \in Seq(ByteRange)
<1>1. CASE bytes = Sent
  BY <1>1
<1>2. CASE \E i \in DOMAIN Sent, b \in ByteRange : bytes = [Sent EXCEPT ![i] = b]
  <2>1. PICK i \in DOMAIN Sent, b \in ByteRange : bytes = [Sent EXCEPT ![i] = b]
    BY <1>2
  <2>2. i \in 1 .. Len(Sent)
    BY <2>1
  <2>3. QED
    BY <2>1, <2>2, ExceptSeq
<1>3. CASE bytes = SubSeq(Sent, 1, Len(Sent) - 1)
  <2>1. Len(Sent) \in Nat /\ 1 \in Int /\ Len(Sent) - 1 \in Int
    OBVIOUS
  <2>2. \A i \in 1 .. Len(Sent) - 1 : Sent[i] \in ByteRange
    <3>1. \A i \in 1 .. Len(Sent) : Sent[i] \in ByteRange
      BY ElementOfSeq
    <3>2. QED
      BY <2>1, <3>1
  <2>3. QED
    BY <1>3, <2>1, <2>2, SubSeqProperties
<1>4. CASE \E b \in ByteRange : bytes = Append(Sent, b)
  BY <1>4, AppendProperties
<1>5. QED
  BY <1>1, <1>2, <1>3, <1>4 DEF Arriving

\* What the sender has done stays done.
LEMMA SenderStays ==
  ASSUME PackingTypeOK, PackerInv, pc # "pack", pc' # "pack", UNCHANGED <<params, s, written, packer>>
  PROVE  PackerInv'
<1>1. Width' = Width
  BY DEF Width
<1>2. QED
  BY <1>1 DEF PackerInv

LEMMA ArriveInv == PackingInv /\ Arrive => PackingInv'
<1> SUFFICES ASSUME PackingInv, Arrive PROVE PackingInv'
  OBVIOUS
<1>1. /\ PackingTypeOK /\ PackerInv /\ pc = "sent" /\ BeforeArrival
      /\ peer' \in ParamSets /\ s \in Streams(peer') /\ stream' \in Arriving
      /\ params' = params /\ s' = s /\ written' = written /\ packer' = packer /\ read' = read
  BY DEF PackingInv, Arrive
<1>2. /\ read = <<>> /\ unpacker = [pos |-> 0, acc |-> 0, nbits |-> 0]
  BY <1>1 DEF BeforeArrival
<1>3. stream' \in Seq(ByteRange) /\ Len(stream') \in Nat
  <2>1. Sent \in Seq(ByteRange)
    BY <1>1 DEF Sent, PackingTypeOK
  <2>2. stream' \in Seq(ByteRange)
    BY <1>1, <2>1, ArrivingIsBytes
  <2>3. QED
    BY <2>2
<1>4. AccumulatorOK(0, 0)
  BY PackingAssumption, PowerStep DEF AccumulatorOK
<1>5. CASE /\ SizeOK(peer', stream') /\ pc' = "unpack"
           /\ unpacker' = [unpacker EXCEPT !.pos = IF Seeded(s) THEN SeedBytes ELSE 0] /\ why' = why
  <2>1. unpacker' = [pos |-> Start(s), acc |-> 0, nbits |-> 0]
    BY <1>2, <1>5 DEF Start
  <2>2. Len(stream') = StreamBytes(peer', s)
    BY <1>5 DEF SizeOK
  <2>3. Start(s) \in Nat /\ Start(s) <= Len(stream')
    <3>1. StreamBytes(peer', s) = Start(s) + BodyBytes(peer', s)
      BY <1>1, StreamBytesAre
    <3>2. BodyBytes(peer', s) \in Nat /\ Start(s) \in Nat
      BY <1>1, BodyBytesAre
    <3>3. QED
      BY <2>2, <3>1, <3>2
  <2>4. unpacker'.pos = Start(s) /\ unpacker'.acc = 0 /\ unpacker'.nbits = 0
    BY <2>1
  <2>5. Unpacking'
    <3>1. SubSeq(stream', Start(s) + 1, Start(s)) = <<>>
      BY <2>3, SubSeqEmpty
    <3>2. CoefficientBitWidth(peer') \in Nat /\ BitsPerByte \in Nat
      BY <1>1, ShapeIs, PackingAssumption
    <3>3. Moved(<<>>, BitsPerByte, <<>>, CoefficientBitWidth(peer'), 0, 0)
      BY <3>2, NothingMoved
    <3>4. Moved(SubSeq(stream', Start(s) + 1, unpacker'.pos), BitsPerByte, read', CoefficientBitWidth(peer'),
                unpacker'.acc, unpacker'.nbits)
      BY <1>1, <1>2, <2>4, <3>1, <3>3
    <3>5. Len(read') = 0 /\ Coefficients(peer', s) \in Nat
      BY <1>1, <1>2, StreamBytesAre
    <3>6. unpacker'.pos \in Start(s) .. Len(stream')
      BY <1>3, <2>3, <2>4
    <3>7. \A i \in 1 .. Len(read') : FALSE
      BY <3>5
    <3>8. QED
      BY <1>1, <2>2, <3>4, <3>5, <3>6, <3>7 DEF Unpacking, PeerWidth
  <2>6. PackingTypeOK'
    <3>1. read' \in Seq(0 .. peer'.q - 1)
      BY <1>1, <1>2
    <3>2. unpacker'.pos \in 0 .. Len(stream')
      BY <1>3, <2>3, <2>4
    <3>3. QED
      BY <1>1, <1>3, <1>4, <1>5, <2>4, <3>1, <3>2 DEF PackingTypeOK
  <2>7. PackerInv'
    BY <1>1, <1>5, SenderStays
  <2>8. QED
    BY <1>5, <2>5, <2>6, <2>7 DEF PackingInv
<1>6. CASE ~ SizeOK(peer', stream') /\ Reject("size") /\ unpacker' = unpacker
  <2>1. pc' = "rejected" /\ why' = "size"
    BY <1>6 DEF Reject
  <2>2. ~ Undamaged'
    <3> SUFFICES ASSUME Undamaged' PROVE FALSE
      OBVIOUS
    <3>1. stream' = packer.buf /\ peer' = params
      BY <1>1 DEF Undamaged, Sent
    <3>2. Len(packer.buf) = StreamBytes(params, s)
      BY <1>1, SentSize
    <3>3. QED
      BY <1>6, <3>1, <3>2 DEF SizeOK
  <2>3. PackingTypeOK'
    <3>1. read' \in Seq(0 .. peer'.q - 1)
      BY <1>1, <1>2
    <3>2. unpacker'.pos = 0 /\ unpacker'.acc = 0 /\ unpacker'.nbits = 0
      BY <1>2, <1>6
    <3>3. QED
      BY <1>1, <1>3, <1>4, <2>1, <3>1, <3>2 DEF PackingTypeOK
  <2>4. PackerInv'
    BY <1>1, <2>1, SenderStays
  <2>5. QED
    BY <2>1, <2>2, <2>3, <2>4 DEF PackingInv
<1>7. QED
  BY <1>5, <1>6 DEF Arrive

LEMMA TailOfConcat ==
  ASSUME NEW S, NEW a \in Seq(S), NEW b \in Seq(S)
  PROVE  SubSeq(a \o b, Len(a) + 1, Len(a \o b)) = b
<1> DEFINE c == a \o b
           d == SubSeq(c, Len(a) + 1, Len(c))
<1>1. /\ c \in Seq(S) /\ Len(c) = Len(a) + Len(b) /\ Len(a) \in Nat /\ Len(b) \in Nat
      /\ \A i \in 1 .. Len(a) + Len(b) : c[i] = IF i <= Len(a) THEN a[i] ELSE b[i - Len(a)]
  BY ConcatProperties
<1>2. \A i \in Len(a) + 1 .. Len(c) : c[i] \in S
  <2>1. \A i \in 1 .. Len(c) : c[i] \in S
    BY <1>1, ElementOfSeq
  <2>2. QED
    BY <1>1, <2>1
<1>3. Len(a) + 1 \in Int /\ Len(c) \in Int
  BY <1>1
<1> HIDE DEF c
<1>4. /\ d \in Seq(S)
      /\ Len(d) = IF Len(a) + 1 <= Len(c) THEN Len(c) - (Len(a) + 1) + 1 ELSE 0
      /\ \A i \in 1 .. Len(c) - (Len(a) + 1) + 1 : d[i] = c[(Len(a) + 1) + i - 1]
  BY <1>2, <1>3, SubSeqProperties
<1>5. Len(d) = Len(b)
  BY <1>1, <1>4
<1>6. \A i \in 1 .. Len(d) : d[i] = b[i]
  <2> SUFFICES ASSUME NEW i \in 1 .. Len(b) PROVE d[i] = b[i]
    BY <1>5
  <2>1. i \in 1 .. Len(c) - (Len(a) + 1) + 1 /\ (Len(a) + 1) + i - 1 = Len(a) + i
    BY <1>1
  <2>2. Len(a) + i \in 1 .. Len(a) + Len(b) /\ ~ (Len(a) + i <= Len(a)) /\ (Len(a) + i) - Len(a) = i
    BY <1>1
  <2>3. QED
    BY <1>1, <1>4, <2>1, <2>2
<1> HIDE DEF d
<1>7. d = b
  BY <1>4, <1>5, <1>6, SeqEqual
<1>8. QED
  BY <1>7 DEF d, c

\* What the invariants say of a receiver.
LEMMA ReceiverIs ==
  ASSUME PackingTypeOK, Unpacking
  PROVE  /\ PeerWidth \in Nat /\ Coefficients(peer, s) \in Nat
         /\ peer.q \in Nat \ {0, 1} /\ peer.q <= 2 ^ PeerWidth
         /\ stream \in Seq(ByteRange) /\ Len(stream) = Start(s) + BodyBytes(peer, s)
         /\ PeerWidth * Coefficients(peer, s) \in Nat
         /\ BodyBytes(peer, s) \in Nat /\ Start(s) \in Nat
         /\ BitsPerByte * BodyBytes(peer, s) - PeerWidth * Coefficients(peer, s) \in 0 .. BitsPerByte - 1
         /\ unpacker.nbits \in 0 .. BitsPerByte - 1 /\ unpacker.acc \in Nat
         /\ unpacker.pos \in Start(s) .. Len(stream) /\ Len(stream) \in Nat
         /\ read \in Seq(0 .. peer.q - 1) /\ read \in Seq(Nat) /\ Len(read) \in Nat
         /\ Len(read) <= Coefficients(peer, s)
         /\ BitsPerByte \in Nat \ {0}
<1>1. peer \in ParamSets /\ s \in Streams(peer)
  BY DEF PackingTypeOK, Unpacking
<1>2. /\ PeerWidth \in Nat /\ Coefficients(peer, s) \in Nat
      /\ peer.q \in Nat \ {0, 1} /\ peer.q <= 2 ^ PeerWidth
  BY <1>1, ParamsAre, ShapeIs, StreamBytesAre DEF PeerWidth
<1>3. /\ PeerWidth * Coefficients(peer, s) \in Nat
      /\ BodyBytes(peer, s) \in Nat /\ Start(s) \in Nat
      /\ BitsPerByte * BodyBytes(peer, s) - PeerWidth * Coefficients(peer, s) \in 0 .. BitsPerByte - 1
  BY <1>1, BodyBytesAre DEF PeerWidth
<1>4. stream \in Seq(ByteRange) /\ Len(stream) = Start(s) + BodyBytes(peer, s) /\ Len(stream) \in Nat
  BY <1>1, StreamBytesAre DEF PackingTypeOK, Unpacking
<1>5. /\ unpacker.nbits \in 0 .. BitsPerByte - 1 /\ unpacker.acc \in Nat
      /\ BitsPerByte \in Nat \ {0}
  <2>1. unpacker.nbits \in 0 .. BitsPerByte - 1 /\ unpacker.acc \in 0 .. 2 ^ unpacker.nbits - 1
    BY DEF PackingTypeOK, AccumulatorOK
  <2>2. QED
    BY <2>1, PackingAssumption
<1>6. /\ unpacker.pos \in Start(s) .. Len(stream) /\ Len(read) <= Coefficients(peer, s)
      /\ read \in Seq(0 .. peer.q - 1)
  BY DEF Unpacking, PackingTypeOK
<1>7. read \in Seq(Nat) /\ Len(read) \in Nat
  <2> DEFINE D == 0 .. peer.q - 1
  <2>1. D \subseteq Nat
    BY <1>2
  <2>2. read \in Seq(D)
    BY <1>6
  <2> HIDE DEF D
  <2>3. read \in Seq(Nat)
    BY <2>1, <2>2, SeqMonotonic
  <2>4. QED
    BY <2>3
<1>8. QED
  BY <1>2, <1>3, <1>4, <1>5, <1>6, <1>7

\* The bytes fetched so far, with n the position.
Consumed(n) == SubSeq(stream, Start(s) + 1, n)

\* get: count bytes fetched, the value, and what is left.
Count == Fetch(PeerWidth)
Value == Fetched(Count) % 2 ^ PeerWidth
NextAcc == Fetched(Count) \div 2 ^ PeerWidth
NextBits == unpacker.nbits + BitsPerByte * Count - PeerWidth

\* Just enough bytes are fetched.
LEMMA CountIs ==
  ASSUME PackingTypeOK, Unpacking
  PROVE  /\ Count \in Nat /\ BitsPerByte * Count \in Nat
         /\ unpacker.nbits + BitsPerByte * Count >= PeerWidth
         /\ NextBits \in 0 .. BitsPerByte - 1
<1> DEFINE b == BitsPerByte
           w == PeerWidth
           n == unpacker.nbits
<1>1. b \in Nat \ {0} /\ w \in Nat /\ n \in 0 .. b - 1
  BY ReceiverIs
<1>2. CASE n >= w
  <2>1. Count = 0
    BY <1>2 DEF Count, Fetch
  <2>2. b * 0 = 0
    BY <1>1
  <2>3. QED
    BY <1>1, <1>2, <2>1, <2>2 DEF NextBits
<1>3. CASE ~ (n >= w)
  <2> DEFINE d == CeilDiv(w - n, b)
  <2>1. Count = d
    BY <1>3 DEF Count, Fetch
  <2>2. w - n \in Nat
    BY <1>1, <1>3
  <2>3. d \in Nat /\ b * d - (w - n) \in 0 .. b - 1
    <3> DEFINE x == w - n
    <3> HIDE DEF x
    <3>1. x \in Nat
      BY <2>2 DEF x
    <3>2. CeilDiv(x, b) \in Nat /\ b * CeilDiv(x, b) - x \in 0 .. b - 1
      BY <1>1, <3>1, CeilDivIs
    <3>3. QED
      BY <3>2 DEF x
  <2> DEFINE z == b * d
  <2>4. z \in Nat
    BY <1>1, <2>3, ProductIsNatural
  <2>5. NextBits = n + z - w
    BY <2>1 DEF NextBits
  <2>6. z - (w - n) \in 0 .. b - 1
    BY <2>3
  <2>7. b * Count = z
    BY <2>1
  <2> HIDE DEF d, z
  <2>8. n + z >= w /\ n + z - w \in 0 .. b - 1
    BY <1>1, <2>4, <2>6
  <2>9. QED
    BY <2>1, <2>3, <2>4, <2>5, <2>7, <2>8
<1>4. QED
  BY <1>2, <1>3

\* The stream has them: get does not run out.
LEMMA NoUnderrun ==
  ASSUME PackingTypeOK, Unpacking, Len(read) < Coefficients(peer, s)
  PROVE  unpacker.pos + Count \in Start(s) .. Len(stream)
<1> DEFINE b == BitsPerByte
           w == PeerWidth
           n == unpacker.nbits
           f == unpacker.pos - Start(s)
           c == Count
           k == Len(read)
           m == Coefficients(peer, s)
           l == BodyBytes(peer, s)
<1>1. /\ b \in Nat \ {0} /\ w \in Nat /\ n \in Nat /\ f \in Nat /\ c \in Nat /\ k \in Nat /\ m \in Nat /\ l \in Nat
      /\ k < m /\ b * l - w * m \in 0 .. b - 1 /\ n + b * c - w \in 0 .. b - 1
      /\ Start(s) \in Nat /\ unpacker.pos = Start(s) + f /\ Len(stream) = Start(s) + l
  <2>1. /\ b \in Nat \ {0} /\ w \in Nat /\ k \in Nat /\ m \in Nat /\ l \in Nat
        /\ b * l - w * m \in 0 .. b - 1 /\ Start(s) \in Nat /\ Len(stream) = Start(s) + l
    BY ReceiverIs
  <2>2. n \in 0 .. b - 1 /\ unpacker.pos \in Start(s) .. Len(stream) /\ Len(stream) \in Nat
    BY ReceiverIs
  <2>3. n \in Nat
    BY <2>1, <2>2
  <2>4. f \in Nat /\ unpacker.pos = Start(s) + f
    BY <2>1, <2>2
  <2>5. c \in Nat /\ n + b * c - w \in 0 .. b - 1
    BY CountIs DEF NextBits
  <2>6. QED
    BY <2>1, <2>3, <2>4, <2>5
<1>2. b * f = w * k + n
  <2>1. b * Len(Consumed(unpacker.pos)) = w * k + n
    BY DEF Unpacking, Moved, Consumed
  <2>2. Len(Consumed(unpacker.pos)) = f
    <3>1. /\ Start(s) + 1 \in Int /\ unpacker.pos \in Int
          /\ \A i \in Start(s) + 1 .. unpacker.pos : stream[i] \in ByteRange
      <4>1. stream \in Seq(ByteRange) /\ unpacker.pos \in Start(s) .. Len(stream) /\ Len(stream) \in Nat /\ Start(s) \in Nat
        BY ReceiverIs
      <4>2. \A i \in 1 .. Len(stream) : stream[i] \in ByteRange
        BY <4>1, ElementOfSeq
      <4>3. QED
        BY <4>1, <4>2
    <3>2. Len(Consumed(unpacker.pos))
            = IF Start(s) + 1 <= unpacker.pos THEN unpacker.pos - (Start(s) + 1) + 1 ELSE 0
      BY <3>1, SubSeqProperties DEF Consumed
    <3> DEFINE u == Start(s)
               v == unpacker.pos
    <3>3. u \in Nat /\ f \in Nat /\ v = u + f
      BY <1>1
    <3> HIDE DEF u, v, f
    <3>4. (IF u + 1 <= v THEN v - (u + 1) + 1 ELSE 0) = f
      BY <3>3
    <3>5. QED
      BY <3>2, <3>4 DEF u, v
  <2>3. QED
    BY <2>1, <2>2
<1> HIDE DEF b, w, n, f, c, k, m, l
<1>3. b * (f + c) = b * f + b * c /\ b * f \in Nat /\ b * c \in Nat
  BY <1>1
<1>4. w * (k + 1) = w * k + w /\ w * k \in Nat
  BY <1>1
<1>5. w * (k + 1) <= w * m /\ w * m \in Nat
  <2>1. w * m - w * (k + 1) = w * (m - (k + 1)) /\ m - (k + 1) \in Nat
    BY <1>1
  <2>2. w * (m - (k + 1)) \in Nat /\ w * m \in Nat /\ w * (k + 1) \in Nat
    BY <1>1, <2>1
  <2>3. QED
    BY <2>1, <2>2
<1>6. b * (f + c) < b * (l + 1)
  <2> DEFINE z1 == b * f
             z2 == b * c
             z3 == w * k
             z4 == w * m
             z5 == b * l
  <2>1. b * (l + 1) = z5 + b /\ z5 \in Nat
    BY <1>1
  <2>2. /\ z1 \in Nat /\ z2 \in Nat /\ z3 \in Nat /\ z4 \in Nat
        /\ z1 = z3 + n /\ z3 + w <= z4 /\ z5 - z4 \in 0 .. b - 1 /\ n + z2 - w \in 0 .. b - 1
    BY <1>1, <1>2, <1>3, <1>4, <1>5
  <2> HIDE DEF z1, z2, z3, z4, z5
  <2>3. z1 + z2 < z5 + b
    BY <1>1, <2>1, <2>2
  <2>4. QED
    BY <1>3, <2>1, <2>3 DEF z1, z2
<1>7. f + c <= l
  <2> SUFFICES ASSUME f + c >= l + 1 PROVE FALSE
    BY <1>1
  <2>1. b * (f + c) - b * (l + 1) = b * ((f + c) - (l + 1)) /\ (f + c) - (l + 1) \in Nat
    BY <1>1
  <2>2. b * ((f + c) - (l + 1)) \in Nat /\ b * (f + c) \in Nat /\ b * (l + 1) \in Nat
    BY <1>1, <2>1
  <2>3. QED
    BY <1>6, <2>1, <2>2
<1>8. unpacker.pos + c \in Start(s) .. Len(stream)
  BY <1>1, <1>7
<1>9. QED
  BY <1>8 DEF c

\* Bytes come in, one coefficient goes out.
LEMMA ReadMoves ==
  ASSUME PackingTypeOK, Unpacking, Len(read) < Coefficients(peer, s)
  PROVE  /\ Value \in Digits(PeerWidth)
         /\ Moved(Consumed(unpacker.pos + Count), BitsPerByte, Append(read, Value), PeerWidth, NextAcc, NextBits)
<1> DEFINE b == BitsPerByte
           w == PeerWidth
           old == Consumed(unpacker.pos)
           more == SubSeq(stream, unpacker.pos + 1, unpacker.pos + Count)
           new == Consumed(unpacker.pos + Count)
           acc == Fetched(Count)
           nbits == unpacker.nbits + b * Count
<1>1. /\ b \in Nat \ {0} /\ w \in Nat /\ unpacker.nbits \in Nat /\ Count \in Nat /\ nbits \in Nat
      /\ stream \in Seq(ByteRange) /\ unpacker.pos \in Start(s) .. Len(stream)
      /\ Start(s) \in Nat /\ Len(stream) \in Nat /\ w <= nbits /\ read \in Seq(Nat)
      /\ b * Count \in Nat
  <2>1. /\ b \in Nat \ {0} /\ w \in Nat /\ stream \in Seq(ByteRange) /\ unpacker.pos \in Start(s) .. Len(stream)
        /\ Start(s) \in Nat /\ Len(stream) \in Nat /\ read \in Seq(Nat)
    BY ReceiverIs
  <2>2. unpacker.nbits \in Nat
    <3>1. unpacker.nbits \in 0 .. BitsPerByte - 1
      BY ReceiverIs
    <3>2. QED
      BY <3>1
  <2>3. Count \in Nat /\ b * Count \in Nat /\ w <= nbits
    BY CountIs
  <2>4. nbits \in Nat
    BY <2>2, <2>3
  <2>5. QED
    BY <2>1, <2>2, <2>3, <2>4
<1>2. unpacker.pos + Count \in Start(s) .. Len(stream)
  BY NoUnderrun
<1>3. old \o more = new
  <2>1. /\ Start(s) + 1 \in 1 .. Len(stream) + 1
        /\ unpacker.pos \in (Start(s) + 1) - 1 .. Len(stream)
        /\ unpacker.pos + Count \in unpacker.pos .. Len(stream)
    BY <1>1, <1>2
  <2>2. QED
    BY <1>1, <2>1, ConcatAdjacentSubSeq DEF Consumed
<1>4. more \in Seq(Digits(b)) /\ Len(more) = Count
  <2>1. \A i \in 1 .. Len(stream) : stream[i] \in ByteRange
    BY <1>1, ElementOfSeq
  <2> DEFINE i == unpacker.pos + 1
             j == unpacker.pos + Count
  <2>2. i \in Int /\ j \in Int /\ \A k \in i .. j : stream[k] \in ByteRange
    BY <1>1, <1>2, <2>1
  <2>3. (IF i <= j THEN j - i + 1 ELSE 0) = Count
    BY <1>1
  <2>4. more = SubSeq(stream, i, j)
    OBVIOUS
  <2> HIDE DEF i, j, more
  <2>5. more \in Seq(ByteRange) /\ Len(more) = Count
    BY <2>2, <2>3, <2>4, SubSeqProperties
  <2>6. QED
    BY <2>5, BytesAreDigits
<1>5. Moved(old, b, read, w, unpacker.acc, unpacker.nbits)
  BY DEF Unpacking, Consumed
<1>6. acc = unpacker.acc + 2 ^ unpacker.nbits * Number(more, b)
  BY DEF Fetched
<1> HIDE DEF old, more, new, acc
<1>7. Moved(new, b, read, w, acc, nbits)
  <2>1. Moved(old \o more, b, read, w, unpacker.acc + 2 ^ unpacker.nbits * Number(more, b),
              unpacker.nbits + b * Len(more))
    BY <1>1, <1>4, <1>5, MoveIn
  <2>2. QED
    BY <1>3, <1>4, <1>6, <2>1
<1>8. acc \in Nat
  BY <1>1, <1>7, PowerIsPositive DEF Moved
<1>9. w * 1 = w
  BY <1>1
<1>10. LeastDigits(acc, w, 1) = <<acc % 2 ^ w>>
  <2> DEFINE x == acc % 2 ^ w
             e == LeastDigits(acc, w, 1)
  <2>1. e[1] = (acc \div 2 ^ (w * (1 - 1))) % 2 ^ w
    BY DEF LeastDigits
  <2>2. w * (1 - 1) = 0 /\ 2 ^ 0 = 1
    BY <1>1, PowerStep
  <2>3. acc \div 1 = acc
    BY <1>8
  <2>4. e[1] = x
    BY <2>1, <2>2, <2>3
  <2>5. e \in Seq(Digits(w)) /\ Len(e) = 1
    <3> DEFINE one == 1
    <3>1. one \in Nat
      OBVIOUS
    <3> HIDE DEF one
    <3>2. LeastDigits(acc, w, one) \in Seq(Digits(w)) /\ Len(LeastDigits(acc, w, one)) = one
      <4>1. w \in Nat
        BY <1>1
      <4> HIDE DEF w
      <4>2. QED
        BY <4>1, <1>8, <3>1, LeastDigitsAre
    <3>3. QED
      BY <3>2 DEF one
  <2> HIDE DEF e, x
  <2>6. e = <<x>>
    BY <2>4, <2>5
  <2>7. QED
    BY <2>6 DEF e, x
<1>11. Moved(new, b, read \o <<acc % 2 ^ w>>, w, acc \div 2 ^ w, nbits - w)
  <2> HIDE DEF nbits
  <2>1. Moved(new, b, read \o LeastDigits(acc, w, 1), w, acc \div 2 ^ (w * 1), nbits - w * 1)
    <3>1. 1 \in Nat /\ w * 1 <= nbits /\ b \in Nat
      BY <1>1, <1>9
    <3>2. QED
      BY <1>1, <1>7, <3>1, MoveOut
  <2>2. QED
    BY <1>9, <1>10, <2>1
<1>12. acc % 2 ^ w \in Digits(w)
  <2>1. 2 ^ w \in Nat \ {0}
    BY <1>1, PowerIsPositive
  <2>2. QED
    BY <1>8, <2>1 DEF Digits
<1>13. read \o <<acc % 2 ^ w>> = Append(read, acc % 2 ^ w)
  <2>1. acc % 2 ^ w \in Nat
    BY <1>12 DEF Digits
  <2>2. QED
    BY <1>1, <2>1, AppendIsConcat
<1>14. Value = acc % 2 ^ w /\ NextAcc = acc \div 2 ^ w /\ NextBits = nbits - w
  <2>1. Value = acc % 2 ^ w
    BY DEF Value, acc
  <2>2. NextAcc = acc \div 2 ^ w
    BY DEF NextAcc, acc
  <2>3. NextBits = nbits - w
    <3> DEFINE z == b * Count
    <3>1. z \in Nat
      BY <1>1
    <3> HIDE DEF z
    <3>2. unpacker.nbits + z - w = (unpacker.nbits + z) - w
      BY <1>1, <3>1
    <3>3. QED
      BY <3>2 DEF NextBits, z
  <2>4. QED
    BY <2>1, <2>2, <2>3
<1>15. QED
  BY <1>11, <1>12, <1>13, <1>14 DEF new

Held == Reduced(written, params.q)

\* Undamaged, the bytes after the seed are the coefficients' number.
LEMMA UndamagedBody ==
  ASSUME PackingInv, pc = "unpack", Undamaged
  PROVE  /\ Number(Consumed(Len(stream)), BitsPerByte) = Number(Held, PeerWidth)
         /\ Held \in Seq(Digits(PeerWidth)) /\ Held \in Seq(Nat)
         /\ Len(Held) = Coefficients(peer, s) /\ Coefficients(peer, s) \in Nat
         /\ Len(written) = Coefficients(peer, s)
         /\ \A i \in 1 .. Len(Held) : Held[i] = written[i] % params.q
<1>1. /\ PackingTypeOK /\ PackerInv /\ Unpacking /\ stream = packer.buf /\ peer = params
  BY DEF PackingInv, Undamaged, Sent
<1>2. /\ StreamHolds(packer.buf, SeedPart(s), Held, Width) /\ Len(written) = Coefficients(params, s)
  BY <1>1, SentSize DEF Held
<1>3. PICK body \in Seq(ByteRange) :
        packer.buf = SeedPart(s) \o body /\ Number(body, BitsPerByte) = Number(Held, Width)
  BY <1>2 DEF StreamHolds
<1>4. Consumed(Len(stream)) = body
  <2>1. SeedPart(s) \in Seq(ByteRange) /\ Len(SeedPart(s)) = Start(s)
    BY SeedPartIs
  <2>2. SubSeq(SeedPart(s) \o body, Len(SeedPart(s)) + 1, Len(SeedPart(s) \o body)) = body
    BY <2>1, TailOfConcat
  <2>3. QED
    BY <1>1, <1>3, <2>1, <2>2 DEF Consumed
<1>5. Width = PeerWidth
  BY <1>1 DEF Width, PeerWidth
<1>6. params.q \in Nat \ {0} /\ Width \in Nat /\ params.q <= 2 ^ Width /\ written \in Seq(Int)
  BY <1>1, SenderIs
<1>7. Held \in Seq(Digits(Width)) /\ Len(Held) = Len(written)
  <2>1. 0 \in Int
    OBVIOUS
  <2>2. QED
    BY <1>6, <2>1, ReducedGrows DEF Held
<1>8. Held \in Seq(Nat)
  BY <1>6, <1>7, DigitsAreNatural
<1>9. \A i \in 1 .. Len(Held) : Held[i] = written[i] % params.q
  BY <1>7 DEF Held, Reduced
<1>10. Coefficients(peer, s) \in Nat
  BY <1>1, ReceiverIs
<1>11. QED
  BY <1>1, <1>2, <1>3, <1>4, <1>5, <1>7, <1>8, <1>9, <1>10

\* Undamaged, the coefficient read next is the one written there.
LEMMA ReadIsWritten ==
  ASSUME PackingInv, pc = "unpack", Undamaged, Len(read) < Coefficients(peer, s)
  PROVE  Value = written[Len(read) + 1] % params.q
<1> DEFINE b == BitsPerByte
           w == PeerWidth
           k == Len(read)
           n == unpacker.pos + Count
           from == Consumed(n)
           rest == SubSeq(stream, n + 1, Len(stream))
           first == SubSeq(Held, 1, k + 1)
           last == SubSeq(Held, (k + 1) + 1, Len(Held))
           to == Append(read, Value)
<1>1. PackingTypeOK /\ Unpacking
  BY DEF PackingInv
<1>2. /\ b \in Nat /\ w \in Nat /\ k \in Nat /\ read \in Seq(Nat) /\ stream \in Seq(ByteRange)
      /\ Start(s) \in Nat /\ Len(stream) \in Nat
  BY <1>1, ReceiverIs
<1>3. n \in Start(s) .. Len(stream)
  BY <1>1, NoUnderrun
<1>4. Value \in Nat /\ Moved(from, b, to, w, NextAcc, NextBits)
  <2>1. Value \in Digits(w) /\ Moved(from, b, to, w, NextAcc, NextBits)
    BY <1>1, ReadMoves
  <2>2. QED
    BY <2>1 DEF Digits
<1>5. /\ Number(Consumed(Len(stream)), b) = Number(Held, w)
      /\ Held \in Seq(Digits(w)) /\ Held \in Seq(Nat) /\ Len(Held) \in Nat
      /\ k < Len(Held)
      /\ \A i \in 1 .. Len(Held) : Held[i] = written[i] % params.q
  BY UndamagedBody
<1> HIDE DEF n
<1>6. from \o rest = Consumed(Len(stream)) /\ rest \in Seq(Digits(b))
  <2>1. /\ Start(s) + 1 \in 1 .. Len(stream) + 1 /\ n \in (Start(s) + 1) - 1 .. Len(stream)
        /\ Len(stream) \in n .. Len(stream) /\ n + 1 \in Int /\ Len(stream) \in Int
    BY <1>2, <1>3
  <2>2. from \o rest = Consumed(Len(stream))
    BY <1>2, <2>1, ConcatAdjacentSubSeq DEF Consumed
  <2>3. \A i \in 1 .. Len(stream) : stream[i] \in ByteRange
    BY <1>2, ElementOfSeq
  <2>4. \A i \in n + 1 .. Len(stream) : stream[i] \in ByteRange
    BY <1>2, <1>3, <2>3
  <2>5. rest \in Seq(ByteRange)
    BY <2>1, <2>4, SubSeqProperties
  <2>6. QED
    BY <2>2, <2>5, BytesAreDigits
<1>7. \A i \in 1 .. Len(Held) : Held[i] \in Digits(w) /\ Held[i] \in Nat
  BY <1>5, ElementOfSeq
<1>8. first \o last = Held
  <2>1. /\ 1 \in 1 .. Len(Held) + 1 /\ k + 1 \in 1 - 1 .. Len(Held) /\ Len(Held) \in k + 1 .. Len(Held)
    BY <1>2, <1>5
  <2>2. first \o last = SubSeq(Held, 1, Len(Held))
    BY <1>5, <2>1, ConcatAdjacentSubSeq
  <2>3. QED
    BY <1>5, <2>2, SubSeqFull
<1>9. first \in Seq(Digits(w)) /\ Len(first) = k + 1
  <2>1. 1 \in Int /\ k + 1 \in Int /\ (\A i \in 1 .. k + 1 : Held[i] \in Digits(w)) /\ 1 <= k + 1
    BY <1>2, <1>5, <1>7
  <2> DEFINE m == k + 1
  <2>2. m \in Int /\ 1 <= m /\ m - 1 + 1 = m
    BY <1>2
  <2> HIDE DEF m
  <2>3. first = SubSeq(Held, 1, m)
    BY DEF m
  <2>4. \A i \in 1 .. m : Held[i] \in Digits(w)
    BY <2>1 DEF m
  <2>5. SubSeq(Held, 1, m) \in Seq(Digits(w)) /\ Len(SubSeq(Held, 1, m)) = IF 1 <= m THEN m - 1 + 1 ELSE 0
    BY <2>1, <2>2, <2>4, SubSeqProperties
  <2>6. QED
    BY <2>2, <2>3, <2>5 DEF m
<1>10. last \in Seq(Digits(w))
  <2>1. /\ (k + 1) + 1 \in Int /\ Len(Held) \in Int
        /\ \A i \in (k + 1) + 1 .. Len(Held) : Held[i] \in Digits(w)
    BY <1>2, <1>5, <1>7
  <2>2. QED
    BY <2>1, SubSeqProperties
<1>11. Len(to) = k + 1
  BY <1>2, <1>4, AppendProperties
<1> HIDE DEF first, last, to, rest, from, b, w
<1>12. Number(to, w) = Number(first, w)
  <2>1. Number(from \o rest, b) = Number(first \o last, w) /\ Len(first) = Len(to)
    BY <1>5, <1>6, <1>8, <1>9, <1>11 DEF b, w
  <2>2. /\ b \in Nat /\ w \in Nat /\ rest \in Seq(Digits(b))
        /\ first \in Seq(Digits(w)) /\ last \in Seq(Digits(w))
        /\ Moved(from, b, to, w, NextAcc, NextBits)
    BY <1>2, <1>4, <1>6, <1>9, <1>10
  <2>3. QED
    BY <2>1, <2>2, MovedPrefix
<1>13. first = Append(read, Held[k + 1])
  <2> DEFINE x == Held[k + 1]
             e == Append(read, x)
  <2>1. k + 1 \in 1 .. Len(Held) /\ x \in Nat
    BY <1>2, <1>5, <1>7
  <2>2. /\ e \in Seq(Nat) /\ Len(e) = k + 1 /\ e[k + 1] = x
        /\ \A i \in 1 .. k : e[i] = read[i]
    BY <1>2, <2>1, AppendProperties
  <2>3. first \in Seq(Nat) /\ \A i \in 1 .. k + 1 : first[i] = Held[i]
    <3>1. first \in Seq(Nat)
      BY <1>2, <1>9, DigitsAreNatural
    <3>2. \A i \in 1 .. k + 1 - 1 + 1 : first[i] = Held[1 + i - 1]
      <4>1. 1 \in Int /\ k + 1 \in Int /\ \A i \in 1 .. k + 1 : Held[i] \in Nat
        BY <1>2, <1>5, <1>7
      <4>2. QED
        BY <4>1, SubSeqProperties DEF first
    <3>3. QED
      BY <1>2, <3>1, <3>2
  <2>4. \A i \in 1 .. k : read[i] = Held[i]
    <3>1. \A i \in 1 .. k : read[i] = written[i] % params.q
      BY <1>1 DEF Unpacking
    <3>2. QED
      BY <1>2, <1>5, <3>1
  <2> HIDE DEF e
  <2>5. \A i \in 1 .. Len(first) : first[i] = e[i]
    <3> SUFFICES ASSUME NEW i \in 1 .. k + 1 PROVE first[i] = e[i]
      BY <1>9
    <3>1. CASE i = k + 1
      BY <2>2, <2>3, <3>1
    <3>2. CASE i # k + 1
      <4>1. i \in 1 .. k
        BY <1>2, <3>2
      <4>2. QED
        BY <2>2, <2>3, <2>4, <4>1
    <3>3. QED
      BY <3>1, <3>2
  <2>6. first = e
    BY <1>9, <2>2, <2>3, <2>5, SeqEqual
  <2>7. QED
    BY <2>6 DEF e
<1>14. k + 1 \in 1 .. Len(Held) /\ Held[k + 1] \in Nat
  BY <1>2, <1>5, <1>7
<1>15. Value = Held[k + 1]
  <2>1. Number(Append(read, Value), w) = Number(Append(read, Held[k + 1]), w)
    BY <1>12, <1>13 DEF to
  <2>2. QED
    BY <1>2, <1>4, <1>14, <2>1, MovedDigit
<1>16. QED
  BY <1>5, <1>14, <1>15

LEMMA ReadCoefficientInv == PackingInv /\ ReadCoefficient => PackingInv'
<1> SUFFICES ASSUME PackingInv, ReadCoefficient PROVE PackingInv'
  OBVIOUS
<1> DEFINE next == [pos |-> unpacker.pos + Count, acc |-> NextAcc, nbits |-> NextBits]
<1>1. /\ PackingTypeOK /\ PackerInv /\ pc = "unpack" /\ Unpacking /\ Len(read) < Coefficients(peer, s)
      /\ params' = params /\ s' = s /\ written' = written /\ packer' = packer
      /\ peer' = peer /\ stream' = stream
  BY DEF PackingInv, ReadCoefficient
<1>2. unpacker.pos + Count \in Start(s) .. Len(stream)
  BY <1>1, NoUnderrun
<1>3. /\ BitsPerByte \in Nat /\ Len(stream) \in Nat /\ Start(s) \in Nat /\ PeerWidth \in Nat
      /\ read \in Seq(0 .. peer.q - 1) /\ Len(read) \in Nat /\ Coefficients(peer, s) \in Nat
      /\ peer.q \in Nat
  BY <1>1, ReceiverIs
<1>4. ~ (unpacker.pos + Count > Len(stream))
  BY <1>2, <1>3
<1>5. /\ unpacker' = next
      /\ IF IsResidue(Value) THEN Read(Value) ELSE Reject("residue") /\ UNCHANGED read
  <2>1. NextBits = unpacker.nbits + BitsPerByte * Count - PeerWidth
    BY DEF NextBits
  <2>2. QED
    BY <1>4, <2>1 DEF ReadCoefficient, Count, PeerWidth, Value, NextAcc
<1>6. /\ Value \in Nat
      /\ Moved(Consumed(unpacker.pos + Count), BitsPerByte, Append(read, Value), PeerWidth, NextAcc, NextBits)
  <2>1. /\ Value \in Digits(PeerWidth)
        /\ Moved(Consumed(unpacker.pos + Count), BitsPerByte, Append(read, Value), PeerWidth, NextAcc, NextBits)
    BY <1>1, ReadMoves
  <2>2. QED
    BY <2>1 DEF Digits
<1>7. NextBits \in 0 .. BitsPerByte - 1
  BY <1>1, CountIs
<1>8. AccumulatorOK(NextAcc, NextBits)
  BY <1>6, <1>7 DEF AccumulatorOK, Moved
<1>9. unpacker'.pos = unpacker.pos + Count /\ unpacker'.acc = NextAcc /\ unpacker'.nbits = NextBits
  BY <1>5
<1>10. PeerWidth' = PeerWidth
  BY <1>1 DEF PeerWidth
<1>11. unpacker'.pos \in 0 .. Len(stream')
  BY <1>1, <1>2, <1>3, <1>9
<1>12. Undamaged' <=> Undamaged
  BY <1>1 DEF Undamaged, Sent
<1>13. Undamaged => Value = written[Len(read) + 1] % params.q
  BY <1>1, ReadIsWritten
<1>14. CASE IsResidue(Value)
  <2>1. read' = Append(read, Value) /\ pc' = "unpack" /\ why' = why
    BY <1>1, <1>5, <1>14 DEF Read
  <2>2. Value \in 0 .. peer.q - 1
    BY <1>3, <1>6, <1>14 DEF IsResidue
  <2>3. /\ read' \in Seq(0 .. peer.q - 1) /\ Len(read') = Len(read) + 1 /\ read'[Len(read) + 1] = Value
        /\ \A i \in 1 .. Len(read) : read'[i] = read[i]
    BY <1>3, <2>1, <2>2, AppendProperties
  <2>4. PackingTypeOK'
    <3>1. read' \in Seq(0 .. peer'.q - 1)
      BY <1>1, <2>3
    <3>2. QED
      BY <1>1, <1>8, <1>9, <1>11, <2>1, <3>1 DEF PackingTypeOK
  <2>5. PackerInv'
    BY <1>1, <2>1, SenderStays
  <2>6. Undamaged => \A i \in 1 .. Len(read') : read'[i] = written[i] % params.q
    <3> SUFFICES ASSUME Undamaged, NEW i \in 1 .. Len(read) + 1 PROVE read'[i] = written[i] % params.q
      BY <2>3
    <3>1. CASE i = Len(read) + 1
      BY <1>13, <2>3, <3>1
    <3>2. CASE i # Len(read) + 1
      <4>1. i \in 1 .. Len(read)
        BY <1>3, <3>2
      <4>2. read[i] = written[i] % params.q
        BY <1>1, <4>1 DEF Unpacking
      <4>3. QED
        BY <2>3, <4>1, <4>2
    <3>3. QED
      BY <3>1, <3>2
  <2>7. Unpacking'
    <3>1. s' \in Streams(peer') /\ Len(stream') = StreamBytes(peer', s')
      BY <1>1 DEF Unpacking
    <3>2. unpacker'.pos \in Start(s') .. Len(stream')
      BY <1>1, <1>2, <1>9
    <3>3. Moved(SubSeq(stream', Start(s') + 1, unpacker'.pos), BitsPerByte, read', PeerWidth',
                unpacker'.acc, unpacker'.nbits)
      BY <1>1, <1>6, <1>9, <1>10, <2>1 DEF Consumed
    <3>4. Len(read') <= Coefficients(peer', s')
      BY <1>1, <1>3, <2>3
    <3>5. Undamaged' => \A i \in 1 .. Len(read') : read'[i] = written'[i] % params'.q
      BY <1>1, <1>12, <2>6
    <3>6. QED
      BY <3>1, <3>2, <3>3, <3>4, <3>5 DEF Unpacking
  <2>8. QED
    BY <2>1, <2>4, <2>5, <2>7 DEF PackingInv
<1>15. CASE ~ IsResidue(Value)
  <2>1. pc' = "rejected" /\ why' = "residue" /\ read' = read
    BY <1>5, <1>15 DEF Reject
  <2>2. PackingTypeOK'
    <3>1. read' \in Seq(0 .. peer'.q - 1)
      BY <1>1, <1>3, <2>1
    <3>2. QED
      BY <1>1, <1>8, <1>9, <1>11, <2>1, <3>1 DEF PackingTypeOK
  <2>3. PackerInv'
    BY <1>1, <2>1, SenderStays
  <2>4. ~ Undamaged'
    <3> SUFFICES ASSUME Undamaged PROVE FALSE
      BY <1>12
    <3>1. peer = params
      BY DEF Undamaged
    <3>2. Len(read) + 1 \in 1 .. Len(written) /\ written \in Seq(Int)
      BY <1>1, <1>3, UndamagedBody DEF PackingTypeOK
    <3>3. written[Len(read) + 1] \in Int /\ params.q \in Nat \ {0}
      BY <1>1, <3>2, SenderIs
    <3> DEFINE x == written[Len(read) + 1]
    <3>4. x \in Int /\ Value = x % params.q
      BY <1>13, <3>3
    <3> HIDE DEF x
    <3>5. x % params.q \in 0 .. params.q - 1
      BY <3>3, <3>4
    <3>6. Value < peer.q
      BY <3>1, <3>3, <3>4, <3>5
    <3>7. QED
      BY <1>15, <3>6 DEF IsResidue
  <2>5. QED
    BY <2>1, <2>2, <2>3, <2>4 DEF PackingInv
<1>16. QED
  BY <1>14, <1>15

LEMMA ExpectEndInv == PackingInv /\ ExpectEnd => PackingInv'
<1> SUFFICES ASSUME PackingInv, ExpectEnd PROVE PackingInv'
  OBVIOUS
<1>1. /\ PackingTypeOK /\ PackerInv /\ pc = "unpack" /\ Unpacking /\ Len(read) = Coefficients(peer, s)
      /\ params' = params /\ s' = s /\ written' = written /\ packer' = packer
      /\ peer' = peer /\ stream' = stream /\ unpacker' = unpacker /\ read' = read
      /\ IF EndProblem = "none" THEN pc' = "accepted" /\ UNCHANGED why ELSE Reject(EndProblem)
  BY DEF PackingInv, ExpectEnd
<1> DEFINE b == BitsPerByte
           x == PeerWidth * Coefficients(peer, s)
           f == unpacker.pos - Start(s)
           n == unpacker.nbits
           body == Consumed(Len(stream))
<1>2. /\ b \in Nat \ {0} /\ x \in Nat /\ n \in 0 .. b - 1
      /\ Start(s) \in Nat /\ Len(stream) \in Nat /\ unpacker.pos \in Start(s) .. Len(stream)
      /\ stream \in Seq(ByteRange) /\ Len(stream) = Start(s) + BodyBytes(peer, s)
      /\ PeerWidth \in Nat /\ Coefficients(peer, s) \in Nat /\ read \in Seq(Nat) /\ unpacker.acc \in Nat
  BY <1>1, ReceiverIs
<1>3. Moved(Consumed(unpacker.pos), b, read, PeerWidth, unpacker.acc, n)
  BY <1>1 DEF Unpacking, Consumed
<1>4. b * f = x + n
  <2>1. b * Len(Consumed(unpacker.pos)) = PeerWidth * Len(read) + n
    BY <1>3 DEF Moved
  <2>2. Len(Consumed(unpacker.pos)) = f
    <3> DEFINE u == Start(s)
               v == unpacker.pos
    <3>1. u \in Nat /\ v \in Nat /\ u <= v /\ v <= Len(stream)
      BY <1>2
    <3>2. \A i \in 1 .. Len(stream) : stream[i] \in ByteRange
      BY <1>2, ElementOfSeq
    <3>3. Consumed(v) = SubSeq(stream, u + 1, v)
      BY DEF Consumed
    <3> HIDE DEF u, v
    <3>4. u + 1 \in Int /\ v \in Int /\ \A i \in u + 1 .. v : stream[i] \in ByteRange
      BY <1>2, <3>1, <3>2
    <3>5. Len(SubSeq(stream, u + 1, v)) = IF u + 1 <= v THEN v - (u + 1) + 1 ELSE 0
      BY <3>4, SubSeqProperties
    <3>6. (IF u + 1 <= v THEN v - (u + 1) + 1 ELSE 0) = v - u
      BY <3>1
    <3>7. QED
      BY <3>3, <3>5, <3>6 DEF u, v
  <2>3. QED
    BY <1>1, <2>1, <2>2
<1>5. unpacker.pos = Len(stream)
  <2>1. f \in Nat
    BY <1>2
  <2>2. b * f - x \in 0 .. b - 1
    <3> HIDE DEF b, f, x, n
    <3>1. QED
      BY <1>2, <1>4
  <2>3. f = CeilDiv(x, b)
    <3> HIDE DEF f, x
    <3>1. QED
      BY <1>2, <2>1, <2>2, CeilDivOnly
  <2>4. BodyBytes(peer, s) = CeilDiv(x, b)
    BY DEF BodyBytes, BitsToBytes, PeerWidth
  <2>5. QED
    BY <1>2, <2>3, <2>4
<1>6. Undamaged => unpacker.acc = 0
  <2> SUFFICES ASSUME Undamaged PROVE unpacker.acc = 0
    OBVIOUS
  <2>1. /\ Number(body, b) = Number(Held, PeerWidth) /\ Held \in Seq(Nat)
        /\ Len(Held) = Len(read) /\ \A i \in 1 .. Len(Held) : Held[i] = written[i] % params.q
    BY <1>1, UndamagedBody
  <2>2. \A i \in 1 .. Len(read) : read[i] = written[i] % params.q
    BY <1>1 DEF Unpacking
  <2>3. Held = read
    BY <1>2, <2>1, <2>2, SeqEqual
  <2>4. Number(body, b) = Number(read, PeerWidth) + unpacker.acc * 2 ^ (PeerWidth * Len(read))
    BY <1>3, <1>5 DEF Moved
  <2> DEFINE u == Number(read, PeerWidth)
             w == 2 ^ (PeerWidth * Len(read))
             a == unpacker.acc
  <2>5. u \in Nat /\ w \in Nat \ {0} /\ a \in Nat /\ u = u + a * w
    <3>1. u \in Nat /\ Len(read) \in Nat
      BY <1>2, NumberType
    <3>2. w \in Nat \ {0}
      BY <1>2, <3>1, DigitWeight
    <3>3. u = u + a * w
      BY <2>1, <2>3, <2>4
    <3>4. QED
      BY <1>2, <3>1, <3>2, <3>3
  <2> HIDE DEF u, w, a
  <2>6. 0 + a * w = 0 + 0 * w /\ 0 \in 0 .. w - 1 /\ a \in Int /\ 0 \in Int
    BY <2>5
  <2>7. a = 0
    BY <2>5, <2>6, SameDivision
  <2>8. QED
    BY <2>7 DEF a
<1>7. pc' \in {"accepted", "rejected"} /\ why' \in {"none", "size", "underrun", "residue", "trailing", "padding"}
  <2>1. why \in {"none", "size", "underrun", "residue", "trailing", "padding"}
    BY <1>1 DEF PackingTypeOK
  <2>2. EndProblem \in {"trailing", "padding", "none"}
    BY DEF EndProblem
  <2>3. QED
    BY <1>1, <2>1, <2>2 DEF Reject
<1>8. PackerInv'
  <2>1. pc' # "pack"
    BY <1>1 DEF Reject
  <2>2. QED
    BY <1>1, <2>1, SenderStays
<1>9. PackingTypeOK'
  BY <1>1, <1>7 DEF PackingTypeOK
<1>10. CASE unpacker.acc = 0
  <2>1. EndProblem = "none"
    BY <1>5, <1>10 DEF EndProblem
  <2>2. pc' = "accepted"
    BY <1>1, <2>1
  <2>3. Accepted'
    BY <1>1, <1>5, <1>10 DEF Accepted
  <2>4. PeerWidth' = PeerWidth /\ (Undamaged' <=> Undamaged)
    BY <1>1 DEF PeerWidth, Undamaged, Sent
  <2>5. Unpacking'
    BY <1>1, <2>4 DEF Unpacking
  <2>6. QED
    BY <1>8, <1>9, <2>2, <2>3, <2>5 DEF PackingInv
<1>11. CASE unpacker.acc # 0
  <2>1. EndProblem = "padding"
    BY <1>5, <1>11 DEF EndProblem
  <2>2. pc' = "rejected"
    BY <1>1, <2>1 DEF Reject
  <2>3. ~ Undamaged'
    BY <1>1, <1>6, <1>11 DEF Undamaged, Sent
  <2>4. QED
    BY <1>8, <1>9, <2>2, <2>3 DEF PackingInv
<1>12. QED
  BY <1>10, <1>11

LEMMA PackingStepInv == PackingInv /\ [PackingNext]_packing_vars => PackingInv'
<1> SUFFICES ASSUME PackingInv, [PackingNext]_packing_vars PROVE PackingInv'
  OBVIOUS
<1>1. CASE PackCoefficient
  BY <1>1, PackCoefficientInv
<1>2. CASE FinishPacking
  BY <1>2, FinishPackingInv
<1>3. CASE Arrive
  BY <1>3, ArriveInv
<1>4. CASE ReadCoefficient
  BY <1>4, ReadCoefficientInv
<1>5. CASE ExpectEnd
  BY <1>5, ExpectEndInv
<1>6. CASE UNCHANGED packing_vars
  <2>1. /\ params' = params /\ s' = s /\ pc' = pc /\ written' = written /\ packer' = packer
        /\ peer' = peer /\ stream' = stream /\ unpacker' = unpacker /\ read' = read /\ why' = why
    BY <1>6 DEF packing_vars
  <2>2. Width' = Width /\ PeerWidth' = PeerWidth /\ (Undamaged' <=> Undamaged)
    BY <2>1 DEF Width, PeerWidth, Undamaged, Sent
  <2>3. PackingTypeOK' <=> PackingTypeOK
    BY <2>1 DEF PackingTypeOK
  <2>4. PackerInv' <=> PackerInv
    BY <2>1, <2>2 DEF PackerInv
  <2>5. BeforeArrival' <=> BeforeArrival
    BY <2>1 DEF BeforeArrival
  <2>6. Unpacking' <=> Unpacking
    BY <2>1, <2>2 DEF Unpacking
  <2>7. Accepted' <=> Accepted
    BY <2>1 DEF Accepted
  <2>8. QED
    BY <2>1, <2>2, <2>3, <2>4, <2>5, <2>6, <2>7 DEF PackingInv
<1>7. QED
  BY <1>1, <1>2, <1>3, <1>4, <1>5, <1>6 DEF PackingNext

\* The packer and the unpacker hold what they should after every step.
THEOREM PackingInvariant == PackingSpec => []PackingInv
<1>1. PackingInit => PackingInv
  BY PackingInitInv
<1>2. PackingInv /\ [PackingNext]_packing_vars => PackingInv'
  BY PackingStepInv
<1>3. QED
  BY <1>1, <1>2, PTL DEF PackingSpec

\* Every finished stream of the packer has the size that wire_shape's formulas
\* give and check_size demands; accumulators never overflow a byte between calls.
THEOREM SizesAreExactHolds == PackingSpec => []SizesAreExact
<1>1. PackingInv => SizesAreExact
  BY SentSize DEF PackingInv, SizesAreExact, Sent
<1>2. QED
  BY <1>1, PackingInvariant, PTL

\* theoretical_communication_cost and the streams differ by padding bits only.
THEOREM OverheadIsPaddingHolds == PackingSpec => []OverheadIsPadding
<1>1. PackingInv => OverheadIsPadding
  BY KeysPadding, UploadPadding, DownloadPadding DEF PackingInv, PackingTypeOK, OverheadIsPadding
<1>2. QED
  BY <1>1, PackingInvariant, PTL

\* unpack_* gives back what pack_* was given, reduced, whatever the parameters.
THEOREM RoundTripHolds == PackingSpec => []RoundTrip
<1>1. ASSUME PackingInv PROVE RoundTrip
  <2> SUFFICES ASSUME pc \in {"accepted", "rejected"}, Undamaged
               PROVE  pc = "accepted" /\ read = [i \in DOMAIN written |-> written[i] % params.q]
    BY DEF RoundTrip
  <2>1. pc = "accepted" /\ Unpacking /\ Accepted /\ PackingTypeOK /\ PackerInv
    BY <1>1 DEF PackingInv
  <2>2. /\ read \in Seq(Nat) /\ Len(read) = Coefficients(peer, s) /\ peer = params
        /\ \A i \in 1 .. Len(read) : read[i] = written[i] % params.q
    BY <2>1, ReceiverIs DEF Accepted, Unpacking, Undamaged
  <2>3. Len(written) = Len(read) /\ written \in Seq(Int)
    BY <2>1, <2>2, SentSize DEF PackingTypeOK
  <2>4. DOMAIN written = 1 .. Len(read)
    BY <2>3
  <2>5. read = [i \in 1 .. Len(read) |-> read[i]]
    BY <2>2
  <2>6. read = [i \in DOMAIN written |-> written[i] % params.q]
    BY <2>2, <2>4, <2>5
  <2>7. QED
    BY <2>1, <2>6
<1>2. QED
  BY <1>1, PackingInvariant, PTL

\* expect_end and the residue checks leave one stream for each list of coefficients.
THEOREM AcceptedIsCanonicalHolds == PackingSpec => []AcceptedIsCanonical
<1>1. ASSUME PackingInv PROVE AcceptedIsCanonical
  <2> SUFFICES ASSUME pc = "accepted"
               PROVE  /\ Number(Body, BitsPerByte) = Number(read, CoefficientBitWidth(peer))
                      /\ \A i \in DOMAIN read : read[i] < peer.q
                      /\ Len(stream) = StreamBytes(peer, s)
    BY DEF AcceptedIsCanonical
  <2>1. Unpacking /\ Accepted /\ PackingTypeOK
    BY <1>1 DEF PackingInv
  <2>2. /\ read \in Seq(0 .. peer.q - 1) /\ read \in Seq(Nat) /\ PeerWidth \in Nat /\ Len(read) \in Nat
        /\ peer.q \in Nat
    BY <2>1, ReceiverIs
  <2>3. Body = SubSeq(stream, Start(s) + 1, unpacker.pos)
    BY <2>1 DEF Body, Start, Accepted
  <2>4. Number(Body, BitsPerByte) = Number(read, PeerWidth) + 0 * 2 ^ (PeerWidth * Len(read))
    BY <2>1, <2>3 DEF Unpacking, Moved, Accepted
  <2>5. 0 * 2 ^ (PeerWidth * Len(read)) = 0 /\ Number(read, PeerWidth) \in Nat
    <3> DEFINE w == 2 ^ (PeerWidth * Len(read))
    <3>1. w \in Nat
      BY <2>2, DigitWeight
    <3> HIDE DEF w
    <3>2. 0 * w = 0
      BY <3>1
    <3>3. QED
      BY <2>2, <3>2, NumberType DEF w
  <2>6. \A i \in DOMAIN read : read[i] < peer.q
    BY <2>2
  <2>7. Number(Body, BitsPerByte) = Number(read, PeerWidth)
    BY <2>4, <2>5
  <2>8. QED
    BY <2>1, <2>6, <2>7 DEF Unpacking, PeerWidth
<1>2. QED
  BY <1>1, PackingInvariant, PTL
=============================================================================
