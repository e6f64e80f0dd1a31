------------------------ MODULE SeededEvalKeysProofs ------------------------
(***************************************************************************)
(* For any number of levels, digits, coefficients and seeds, and wherever  *)
(* a build fails: every ciphertext the server rebuilds has the masks under *)
(* which its b polynomial was made, and no mask serves two rows.           *)
(***************************************************************************)
EXTENDS SeededEvalKeys, SequenceTheorems, TLAPS

MaskRows == [1 .. N -> Distributions \X Nat]
ClientRows == [of : {"ksk", "rgsw"} \X Nat, under : MaskRows]
Ciphertexts == [a : MaskRows, b : ClientRows]

\* Levels are filled one after the other.
Shape(levels) ==
  \A l \in 1 .. Len(levels) :
    Len(levels[l]) \in 1 .. KskDigits /\ (l < Len(levels) => Len(levels[l]) = KskDigits)
Full(levels) == Len(levels) = Levels /\ \A l \in 1 .. Levels : Len(levels[l]) = KskDigits

\* The order of a digit in the stream, and how many digits there are.
Index(l, d) == (l - 1) * KskDigits + (d - 1)
Done(levels) == IF levels = <<>> THEN 0 ELSE Index(Len(levels), Len(levels[Len(levels)])) + 1
Generated(keys) == Done(keys.ksk) + Len(keys.rgsw)
KskTotal == Levels * KskDigits

KskRow(seed, l, d) == [of |-> <<"ksk", l>>, under |-> Masks(seed, N * Index(l, d))]
RgswRow(seed, d) == [of |-> <<"rgsw", 1>>, under |-> Masks(seed, N * (KskTotal + d - 1))]

\* The keys are the first of those made under the seed.
MadeUnder(keys, seed) ==
  /\ \A l \in 1 .. Len(keys.ksk) : \A d \in 1 .. Len(keys.ksk[l]) :
       keys.ksk[l][d] = KskRow(seed, l, d)
  /\ \A d \in 1 .. Len(keys.rgsw) : keys.rgsw[d] = RgswRow(seed, d)

Keys(S) == [ksk : Seq(Seq(S)), rgsw : Seq(S)]

\* Keys in the making: a prefix of all levels, then of the digits of RLWE'(sk^2).
Partial(keys) ==
  /\ Shape(keys.ksk) /\ Len(keys.ksk) <= Levels /\ Len(keys.rgsw) <= PrimeDigits
  /\ keys.rgsw # <<>> => Full(keys.ksk)

Types ==
  /\ TypeOK
  /\ wire \in [eval_key_seed : Distributions, rows : Keys(ClientRows)]
  /\ pub \in Keys(ClientRows) /\ rebuilt \in Keys(Ciphertexts)
  /\ Partial(pub) /\ Partial(rebuilt)
  /\ used \subseteq Distributions \X Nat

\* While a key is generated, its rows are all that its seed has been used for.
BuildInv ==
  building # "no" =>
    /\ dist \in Seeds /\ dist # wire.eval_key_seed
    /\ MadeUnder(pub, dist) /\ drawn[dist] = N * Generated(pub)
    /\ building = "ksk" => ~ Full(pub.ksk)
    /\ building = "rgsw" => Full(pub.ksk)

\* Keys sent are complete, and their seed's stream stands where they end.
WireInv ==
  wire # NoWire =>
    /\ wire.eval_key_seed \in Seeds
    /\ Full(wire.rows.ksk) /\ Len(wire.rows.rgsw) = PrimeDigits
    /\ MadeUnder(wire.rows, wire.eval_key_seed)
    /\ drawn[wire.eval_key_seed] = N * (KskTotal + PrimeDigits)

\* What was drawn lies before the position of its stream.
UsedInv == \A mask \in used : mask[2] <= drawn[mask[1]]

\* The server draws the masks of the next row it needs.
ServerInv ==
  /\ wire = NoWire => rebuilt = NoRows
  /\ stream = N * Generated(rebuilt)
  /\ \A l \in 1 .. Len(rebuilt.ksk) : \A d \in 1 .. Len(rebuilt.ksk[l]) :
       rebuilt.ksk[l][d] = Ciphertext(Received.ksk[l][d], N * Index(l, d))
  /\ \A d \in 1 .. Len(rebuilt.rgsw) :
       rebuilt.rgsw[d] = Ciphertext(Received.rgsw[d], N * (KskTotal + d - 1))

IInv == Types /\ BuildInv /\ WireInv /\ UsedInv /\ ServerInv

----------------------------------------------------------------------------
(* Arithmetic of positions. *)

\* A product by a positive number keeps the order.
LEMMA TimesMonotone ==
  ASSUME NEW m \in Nat \ {0}, NEW i \in Nat, NEW j \in Nat, i < j
  PROVE  i * m + m <= j * m
<1>1. PICK k \in Nat : j = i + 1 + k
  <2>1. j - i - 1 \in Nat
    OBVIOUS
  <2>2. QED
    BY <2>1
<1>2. j * m = i * m + m + k * m
  BY <1>1
<1>3. k * m >= 0
  OBVIOUS
<1>4. QED
  BY <1>2, <1>3

\* A number has one quotient and one remainder in 1 .. m.
LEMMA DivisionUnique ==
  ASSUME NEW m \in Nat \ {0}, NEW i \in Nat, NEW j \in Nat, NEW a \in 1 .. m, NEW b \in 1 .. m,
         i * m + a = j * m + b
  PROVE  i = j /\ a = b
<1>1. CASE i < j
  BY <1>1, TimesMonotone
<1>2. CASE j < i
  BY <1>2, TimesMonotone
<1>3. CASE i = j
  BY <1>3
<1>4. QED
  BY <1>1, <1>2, <1>3

\* Digits have orders of their own, below the number of all digits.
LEMMA IndexFacts ==
  /\ \A l \in Nat \ {0}, d \in 1 .. KskDigits : Index(l, d) \in Nat
  /\ \A l \in 1 .. Levels, d \in 1 .. KskDigits : Index(l, d) < KskTotal
  /\ KskTotal \in Nat \ {0}
<1> USE KeysAssumption
<1>1. ASSUME NEW l \in Nat \ {0}, NEW d \in 1 .. KskDigits
      PROVE  Index(l, d) \in Nat /\ (l - 1) * KskDigits \in Nat /\ Index(l, d) = (l - 1) * KskDigits + d - 1
  BY DEF Index
<1>2. ASSUME NEW l \in 1 .. Levels, NEW d \in 1 .. KskDigits PROVE Index(l, d) < KskTotal
  <2>1. (l - 1) * KskDigits + KskDigits <= Levels * KskDigits
    BY TimesMonotone
  <2>2. Index(l, d) = (l - 1) * KskDigits + d - 1 /\ (l - 1) * KskDigits \in Nat
    BY <1>1
  <2>3. QED
    BY <2>1, <2>2 DEF KskTotal
<1>3. KskTotal \in Nat \ {0}
  BY <1>2 DEF KskTotal, Index
<1>4. QED
  BY <1>1, <1>2, <1>3

LEMMA IndexInjective ==
  ASSUME NEW l1 \in Nat \ {0}, NEW l2 \in Nat \ {0}, NEW d1 \in 1 .. KskDigits,
         NEW d2 \in 1 .. KskDigits, Index(l1, d1) = Index(l2, d2)
  PROVE  l1 = l2 /\ d1 = d2
<1> DEFINE i == l1 - 1
           j == l2 - 1
<1>1. i \in Nat /\ j \in Nat /\ KskDigits \in Nat \ {0}
  BY KeysAssumption
<1>2. i * KskDigits + d1 = j * KskDigits + d2
  BY <1>1 DEF Index
<1> HIDE DEF i, j
<1>3. i = j /\ d1 = d2
  BY <1>1, <1>2, DivisionUnique
<1>4. QED
  BY <1>3 DEF i, j

LEMMA SizeFacts ==
  {KskTotal, Levels, KskDigits, PrimeDigits, N} \subseteq Nat \ {0}
BY KeysAssumption, IndexFacts

----------------------------------------------------------------------------
(* Appending digits. *)

\* Where the next digit goes.
Digit(levels) ==
  IF levels = <<>> \/ Len(levels[Len(levels)]) = KskDigits THEN 1
  ELSE Len(levels[Len(levels)]) + 1

Appended(S, levels, x, r) ==
  LET L == Level(levels)
      D == Digit(levels)
  IN  /\ r \in Seq(Seq(S)) /\ Len(r) = L /\ Shape(r)
      /\ L \in Nat \ {0} /\ D \in 1 .. KskDigits
      /\ Len(r[L]) = D /\ r[L][D] = x
      /\ \A l \in 1 .. L : \A d \in 1 .. Len(r[l]) :
           \/ l = L /\ d = D
           \/ l <= Len(levels) /\ d <= Len(levels[l]) /\ r[l][d] = levels[l][d]
      /\ Done(levels) = Index(L, D) /\ Done(r) = Done(levels) + 1

\* A digit appended is the next one of its level, and all others stay.
LEMMA AppendDigitFacts ==
  ASSUME NEW S, NEW x \in S, NEW levels \in Seq(Seq(S)), Shape(levels)
  PROVE  Appended(S, levels, x, AppendDigit(levels, x))
<1> DEFINE r == AppendDigit(levels, x)
           L == Level(levels)
           D == Digit(levels)
           last == levels[Len(levels)]
<1> USE KeysAssumption
<1>0. Len(levels) \in Nat /\ \A l \in 1 .. Len(levels) : levels[l] \in Seq(S) /\ Len(levels[l]) \in Nat
  OBVIOUS
<1>1. CASE levels = <<>> \/ Len(last) = KskDigits
  <2>1. r = Append(levels, <<x>>) /\ L = Len(levels) + 1 /\ D = 1
    BY <1>1 DEF AppendDigit, Level, Digit
  <2>2. <<x>> \in Seq(S) /\ Len(<<x>>) = 1 /\ <<x>>[1] = x
    OBVIOUS
  <2>3. /\ r \in Seq(Seq(S)) /\ Len(r) = L /\ r[L] = <<x>>
        /\ \A l \in 1 .. Len(levels) : r[l] = levels[l]
    BY <2>1, <2>2, AppendProperties
  <2>4. Shape(r)
    BY <1>0, <1>1, <2>1, <2>2, <2>3 DEF Shape
  <2>5. Done(levels) = Index(L, D)
    BY <1>0, <1>1, <2>1 DEF Done, Index
  <2>6. r # <<>> /\ Done(r) = Index(L, D) + 1
    BY <1>0, <2>1, <2>2, <2>3 DEF Done
  <2>7. \A l \in 1 .. L : \A d \in 1 .. Len(r[l]) :
          \/ l = L /\ d = D
          \/ l <= Len(levels) /\ d <= Len(levels[l]) /\ r[l][d] = levels[l][d]
    BY <1>0, <2>1, <2>2, <2>3
  <2>8. QED
    BY <1>0, <2>1, <2>2, <2>3, <2>4, <2>5, <2>6, <2>7 DEF Appended
<1>2. CASE levels # <<>> /\ Len(last) # KskDigits
  <2>1. /\ r = [levels EXCEPT ![Len(levels)] = Append(last, x)]
        /\ L = Len(levels) /\ D = Len(last) + 1
    BY <1>2 DEF AppendDigit, Level, Digit
  <2>2. L \in 1 .. Len(levels) /\ Len(last) \in 1 .. KskDigits /\ last \in Seq(S)
    BY <1>0, <1>2, <2>1 DEF Shape
  <2>3. /\ Append(last, x) \in Seq(S) /\ Len(Append(last, x)) = D /\ Append(last, x)[D] = x
        /\ \A d \in 1 .. Len(last) : Append(last, x)[d] = last[d]
    BY <2>1, <2>2, AppendProperties
  <2>4. /\ r \in Seq(Seq(S)) /\ Len(r) = L /\ r[L] = Append(last, x)
        /\ \A l \in 1 .. Len(levels) : l # L => r[l] = levels[l]
    BY <2>1, <2>2, <2>3, ExceptSeq
  <2>5. Shape(r) /\ D \in 1 .. KskDigits
    BY <1>0, <1>2, <2>1, <2>2, <2>3, <2>4 DEF Shape
  <2>6. Done(levels) = Index(L, D)
    <3>1. Done(levels) = (L - 1) * KskDigits + (Len(last) - 1) + 1
      BY <1>2, <2>1 DEF Done, Index
    <3>2. Index(L, D) = (L - 1) * KskDigits + (Len(last) + 1 - 1)
      BY <2>1 DEF Index
    <3>3. QED
      BY <1>0, <2>2, <3>1, <3>2
  <2>7. r # <<>> /\ Done(r) = Index(L, D) + 1
    BY <1>0, <2>1, <2>2, <2>3, <2>4 DEF Done
  <2>8. \A l \in 1 .. L : \A d \in 1 .. Len(r[l]) :
          \/ l = L /\ d = D
          \/ l <= Len(levels) /\ d <= Len(levels[l]) /\ r[l][d] = levels[l][d]
    BY <1>0, <2>1, <2>2, <2>3, <2>4
  <2>9. QED
    BY <1>0, <2>1, <2>2, <2>3, <2>4, <2>5, <2>6, <2>7, <2>8 DEF Appended
<1>3. QED
  BY <1>1, <1>2

\* Levels that are not full have room for the next digit; full ones hold as many
\* digits as there are.
LEMMA FullFacts ==
  ASSUME NEW S, NEW levels \in Seq(Seq(S)), Shape(levels), Len(levels) <= Levels
  PROVE  /\ ~ Full(levels) => Level(levels) <= Levels
         /\ Full(levels) => Done(levels) = KskTotal
         /\ Len(levels) > 0 => (KskComplete(levels) <=> Full(levels))
         /\ ~ Full(<<>>) /\ Done(levels) \in Nat
<1> USE KeysAssumption
<1>0. Len(levels) \in Nat /\ \A l \in 1 .. Len(levels) : Len(levels[l]) \in 1 .. KskDigits
  BY DEF Shape
<1>1. ~ Full(levels) => Level(levels) <= Levels
  BY <1>0 DEF Full, Level, Shape
<1>2. ASSUME Full(levels) PROVE Done(levels) = KskTotal
  <2>1. levels # <<>> /\ Len(levels) = Levels /\ Len(levels[Levels]) = KskDigits
    BY <1>0, <1>2 DEF Full
  <2>2. Done(levels) = (Levels - 1) * KskDigits + (KskDigits - 1) + 1
    BY <2>1 DEF Done, Index
  <2>3. (Levels - 1) * KskDigits = Levels * KskDigits - KskDigits
    OBVIOUS
  <2>4. QED
    BY <2>2, <2>3 DEF KskTotal
<1>3. Len(levels) > 0 => (KskComplete(levels) <=> Full(levels))
  BY <1>0 DEF KskComplete, Full, Shape
<1>4. ~ Full(<<>>)
  BY DEF Full
<1>5. Done(levels) \in Nat
  <2>1. levels # <<>> => Len(levels) \in Nat \ {0} /\ Len(levels[Len(levels)]) \in 1 .. KskDigits
    BY <1>0
  <2>2. QED
    BY <2>1, IndexFacts DEF Done
<1>6. QED
  BY <1>1, <1>2, <1>3, <1>4, <1>5

\* A row of masks, and what is made of it.
LEMMA RowFacts ==
  ASSUME NEW seed \in Distributions, NEW done \in Nat
  PROVE  /\ Masks(seed, done) \in MaskRows
         /\ \A j \in 1 .. N : Masks(seed, done)[j] = <<seed, done + j>>
         /\ \A l \in Nat : [of |-> <<"ksk", l>>, under |-> Masks(seed, done)] \in ClientRows
         /\ [of |-> <<"rgsw", 1>>, under |-> Masks(seed, done)] \in ClientRows
BY KeysAssumption DEF Masks, MaskRows, ClientRows

\* No keys at all.
LEMMA NoRowsFacts ==
  /\ \A S : NoRows \in Keys(S)
  /\ Partial(NoRows) /\ Generated(NoRows) = 0 /\ ~ Full(NoRows.ksk)
  /\ \A seed : MadeUnder(NoRows, seed)
  /\ NoRows.ksk = <<>> /\ NoRows.rgsw = <<>>
BY KeysAssumption DEF NoRows, Keys, Partial, Generated, Done, Shape, Full, MadeUnder

\* The number of rows of keys, and what one more row makes of it.
LEMMA GeneratedFacts ==
  /\ \A n \in Nat : N * n \in Nat /\ N * (n + 1) = N * n + N /\ N * 0 = 0
  /\ N * (KskTotal + PrimeDigits) > 0 /\ KskTotal \in Nat
<1> USE KeysAssumption, IndexFacts
<1>1. \A n \in Nat : N * n \in Nat /\ N * (n + 1) = N * n + N /\ N * 0 = 0
  OBVIOUS
<1>2. KskTotal + PrimeDigits - 1 \in Nat
  OBVIOUS
<1>3. N * (KskTotal + PrimeDigits) = N * (KskTotal + PrimeDigits - 1) + N
  BY <1>1, <1>2
<1>4. QED
  BY <1>1, <1>2, <1>3

\* The types that TypeOK states follow from those of the keys.
LEMMA PartialIsTyped ==
  ASSUME NEW S, NEW keys \in Keys(S), Partial(keys)
  PROVE  /\ Len(keys.ksk) <= Levels /\ Len(keys.rgsw) <= PrimeDigits
         /\ \A l \in DOMAIN keys.ksk : Len(keys.ksk[l]) \in 1 .. KskDigits
         /\ keys.ksk \in Seq(Seq(S)) /\ keys.rgsw \in Seq(S) /\ Shape(keys.ksk)
BY DEF Keys, Partial, Shape

LEMMA InitInv == Init => IInv
<1> SUFFICES ASSUME Init PROVE IInv
  OBVIOUS
<1> USE KeysAssumption, NoRowsFacts, GeneratedFacts DEF Init
<1>1. TypeOK
  BY DEF TypeOK, NoWire, Distributions, NoRows
<1>2. Types
  BY <1>1 DEF Types, NoWire, Distributions
<1>3. BuildInv /\ WireInv /\ UsedInv
  BY DEF BuildInv, WireInv, UsedInv
<1>4. ServerInv
  BY DEF ServerInv
<1>5. QED
  BY <1>2, <1>3, <1>4 DEF IInv

----------------------------------------------------------------------------
(* The client's steps. *)

\* A seed that has been used for nothing is not the one of the keys sent.
LEMMA BeginInv == ASSUME IInv, BeginBuild PROVE IInv'
<1> PICK seed \in Seeds : Unused(seed) /\ BeginBuildWith(seed)
  BY DEF BeginBuild
<1> USE NoRowsFacts DEF IInv, Unused, BeginBuildWith
<1>1. seed \in Distributions /\ seed # Original
  BY KeysAssumption DEF Distributions
<1>2. seed # wire.eval_key_seed
  <2>1. CASE wire = NoWire
    BY <1>1, <2>1 DEF NoWire
  <2>2. CASE wire # NoWire
    <3>1. drawn[wire.eval_key_seed] > 0
      BY <2>2, GeneratedFacts DEF WireInv
    <3>2. QED
      BY <3>1
  <2>3. QED
    BY <2>1, <2>2
<1>3. Types'
  <2>1. TypeOK'
    BY <1>1, PartialIsTyped DEF Types, TypeOK, server_vars
  <2>2. QED
    BY <2>1 DEF Types, server_vars
<1>4. BuildInv'
  BY <1>1, <1>2, GeneratedFacts DEF BuildInv
<1>5. WireInv' /\ UsedInv' /\ ServerInv'
  BY DEF WireInv, UsedInv, ServerInv, Received, Ciphertext, server_vars
<1>6. QED
  BY <1>3, <1>4, <1>5

\* A row generated is the next one of its seed; done counts those before it.
LEMMA GenerateInv ==
  ASSUME IInv, building # "no", NEW row \in ClientRows, NEW done \in Nat,
         drawn[dist] = N * done, DrawMasks,
         pub' \in Keys(ClientRows), Partial(pub'), Generated(pub') = done + 1, MadeUnder(pub', dist),
         building' \in {"ksk", "rgsw"}, building' = "ksk" => ~ Full(pub'.ksk),
         building' = "rgsw" => Full(pub'.ksk),
         UNCHANGED <<dist, original, wire, server_vars>>
  PROVE  IInv'
<1> USE DEF IInv, server_vars
<1>0. N \in Nat
  BY KeysAssumption
<1>1. dist \in Seeds /\ dist \in Distributions /\ dist # wire.eval_key_seed
  BY DEF BuildInv, Distributions
<1>2. /\ drawn \in [Distributions -> Nat] /\ drawn' = [drawn EXCEPT ![dist] = @ + N]
      /\ drawn'[dist] = N * (done + 1)
  BY <1>1, GeneratedFacts DEF Types, TypeOK, DrawMasks
<1>3. \A d \in Distributions : drawn[d] \in Nat /\ drawn'[d] \in Nat /\ drawn[d] <= drawn'[d]
  <2>1. \A d \in Distributions : drawn[d] \in Nat /\ drawn'[d] = IF d = dist THEN drawn[d] + N ELSE drawn[d]
    BY <1>2
  <2>2. QED
    BY <1>0, <2>1
<1>4. ASSUME NEW mask \in used'
      PROVE  mask \in Distributions \X Nat /\ mask[2] <= drawn'[mask[1]]
  <2>1. CASE mask \in used
    <3>1. mask[1] \in Distributions /\ mask[2] \in Nat /\ mask[2] <= drawn[mask[1]]
      BY <2>1 DEF Types, UsedInv
    <3>2. QED
      BY <1>3, <2>1, <3>1 DEF Types
  <2>2. CASE mask \notin used
    <3>1. PICK j \in 1 .. N : mask = NextMasks[j]
      BY <2>2 DEF DrawMasks
    <3>2. mask = <<dist, drawn[dist] + j>>
      BY <3>1 DEF NextMasks, Masks
    <3>3. drawn'[dist] = drawn[dist] + N /\ drawn[dist] \in Nat
      BY <1>1, <1>2
    <3>4. QED
      BY <1>0, <1>1, <3>2, <3>3
  <2>3. QED
    BY <2>1, <2>2
<1>5. Types'
  <2>1. TypeOK'
    BY <1>2, <1>3, PartialIsTyped DEF Types, TypeOK
  <2>2. QED
    BY <1>4, <2>1 DEF Types
<1>6. BuildInv'
  BY <1>1, <1>2 DEF BuildInv
<1>7. WireInv'
  BY <1>1, <1>2 DEF WireInv, Types
<1>8. UsedInv'
  BY <1>4 DEF UsedInv
<1>9. ServerInv'
  BY DEF ServerInv, Received, Ciphertext
<1>10. QED
  BY <1>5, <1>6, <1>7, <1>8, <1>9

LEMMA GenerateKskInv == ASSUME IInv, GenerateKsk PROVE IInv'
<1> USE KeysAssumption DEF IInv
<1> DEFINE L == Level(pub.ksk)
           D == Digit(pub.ksk)
           done == Done(pub.ksk)
           row == [of |-> <<"ksk", L>>, under |-> NextMasks]
           ksk == AppendDigit(pub.ksk, row)
<1>1. building = "ksk" /\ dist \in Distributions
  BY DEF GenerateKsk, BuildInv, Distributions
<1>2. /\ pub \in Keys(ClientRows) /\ pub.ksk \in Seq(Seq(ClientRows)) /\ Shape(pub.ksk)
      /\ Len(pub.ksk) <= Levels /\ ~ Full(pub.ksk) /\ pub.rgsw = <<>>
  BY <1>1, PartialIsTyped DEF Types, BuildInv, Partial, Keys
<1>3. L <= Levels /\ done \in Nat
  BY <1>2, FullFacts
<1>4. drawn[dist] = N * done
  BY <1>1, <1>2, <1>3 DEF BuildInv, Generated
<1>5. L \in Nat \ {0} /\ D \in 1 .. KskDigits /\ done = Index(L, D)
  <2>1. \E x : x \in ClientRows
    BY <1>1, <1>3, RowFacts, GeneratedFacts
  <2>2. QED
    BY <1>2, <2>1, AppendDigitFacts DEF Appended
<1>6. row \in ClientRows /\ row = KskRow(dist, L, D)
  BY <1>1, <1>3, <1>4, <1>5, RowFacts, GeneratedFacts DEF KskRow, NextMasks
<1> HIDE DEF L, D, done, row
<1>7. /\ ksk \in Seq(Seq(ClientRows)) /\ Len(ksk) = L /\ Shape(ksk)
      /\ ksk[L][D] = row /\ Done(ksk) = done + 1
      /\ \A l \in 1 .. L : \A d \in 1 .. Len(ksk[l]) :
           \/ l = L /\ d = D
           \/ l <= Len(pub.ksk) /\ d <= Len(pub.ksk[l]) /\ ksk[l][d] = pub.ksk[l][d]
  <2>1. Appended(ClientRows, pub.ksk, row, ksk)
    BY <1>2, <1>6, AppendDigitFacts
  <2>2. QED
    BY <2>1 DEF Appended, L, D, done
<1> HIDE DEF ksk
<1>8. /\ pub' = [pub EXCEPT !.ksk = ksk]
      /\ building' = IF KskComplete(ksk) THEN "rgsw" ELSE "ksk"
      /\ DrawMasks
      /\ UNCHANGED <<dist, original, wire, server_vars>>
  BY DEF GenerateKsk, L, row, ksk
<1>9. pub'.ksk = ksk /\ pub'.rgsw = <<>> /\ pub' \in Keys(ClientRows)
  BY <1>2, <1>7, <1>8 DEF Keys
<1>10. KskComplete(ksk) <=> Full(ksk)
  BY <1>3, <1>5, <1>7, FullFacts
<1>11. Partial(pub') /\ Generated(pub') = done + 1
  BY <1>3, <1>7, <1>9 DEF Partial, Generated, done
<1>12. MadeUnder(pub', dist)
  <2>1. \A l \in 1 .. L : \A d \in 1 .. Len(ksk[l]) : ksk[l][d] = KskRow(dist, l, d)
    <3> SUFFICES ASSUME NEW l \in 1 .. L, NEW d \in 1 .. Len(ksk[l]) PROVE ksk[l][d] = KskRow(dist, l, d)
      OBVIOUS
    <3>1. CASE l = L /\ d = D
      BY <1>6, <1>7, <3>1
    <3>2. CASE ~ (l = L /\ d = D)
      <4>1. l <= Len(pub.ksk) /\ d <= Len(pub.ksk[l]) /\ ksk[l][d] = pub.ksk[l][d]
        BY <1>7, <3>2
      <4>2. l \in 1 .. Len(pub.ksk) /\ d \in 1 .. Len(pub.ksk[l])
        BY <1>2, <1>7, <4>1 DEF Shape
      <4>3. QED
        BY <1>1, <4>1, <4>2 DEF BuildInv, MadeUnder
    <3>3. QED
      BY <3>1, <3>2
  <2>2. QED
    BY <1>7, <1>9, <2>1 DEF MadeUnder
<1>13. QED
  BY <1>1, <1>3, <1>4, <1>6, <1>8, <1>9, <1>10, <1>11, <1>12, GenerateInv

LEMMA GenerateRgswInv == ASSUME IInv, GenerateRgsw PROVE IInv'
<1> USE DEF IInv
<1> DEFINE D == Len(pub.rgsw) + 1
           done == Generated(pub)
           row == [of |-> <<"rgsw", 1>>, under |-> NextMasks]
<1>1. /\ building = "rgsw" /\ dist \in Distributions /\ Len(pub.rgsw) < PrimeDigits
      /\ pub' = [pub EXCEPT !.rgsw = Append(@, row)] /\ building' = building
      /\ DrawMasks
      /\ UNCHANGED <<dist, original, wire, server_vars>>
  BY DEF GenerateRgsw, BuildInv, Distributions
<1>2. /\ pub \in Keys(ClientRows) /\ pub.rgsw \in Seq(ClientRows) /\ pub.ksk \in Seq(Seq(ClientRows))
      /\ Full(pub.ksk) /\ Partial(pub) /\ MadeUnder(pub, dist) /\ drawn[dist] = N * done
  BY <1>1, PartialIsTyped DEF Types, BuildInv
<1>3. Done(pub.ksk) = KskTotal /\ Len(pub.rgsw) \in Nat /\ done = KskTotal + D - 1 /\ done \in Nat
  <2>1. Done(pub.ksk) = KskTotal
    BY <1>2, FullFacts DEF Partial
  <2>2. Len(pub.rgsw) \in Nat
    BY <1>2
  <2>3. QED
    BY <2>1, <2>2, SizeFacts DEF Generated
<1>4. row \in ClientRows /\ row = RgswRow(dist, D)
  BY <1>1, <1>2, <1>3, RowFacts, GeneratedFacts DEF RgswRow, NextMasks
<1> HIDE DEF row
<1>5. /\ pub' \in Keys(ClientRows) /\ pub'.ksk = pub.ksk /\ Len(pub'.rgsw) = D
      /\ pub'.rgsw[D] = row /\ \A d \in 1 .. Len(pub.rgsw) : pub'.rgsw[d] = pub.rgsw[d]
  <2>1. /\ Append(pub.rgsw, row) \in Seq(ClientRows) /\ Len(Append(pub.rgsw, row)) = D
        /\ Append(pub.rgsw, row)[D] = row
        /\ \A d \in 1 .. Len(pub.rgsw) : Append(pub.rgsw, row)[d] = pub.rgsw[d]
    BY <1>2, <1>4, AppendProperties
  <2>2. pub'.ksk = pub.ksk /\ pub'.rgsw = Append(pub.rgsw, row)
    BY <1>1, <1>2 DEF Keys
  <2>3. pub' \in Keys(ClientRows)
    BY <1>1, <1>2, <2>1 DEF Keys
  <2>4. QED
    BY <2>1, <2>2, <2>3
<1> HIDE DEF done
<1>6. Partial(pub') /\ Generated(pub') = done + 1
  <2>1. Partial(pub')
    BY <1>1, <1>2, <1>3, <1>5, SizeFacts DEF Partial
  <2>2. Generated(pub') = Done(pub.ksk) + D
    BY <1>5 DEF Generated
  <2>3. QED
    BY <1>3, <2>1, <2>2, SizeFacts
<1>7. MadeUnder(pub', dist)
  <2>1. \A d \in 1 .. D : pub'.rgsw[d] = RgswRow(dist, d)
    <3> SUFFICES ASSUME NEW d \in 1 .. D PROVE pub'.rgsw[d] = RgswRow(dist, d)
      OBVIOUS
    <3>1. CASE d = D
      BY <1>4, <1>5, <3>1
    <3>2. CASE d # D
      <4>1. d \in 1 .. Len(pub.rgsw)
        BY <1>3, <3>2
      <4>2. pub.rgsw[d] = RgswRow(dist, d)
        BY <1>2, <4>1 DEF MadeUnder
      <4>3. QED
        BY <1>5, <4>1, <4>2
    <3>3. QED
      BY <3>1, <3>2
  <2>2. QED
    BY <1>2, <1>5, <2>1 DEF MadeUnder
<1>8. QED
  BY <1>1, <1>2, <1>3, <1>4, <1>5, <1>6, <1>7, GenerateInv

\* The row in place k of complete keys.
At(keys, k, row) ==
  \/ \E l \in 1 .. Levels, d \in 1 .. KskDigits : k = Index(l, d) /\ row = keys.ksk[l][d]
  \/ \E d \in 1 .. PrimeDigits : k = KskTotal + d - 1 /\ row = keys.rgsw[d]

Complete(keys, seed) ==
  Full(keys.ksk) /\ Len(keys.rgsw) = PrimeDigits /\ MadeUnder(keys, seed)

HasPlace(keys, seed, row) ==
  \E k \in 0 .. KskTotal + PrimeDigits - 1 : At(keys, k, row) /\ row.under = Masks(seed, N * k)

\* Every row of complete keys has a place in the seed's stream.
LEMMA RowHasPlace ==
  ASSUME NEW keys \in Keys(ClientRows), NEW seed, Complete(keys, seed), NEW row \in Rows(keys)
  PROVE  HasPlace(keys, seed, row)
<1> USE DEF Complete
<1>1. keys.ksk \in Seq(Seq(ClientRows)) /\ keys.rgsw \in Seq(ClientRows)
  BY DEF Keys
<1>2. CASE \E l \in 1 .. Levels, d \in 1 .. KskDigits : row = keys.ksk[l][d]
  <2>1. PICK l \in 1 .. Levels, d \in 1 .. KskDigits : row = keys.ksk[l][d]
    BY <1>2
  <2>2. Index(l, d) \in 0 .. KskTotal + PrimeDigits - 1
    <3>1. Index(l, d) \in Nat /\ Index(l, d) < KskTotal
      BY SizeFacts, IndexFacts
    <3>2. QED
      BY <3>1, SizeFacts
  <2>3. l \in 1 .. Len(keys.ksk) /\ d \in 1 .. Len(keys.ksk[l])
    BY DEF Full
  <2>4. row.under = Masks(seed, N * Index(l, d))
    <3>1. row = KskRow(seed, l, d)
      BY <2>1, <2>3 DEF MadeUnder
    <3>2. QED
      BY <3>1 DEF KskRow
  <2>5. At(keys, Index(l, d), row)
    BY <2>1 DEF At
  <2>6. QED
    BY <2>2, <2>4, <2>5 DEF HasPlace
<1>3. CASE \E d \in 1 .. PrimeDigits : row = keys.rgsw[d]
  <2>1. PICK d \in 1 .. PrimeDigits : row = keys.rgsw[d]
    BY <1>3
  <2>2. KskTotal + d - 1 \in 0 .. KskTotal + PrimeDigits - 1
    BY SizeFacts
  <2>3. row.under = Masks(seed, N * (KskTotal + d - 1))
    <3>1. row = RgswRow(seed, d)
      BY <2>1 DEF MadeUnder
    <3>2. QED
      BY <3>1 DEF RgswRow
  <2>4. At(keys, KskTotal + d - 1, row)
    BY <2>1 DEF At
  <2>5. QED
    BY <2>2, <2>3, <2>4 DEF HasPlace
<1>4. DOMAIN keys.ksk = 1 .. Levels /\ DOMAIN keys.rgsw = 1 .. PrimeDigits
  BY <1>1 DEF Full
<1>5. QED
  BY <1>2, <1>3, <1>4 DEF Rows

\* A place has one row.
LEMMA PlaceHasOneRow ==
  ASSUME NEW keys, NEW k \in Nat, NEW r1, NEW r2, At(keys, k, r1), At(keys, k, r2)
  PROVE  r1 = r2
<1>1. CASE k < KskTotal
  <2>1. PICK l1 \in 1 .. Levels, d1 \in 1 .. KskDigits : k = Index(l1, d1) /\ r1 = keys.ksk[l1][d1]
    BY <1>1, SizeFacts DEF At
  <2>2. PICK l2 \in 1 .. Levels, d2 \in 1 .. KskDigits : k = Index(l2, d2) /\ r2 = keys.ksk[l2][d2]
    BY <1>1, SizeFacts DEF At
  <2>3. l1 = l2 /\ d1 = d2
    <3>1. l1 \in Nat \ {0} /\ l2 \in Nat \ {0} /\ Index(l1, d1) = Index(l2, d2)
      BY <2>1, <2>2
    <3>2. QED
      BY <3>1, IndexInjective
  <2>4. QED
    BY <2>1, <2>2, <2>3
<1>2. CASE ~ (k < KskTotal)
  <2>1. ASSUME NEW r, At(keys, k, r) PROVE k - KskTotal + 1 \in 1 .. PrimeDigits /\ r = keys.rgsw[k - KskTotal + 1]
    <3>1. PICK d \in 1 .. PrimeDigits : k = KskTotal + d - 1 /\ r = keys.rgsw[d]
      BY <1>2, <2>1, IndexFacts DEF At
    <3>2. d = k - KskTotal + 1
      BY <3>1, SizeFacts
    <3>3. QED
      BY <3>1, <3>2
  <2>2. QED
    BY <2>1
<1>3. QED
  BY <1>1, <1>2

LEMMA FinishInv == ASSUME IInv, FinishBuild PROVE IInv'
<1> USE DEF IInv, FinishBuild
<1> DEFINE total == KskTotal + PrimeDigits
<1>1. /\ dist \in Seeds /\ dist \in Distributions /\ pub \in Keys(ClientRows) /\ Partial(pub)
      /\ Full(pub.ksk) /\ MadeUnder(pub, dist) /\ drawn[dist] = N * Generated(pub)
  BY DEF BuildInv, Types, Distributions
<1>2. Generated(pub) = total
  BY <1>1, FullFacts, PartialIsTyped DEF Generated
<1>3. wire'.eval_key_seed = dist /\ wire'.rows = pub /\ wire' # NoWire
  BY <1>1, KeysAssumption DEF NoWire
<1>4. Types'
  <2>1. TypeOK'
    BY <1>1, <1>3, NoRowsFacts, PartialIsTyped DEF Types, TypeOK
  <2>2. QED
    BY <1>1, <2>1, NoRowsFacts DEF Types
<1>5. BuildInv'
  BY DEF BuildInv
<1>6. WireInv'
  BY <1>1, <1>2, <1>3 DEF WireInv
<1>7. UsedInv'
  BY DEF UsedInv
<1>8. ServerInv'
  BY <1>3, NoRowsFacts, GeneratedFacts DEF ServerInv
<1>9. QED
  BY <1>4, <1>5, <1>6, <1>7, <1>8

LEMMA FailInv == ASSUME IInv, BuildFails PROVE IInv'
<1> USE DEF IInv, BuildFails, server_vars
<1>1. TypeOK'
  BY NoRowsFacts, PartialIsTyped DEF Types, TypeOK
<1>2. Types'
  BY <1>1, NoRowsFacts DEF Types
<1>3. BuildInv' /\ WireInv' /\ UsedInv'
  BY DEF BuildInv, WireInv, UsedInv
<1>4. ServerInv'
  BY DEF ServerInv, Received, Ciphertext
<1>5. QED
  BY <1>2, <1>3, <1>4

----------------------------------------------------------------------------
(* The server's steps. *)

\* What the server has rebuilt are the first of the keys received.
Matches(keys) ==
  /\ \A l \in 1 .. Len(keys.ksk) : \A d \in 1 .. Len(keys.ksk[l]) :
       keys.ksk[l][d] = Ciphertext(Received.ksk[l][d], N * Index(l, d))
  /\ \A d \in 1 .. Len(keys.rgsw) :
       keys.rgsw[d] = Ciphertext(Received.rgsw[d], N * (KskTotal + d - 1))

\* A step that rebuilds the next row; done counts those before it.
LEMMA RebuildInv ==
  ASSUME IInv, wire # NoWire, UNCHANGED client_vars, NEW done \in Nat, stream = N * done,
         rebuilt' \in Keys(Ciphertexts), Partial(rebuilt'), Generated(rebuilt') = done + 1,
         Matches(rebuilt'), stream' = stream + N
  PROVE  IInv'
<1> USE DEF IInv, client_vars
<1>1. stream' = N * (done + 1) /\ stream' \in Nat
  BY GeneratedFacts
<1>2. TypeOK'
  BY <1>1, PartialIsTyped DEF Types, TypeOK
<1>3. Types'
  BY <1>2 DEF Types
<1>4. BuildInv' /\ WireInv' /\ UsedInv'
  BY DEF BuildInv, WireInv, UsedInv
<1>5. ServerInv'
  BY <1>1 DEF ServerInv, Matches, Received, Ciphertext
<1>6. QED
  BY <1>3, <1>4, <1>5

\* Complete levels are those the server has rebuilt once it has all of them.
LEMMA KskRebuiltIsFull ==
  ASSUME IInv, wire # NoWire
  PROVE  KskRebuilt <=> Full(rebuilt.ksk)
<1>1. Full(Received.ksk) /\ Received.ksk \in Seq(Seq(ClientRows)) /\ rebuilt.ksk \in Seq(Seq(Ciphertexts))
  BY DEF IInv, Types, WireInv, Received, Keys
<1>2. DOMAIN rebuilt.ksk = 1 .. Len(rebuilt.ksk)
  BY <1>1
<1>3. QED
  BY <1>1, <1>2 DEF KskRebuilt, Full

LEMMA RebuildKskInv == ASSUME IInv, RebuildKsk PROVE IInv'
<1> USE KeysAssumption DEF IInv
<1> DEFINE L == Level(rebuilt.ksk)
           D == Digit(rebuilt.ksk)
           done == Done(rebuilt.ksk)
           b == Received.ksk[L][D]
           ct == Ciphertext(b, stream)
           ksk == AppendDigit(rebuilt.ksk, ct)
<1>1. wire # NoWire /\ ~ Full(rebuilt.ksk) /\ UNCHANGED client_vars
  BY KskRebuiltIsFull DEF RebuildKsk, RebuildKskAs
<1>2. /\ rebuilt \in Keys(Ciphertexts) /\ rebuilt.ksk \in Seq(Seq(Ciphertexts)) /\ Shape(rebuilt.ksk)
      /\ Len(rebuilt.ksk) <= Levels /\ rebuilt.rgsw = <<>>
  BY <1>1, PartialIsTyped DEF Types, Partial, Keys
<1>3. L <= Levels /\ done \in Nat
  BY <1>1, <1>2, FullFacts
<1>4. stream = N * done
  BY <1>2, <1>3 DEF ServerInv, Generated
<1>5. wire.eval_key_seed \in Distributions
  BY DEF Types
<1>6. L \in Nat \ {0} /\ D \in 1 .. KskDigits /\ done = Index(L, D)
  <2>1. \E x : x \in ClientRows
    BY <1>3, <1>5, RowFacts, GeneratedFacts
  <2>2. PICK x : x \in ClientRows
    BY <2>1
  <2>3. [a |-> x.under, b |-> x] \in Ciphertexts
    BY <2>2 DEF Ciphertexts, ClientRows
  <2>4. QED
    BY <1>2, <2>3, AppendDigitFacts DEF Appended
<1>7. NextDigit = D
  <2>1. \A n \in 1 .. KskDigits : (n % KskDigits) + 1 = IF n = KskDigits THEN 1 ELSE n + 1
    OBVIOUS
  <2>2. rebuilt.ksk # <<>> => Len(rebuilt.ksk[Len(rebuilt.ksk)]) \in 1 .. KskDigits
    BY <1>2 DEF Shape
  <2>3. QED
    BY <2>1, <2>2 DEF NextDigit, Digit
<1>8. b \in ClientRows
  <2>1. Received.ksk \in Seq(Seq(ClientRows)) /\ Full(Received.ksk)
    BY <1>1 DEF Types, WireInv, Keys, Received
  <2>2. L \in 1 .. Len(Received.ksk) /\ D \in 1 .. Len(Received.ksk[L])
    BY <1>3, <1>6, <2>1 DEF Full
  <2>3. QED
    BY <2>1, <2>2
<1>9. ct \in Ciphertexts
  BY <1>3, <1>4, <1>5, <1>8, RowFacts, GeneratedFacts DEF Ciphertext, Ciphertexts
<1>10. /\ rebuilt' = [rebuilt EXCEPT !.ksk = ksk] /\ stream' = stream + N
  BY <1>7 DEF RebuildKsk, RebuildKskAs
<1>11. ct = Ciphertext(Received.ksk[L][D], N * Index(L, D))
  BY <1>4, <1>6
<1> HIDE DEF L, D, done, ct
<1>12. /\ ksk \in Seq(Seq(Ciphertexts)) /\ Len(ksk) = L /\ Shape(ksk)
       /\ ksk[L][D] = ct /\ Done(ksk) = done + 1
       /\ \A l \in 1 .. L : \A d \in 1 .. Len(ksk[l]) :
            \/ l = L /\ d = D
            \/ l <= Len(rebuilt.ksk) /\ d <= Len(rebuilt.ksk[l]) /\ ksk[l][d] = rebuilt.ksk[l][d]
  <2>1. Appended(Ciphertexts, rebuilt.ksk, ct, ksk)
    BY <1>2, <1>9, AppendDigitFacts
  <2>2. QED
    BY <2>1 DEF Appended, L, D, done
<1> HIDE DEF ksk
<1>13. rebuilt'.ksk = ksk /\ rebuilt'.rgsw = <<>> /\ rebuilt' \in Keys(Ciphertexts)
  BY <1>2, <1>10, <1>12 DEF Keys
<1>14. Partial(rebuilt') /\ Generated(rebuilt') = done + 1
  BY <1>3, <1>12, <1>13 DEF Partial, Generated, done
<1>15. Matches(rebuilt')
  <2>1. \A l \in 1 .. L : \A d \in 1 .. Len(ksk[l]) :
          ksk[l][d] = Ciphertext(Received.ksk[l][d], N * Index(l, d))
    <3> SUFFICES ASSUME NEW l \in 1 .. L, NEW d \in 1 .. Len(ksk[l])
                 PROVE  ksk[l][d] = Ciphertext(Received.ksk[l][d], N * Index(l, d))
      OBVIOUS
    <3>1. CASE l = L /\ d = D
      BY <1>11, <1>12, <3>1
    <3>2. CASE ~ (l = L /\ d = D)
      <4>1. l <= Len(rebuilt.ksk) /\ d <= Len(rebuilt.ksk[l]) /\ ksk[l][d] = rebuilt.ksk[l][d]
        BY <1>12, <3>2
      <4>2. l \in 1 .. Len(rebuilt.ksk) /\ d \in 1 .. Len(rebuilt.ksk[l])
        BY <1>2, <1>12, <4>1 DEF Shape
      <4>3. QED
        BY <4>1, <4>2 DEF ServerInv
    <3>3. QED
      BY <3>1, <3>2
  <2>2. QED
    BY <1>12, <1>13, <2>1 DEF Matches
<1>16. QED
  BY <1>1, <1>3, <1>4, <1>10, <1>13, <1>14, <1>15, RebuildInv

LEMMA RebuildRgswInv == ASSUME IInv, RebuildRgsw PROVE IInv'
<1> USE DEF IInv
<1> DEFINE D == Len(rebuilt.rgsw) + 1
           done == Generated(rebuilt)
           ct == Ciphertext(Received.rgsw[D], stream)
           rgsw == Append(rebuilt.rgsw, ct)
<1>1. /\ wire # NoWire /\ Full(rebuilt.ksk) /\ Len(rebuilt.rgsw) < PrimeDigits
      /\ rebuilt' = [rebuilt EXCEPT !.rgsw = rgsw] /\ stream' = stream + N /\ UNCHANGED client_vars
  BY KskRebuiltIsFull DEF RebuildRgsw, RebuildRgswFrom, WireInv, Received
<1>2. /\ rebuilt \in Keys(Ciphertexts) /\ rebuilt.rgsw \in Seq(Ciphertexts)
      /\ rebuilt.ksk \in Seq(Seq(Ciphertexts)) /\ Partial(rebuilt) /\ stream = N * done
  BY PartialIsTyped DEF Types, ServerInv
<1>3. Done(rebuilt.ksk) = KskTotal /\ Len(rebuilt.rgsw) \in Nat /\ done = KskTotal + D - 1 /\ done \in Nat
  <2>1. Done(rebuilt.ksk) = KskTotal
    BY <1>1, <1>2, FullFacts DEF Partial
  <2>2. Len(rebuilt.rgsw) \in Nat
    BY <1>2
  <2>3. QED
    BY <2>1, <2>2, SizeFacts DEF Generated
<1>4. Received.rgsw[D] \in ClientRows
  <2>1. Received.rgsw \in Seq(ClientRows) /\ Len(Received.rgsw) = PrimeDigits
    BY <1>1 DEF Types, WireInv, Keys, Received
  <2>2. D \in 1 .. PrimeDigits
    BY <1>1, <1>3, SizeFacts
  <2>3. QED
    BY <2>1, <2>2
<1>5. ct \in Ciphertexts /\ ct = Ciphertext(Received.rgsw[D], N * (KskTotal + D - 1))
  <2>1. wire.eval_key_seed \in Distributions /\ stream \in Nat
    BY DEF Types, TypeOK
  <2>2. QED
    BY <1>2, <1>3, <1>4, <2>1, RowFacts DEF Ciphertext, Ciphertexts
<1> HIDE DEF ct
<1>6. /\ rebuilt' \in Keys(Ciphertexts) /\ rebuilt'.ksk = rebuilt.ksk /\ Len(rebuilt'.rgsw) = D
      /\ rebuilt'.rgsw[D] = ct /\ \A d \in 1 .. Len(rebuilt.rgsw) : rebuilt'.rgsw[d] = rebuilt.rgsw[d]
  <2>1. /\ rgsw \in Seq(Ciphertexts) /\ Len(rgsw) = D /\ rgsw[D] = ct
        /\ \A d \in 1 .. Len(rebuilt.rgsw) : rgsw[d] = rebuilt.rgsw[d]
    BY <1>2, <1>5, AppendProperties
  <2> HIDE DEF rgsw
  <2>2. rebuilt'.ksk = rebuilt.ksk /\ rebuilt'.rgsw = rgsw
    BY <1>1, <1>2 DEF Keys
  <2>3. rebuilt' \in Keys(Ciphertexts)
    BY <1>1, <1>2, <2>1 DEF Keys
  <2>4. QED
    BY <2>1, <2>2, <2>3
<1> HIDE DEF done
<1>7. Partial(rebuilt') /\ Generated(rebuilt') = done + 1
  <2>1. Partial(rebuilt')
    BY <1>1, <1>2, <1>3, <1>6, SizeFacts DEF Partial
  <2>2. Generated(rebuilt') = Done(rebuilt.ksk) + D
    BY <1>6 DEF Generated
  <2>3. QED
    BY <1>3, <2>1, <2>2, SizeFacts
<1>8. Matches(rebuilt')
  <2>1. \A d \in 1 .. D : rebuilt'.rgsw[d] = Ciphertext(Received.rgsw[d], N * (KskTotal + d - 1))
    <3> SUFFICES ASSUME NEW d \in 1 .. D
                 PROVE  rebuilt'.rgsw[d] = Ciphertext(Received.rgsw[d], N * (KskTotal + d - 1))
      OBVIOUS
    <3>1. CASE d = D
      BY <1>5, <1>6, <3>1
    <3>2. CASE d # D
      <4>1. d \in 1 .. Len(rebuilt.rgsw)
        BY <1>3, <3>2
      <4>2. rebuilt.rgsw[d] = Ciphertext(Received.rgsw[d], N * (KskTotal + d - 1))
        BY <4>1 DEF ServerInv
      <4>3. QED
        BY <1>6, <4>1, <4>2
    <3>3. QED
      BY <3>1, <3>2
  <2>2. QED
    BY <1>6, <2>1 DEF Matches, ServerInv
<1>9. QED
  BY <1>1, <1>2, <1>3, <1>6, <1>7, <1>8, RebuildInv

LEMMA StutterInv == ASSUME IInv, UNCHANGED vars PROVE IInv'
<1> USE DEF IInv, vars, client_vars, server_vars
<1>1. TypeOK'
  BY DEF Types, TypeOK
<1>2. Types'
  BY <1>1 DEF Types
<1>3. BuildInv' /\ WireInv' /\ UsedInv'
  BY DEF BuildInv, WireInv, UsedInv
<1>4. ServerInv'
  BY DEF ServerInv, Received, Ciphertext
<1>5. QED
  BY <1>2, <1>3, <1>4

LEMMA NextInv == IInv /\ [Next]_vars => IInv'
BY BeginInv, GenerateKskInv, GenerateRgswInv, FinishInv, FailInv, RebuildKskInv,
   RebuildRgswInv, StutterInv DEF Next

LEMMA InvariantHolds == Spec => []IInv
BY InitInv, NextInv, PTL DEF Spec

----------------------------------------------------------------------------
(* The properties. *)

\* Every ciphertext the server rebuilds pairs a b polynomial with the masks it
\* was made under, in the client's order, for any number of levels and digits and
\* whatever builds failed before; the server's stream ends where the client's did.
THEOREM MasksMatch == Spec => []CiphertextsMatch
<1>1. IInv => CiphertextsMatch
  <2> SUFFICES ASSUME IInv PROVE CiphertextsMatch
    OBVIOUS
  <2> USE DEF IInv
  <2>0. TypeOK /\ rebuilt \in Keys(Ciphertexts) /\ Partial(rebuilt)
    BY DEF Types
  <2>1. rebuilt.ksk \in Seq(Seq(Ciphertexts)) /\ rebuilt.rgsw \in Seq(Ciphertexts)
    BY <2>0 DEF Keys
  <2>2. ASSUME NEW l \in DOMAIN rebuilt.ksk, NEW d \in DOMAIN rebuilt.ksk[l]
        PROVE  LET ct == rebuilt.ksk[l][d] IN ct.b = Received.ksk[l][d] /\ ct.a = ct.b.under
    <3>1. wire # NoWire
      BY <2>1 DEF ServerInv, NoRows
    <3>2. l \in 1 .. Levels /\ d \in 1 .. KskDigits /\ l \in 1 .. Len(rebuilt.ksk)
          /\ d \in 1 .. Len(rebuilt.ksk[l])
      <4>1. l \in 1 .. Len(rebuilt.ksk) /\ Len(rebuilt.ksk) <= Levels /\ rebuilt.ksk[l] \in Seq(Ciphertexts)
        BY <2>0, <2>1 DEF Partial
      <4>2. d \in 1 .. Len(rebuilt.ksk[l]) /\ Len(rebuilt.ksk[l]) \in 1 .. KskDigits
        BY <2>0, <2>2, <4>1 DEF Partial, Shape
      <4>3. QED
        BY <4>1, <4>2, KeysAssumption
    <3>3. l \in 1 .. Len(Received.ksk) /\ d \in 1 .. Len(Received.ksk[l])
      BY <3>1, <3>2 DEF WireInv, Full, Received
    <3>4. Received.ksk[l][d] = KskRow(wire.eval_key_seed, l, d)
      BY <3>1, <3>3 DEF WireInv, MadeUnder, Received
    <3>5. rebuilt.ksk[l][d] = Ciphertext(Received.ksk[l][d], N * Index(l, d))
      BY <3>2 DEF ServerInv
    <3>6. QED
      BY <3>4, <3>5 DEF Ciphertext, KskRow
  <2>3. ASSUME NEW d \in DOMAIN rebuilt.rgsw
        PROVE  LET ct == rebuilt.rgsw[d] IN ct.b = Received.rgsw[d] /\ ct.a = ct.b.under
    <3>1. wire # NoWire
      BY <2>1 DEF ServerInv, NoRows
    <3>2. d \in 1 .. Len(rebuilt.rgsw) /\ d \in 1 .. PrimeDigits
      BY <2>0, <2>1, KeysAssumption DEF Partial
    <3>3. Received.rgsw[d] = RgswRow(wire.eval_key_seed, d)
      BY <3>1, <3>2 DEF WireInv, MadeUnder, Received
    <3>4. rebuilt.rgsw[d] = Ciphertext(Received.rgsw[d], N * (KskTotal + d - 1))
      BY <3>2 DEF ServerInv
    <3>5. QED
      BY <3>3, <3>4 DEF Ciphertext, RgswRow
  <2>4. ASSUME Rebuilt PROVE stream = drawn[wire.eval_key_seed]
    <3>1. wire # NoWire /\ Full(rebuilt.ksk) /\ Len(rebuilt.rgsw) = PrimeDigits
      BY <2>4, KskRebuiltIsFull DEF Rebuilt, WireInv, Received
    <3>2. Generated(rebuilt) = KskTotal + PrimeDigits
      BY <2>0, <2>1, <3>1, FullFacts DEF Generated, Partial
    <3>3. QED
      BY <3>1, <3>2 DEF ServerInv, WireInv
  <2>5. QED
    BY <2>0, <2>2, <2>3, <2>4 DEF CiphertextsMatch
<1>2. QED
  BY <1>1, InvariantHolds, PTL

\* No two rows of the keys sent share a mask, and a build that goes on never
\* draws a mask that any row had before, those of failed builds included.
THEOREM MasksAreFresh == Spec => []NoMaskReuse
<1>1. IInv => NoMaskReuse
  <2> SUFFICES ASSUME IInv PROVE NoMaskReuse
    OBVIOUS
  <2> USE DEF IInv
  <2>1. ASSUME NEW r1 \in Rows(wire.rows), NEW r2 \in Rows(wire.rows),
               NEW i \in 1 .. N, NEW j \in 1 .. N, r1.under[i] = r2.under[j]
        PROVE  r1 = r2 /\ i = j
    <3> DEFINE seed == wire.eval_key_seed
               last == KskTotal + PrimeDigits - 1
    <3>1. wire # NoWire
      <4>1. Rows(NoRows) = {}
        BY DEF Rows, NoRows
      <4>2. QED
        BY <2>1, <4>1 DEF NoWire
    <3>2. Complete(wire.rows, seed) /\ wire.rows \in Keys(ClientRows) /\ seed \in Distributions
      BY <3>1 DEF WireInv, Complete, Types
    <3>3. HasPlace(wire.rows, seed, r1) /\ HasPlace(wire.rows, seed, r2)
      BY <3>2, RowHasPlace
    <3>4. PICK k1 \in 0 .. last : At(wire.rows, k1, r1) /\ r1.under = Masks(seed, N * k1)
      BY <3>3 DEF HasPlace
    <3>5. PICK k2 \in 0 .. last : At(wire.rows, k2, r2) /\ r2.under = Masks(seed, N * k2)
      BY <3>3 DEF HasPlace
    <3>6. k1 \in Nat /\ k2 \in Nat /\ N \in Nat \ {0}
      BY <3>4, <3>5, SizeFacts
    <3>7. N * k1 \in Nat /\ N * k2 \in Nat
      BY <3>6
    <3>8. r1.under[i] = <<seed, N * k1 + i>> /\ r2.under[j] = <<seed, N * k2 + j>>
      BY <3>2, <3>4, <3>5, <3>7, RowFacts
    <3>9. k1 * N + i = k2 * N + j
      <4>0. <<seed, N * k1 + i>> = <<seed, N * k2 + j>>
        BY <2>1, <3>8
      <4>1. N * k1 + i = N * k2 + j
        BY <4>0
      <4>2. N * k1 = k1 * N /\ N * k2 = k2 * N
        BY <3>6
      <4>3. QED
        BY <4>1, <4>2
    <3>10. k1 = k2 /\ i = j
      BY <3>6, <3>9, DivisionUnique
    <3>11. QED
      BY <3>4, <3>5, <3>6, <3>10, PlaceHasOneRow
  <2>2. ASSUME building # "no", NEW j \in 1 .. N PROVE NextMasks[j] \notin used
    <3>1. drawn[dist] \in Nat
      BY <2>2 DEF BuildInv, Types, TypeOK, Distributions
    <3>2. NextMasks[j] = <<dist, drawn[dist] + j>>
      BY DEF NextMasks, Masks
    <3>3. QED
      BY KeysAssumption, <3>1, <3>2 DEF UsedInv
  <2>3. QED
    BY <2>1, <2>2 DEF NoMaskReuse
<1>2. QED
  BY <1>1, InvariantHolds, PTL
=============================================================================
