------------------------- MODULE SeededQueryProofs -------------------------
(***************************************************************************)
(* For every number of rings, embedding length, number of clusters, gadget *)
(* length, dimension and number of queries: the server replays the         *)
(* client's streams exactly, and no mask is ever used twice, wherever a    *)
(* build throws.                                                           *)
(***************************************************************************)
EXTENDS SeededQuery, TLAPS

\* The selector's length is a count.
LEMMA SelectorLengthType == SelectorLength \in Nat
BY SizesAreCounts DEF SelectorLength

\* Ring indices are numbers, and there is a ring 0.
LEMMA RingsType == Rings \subseteq Nat /\ 0 \in Rings
BY SizesAreCounts DEF Rings

(* Positions.  At(n) is the position after n ciphertexts; every other fact *)
(* about positions is linear in At.                                        *)

At(n) == n * Dim

\* One more ciphertext is Dim more masks.
LEMMA AtSteps ==
  ASSUME NEW n \in Nat
  PROVE  At(n) \in Nat /\ At(0) = 0 /\ At(n + 1) = At(n) + Dim
BY SizesAreCounts DEF At

(* The inductive invariant. *)

\* The distribution is set to ring 0's for the selector; the one to restore
\* after it is the key's own, or what the last failed build left.
DistInv ==
  /\ pc = "idle" => sk_dist = LeftBy(failed)
  /\ pc # "idle" => original_dist = LeftBy(failed)
  /\ pc = "select" => sk_dist = 0

\* The client's nested loops: rings below the loop index are one value ahead.
LoopInv ==
  /\ pc # "idle" => server_pc = "idle"
  /\ Len(selector_b_values) <= SelectorLength
  /\ pc = "embed" =>
       /\ Len(selector_b_values) = 0
       /\ \A k \in Rings :
            /\ Len(embedding_b_values[k]) = Len(embedding_b_values[ring]) + (IF k < ring THEN 1 ELSE 0)
            /\ Len(embedding_b_values[k]) <= EmbeddingLength
  /\ pc = "select" \/ server_pc # "idle" =>
       \A k \in Rings : Len(embedding_b_values[k]) = EmbeddingLength
  /\ server_pc # "idle" => Len(selector_b_values) = SelectorLength

\* The j-th ciphertext of a stream is encrypted at the position the j-1
\* before it end at; the selector follows the embedding of ring 0.
Sent(k) == Len(embedding_b_values[k]) + (IF k = 0 THEN Len(selector_b_values) ELSE 0)

WireInv ==
  /\ \A k \in Rings : client_pos[k] = At(Sent(k))
  /\ \A k \in Rings : \A j \in 1..Len(embedding_b_values[k]) :
       /\ embedding_b_values[k][j].seed = seeds[k]
       /\ embedding_b_values[k][j].at = At(j - 1)
       /\ embedding_b_values[k][j].msg = EmbeddingMsg(k, j)
  /\ \A i \in 1..Len(selector_b_values) :
       /\ selector_b_values[i].seed = seeds[0]
       /\ selector_b_values[i].at = At(EmbeddingLength + i - 1)
       /\ selector_b_values[i].msg = SelectorMsg(i)

\* The server's position is the one its completed ciphertexts end at, plus
\* the masks drawn for the next one.
Got(k) == Len(embedding_cts[k]) + (IF k = 0 THEN Len(selector_cts) ELSE 0)

ReplayInv ==
  server_pc # "idle" =>
    /\ \A k \in Rings : Len(embedding_cts[k]) <= EmbeddingLength
    /\ server_pc = "rings" => Len(selector_cts) = 0
    /\ server_pc # "rings" => \A k \in Rings : Len(embedding_cts[k]) = EmbeddingLength
    /\ Len(selector_cts) <= SelectorLength
    /\ server_pc = "done" => Len(selector_cts) = SelectorLength
    /\ \A k \in Rings :
         /\ server_pos[k] = At(Got(k)) + Len(a_values[k])
         /\ Len(a_values[k]) <= Dim
         /\ \A x \in 1..Len(a_values[k]) : a_values[k][x] = At(Got(k)) + x - 1

\* Whatever was encrypted with a current seed lies before the current
\* position, and seeds still to come have encrypted nothing.
LogInv ==
  /\ \A b \in log : b.seed < nextSeed
  /\ pc # "idle" =>
       /\ \A k \in Rings : seeds[k] < nextSeed
       /\ \A k, m \in Rings : seeds[k] = seeds[m] => k = m
       /\ \A k \in Rings : \A b \in log : b.seed = seeds[k] => b.at + Dim <= client_pos[k]

IInv == TypeOK /\ DistInv /\ LoopInv /\ WireInv /\ ReplayInv /\ ServerReplaysClient
     /\ LogInv /\ NoMaskReuse

----------------------------------------------------------------------------
(* Type correctness. *)

\* An embedding component is a message.
LEMMA EmbeddingMsgType ==
  ASSUME NEW k \in Rings, NEW j \in 1..EmbeddingLength
  PROVE  EmbeddingMsg(k, j) \in Messages
BY DEF EmbeddingMsg, Messages

\* A selector digit is a message.
LEMMA SelectorMsgType ==
  ASSUME NEW i \in 1..SelectorLength
  PROVE  SelectorMsg(i) \in Messages
BY DEF SelectorMsg, Messages

\* An encryption yields a b value.
LEMMA BType ==
  ASSUME TypeOK, NEW d \in Rings, NEW m \in Messages
  PROVE  B(d, m) \in BValues
BY DEF TypeOK, LoopTypeOK, WireTypeOK, B, BValues

\* Initially every variable has its type.
LEMMA InitType == Init => TypeOK
BY SizesAreCounts, RingsType
   DEF Init, TypeOK, LoopTypeOK, WireTypeOK, ServerTypeOK, Original, LeftBy, NoCluster, Rings

\* Every step keeps the types.
LEMMA NextType == TypeOK /\ DistInv /\ [Next]_vars => TypeOK'
<1> SUFFICES ASSUME TypeOK, DistInv, [Next]_vars PROVE TypeOK'
  OBVIOUS
<1>1. ASSUME NEW c \in 0 .. NumClusters - 1, BeginQuery(c) PROVE TypeOK'
  <2> USE <1>1 DEF TypeOK, BeginQuery, BeginQueryWith
  <2>1. LoopTypeOK'
    BY SizesAreCounts, RingsType DEF LoopTypeOK
  <2>2. WireTypeOK'
    <3>1. (seeds \in [Rings -> Nat])'
      BY RingsType DEF LoopTypeOK
    <3>2. QED
      BY <3>1 DEF WireTypeOK
  <2>3. ServerTypeOK'
    BY DEF ServerTypeOK
  <2>4. QED
    BY <2>1, <2>2, <2>3
<1>2. CASE EncryptEmbedding
  <2> DEFINE j == Len(embedding_b_values[ring]) + 1
             b == B(ring, EmbeddingMsg(ring, j))
  <2>1. j \in 1..EmbeddingLength
    BY <1>2, SizesAreCounts
       DEF TypeOK, LoopTypeOK, WireTypeOK, EncryptEmbedding, EncryptEmbeddingWith
  <2>2. b \in BValues
    BY <2>1, EmbeddingMsgType, BType DEF TypeOK, LoopTypeOK
  <2>3. LoopTypeOK'
    BY <1>2, RingsType, SizesAreCounts
       DEF TypeOK, LoopTypeOK, EncryptEmbedding, EncryptEmbeddingWith, NextRing, Rings
  <2> HIDE DEF b
  <2>4. WireTypeOK'
    BY <1>2, <2>2, SizesAreCounts
       DEF TypeOK, LoopTypeOK, WireTypeOK, EncryptEmbedding, EncryptEmbeddingWith, b
  <2>5. ServerTypeOK'
    BY <1>2 DEF TypeOK, ServerTypeOK, EncryptEmbedding, EncryptEmbeddingWith, server_vars
  <2>6. QED
    BY <2>3, <2>4, <2>5 DEF TypeOK
<1>3. CASE StartSelector
  <2> USE <1>3 DEF TypeOK, StartSelector, StartSelectorWith, server_vars
  <2>1. LoopTypeOK'
    BY RingsType DEF LoopTypeOK
  <2>2. WireTypeOK'
    BY DEF WireTypeOK
  <2>3. ServerTypeOK'
    BY DEF ServerTypeOK
  <2>4. QED
    BY <2>1, <2>2, <2>3
<1>4. CASE EncryptSelector
  <2> DEFINE i == Len(selector_b_values) + 1
             b == B(sk_dist, SelectorMsg(i))
  <2>1. i \in 1..SelectorLength
    BY <1>4, SelectorLengthType DEF TypeOK, WireTypeOK, EncryptSelector
  <2>2. sk_dist \in Rings /\ b \in BValues
    BY <1>4, <2>1, SelectorMsgType, BType, RingsType DEF DistInv, EncryptSelector
  <2>3. LoopTypeOK'
    BY <1>4 DEF TypeOK, LoopTypeOK, EncryptSelector
  <2> HIDE DEF b
  <2>4. WireTypeOK'
    BY <1>4, <2>2, SizesAreCounts DEF TypeOK, WireTypeOK, EncryptSelector, b
  <2>5. ServerTypeOK'
    BY <1>4 DEF TypeOK, ServerTypeOK, EncryptSelector, server_vars
  <2>6. QED
    BY <2>3, <2>4, <2>5 DEF TypeOK
<1>5. CASE FinishQuery
  <2> USE <1>5 DEF TypeOK, FinishQuery, FinishQueryWith
  <2>1. LoopTypeOK'
    BY DEF LoopTypeOK
  <2>2. WireTypeOK'
    BY DEF WireTypeOK
  <2>3. ServerTypeOK'
    BY DEF ServerTypeOK
  <2>4. QED
    BY <2>1, <2>2, <2>3
<1>6. CASE Server
  <2>1. LoopTypeOK' /\ WireTypeOK'
    BY <1>6 DEF TypeOK, LoopTypeOK, WireTypeOK, client_vars, Server, DrawMask,
                RebuildEmbedding, RingsJoined, RebuildSelector, Reconstructed
  <2>2. ASSUME NEW k \in Rings, DrawMask(k) PROVE ServerTypeOK'
    <3> USE <2>2 DEF TypeOK, ServerTypeOK, DrawMask
    <3>1. (server_pos \in [Rings -> Nat])'
      OBVIOUS
    <3>2. (a_values \in [Rings -> Seq(Nat)])'
      OBVIOUS
    <3>3. QED
      BY <3>1, <3>2
  <2>3. ASSUME NEW k \in Rings, RebuildEmbedding(k) PROVE ServerTypeOK'
    <3> DEFINE b == embedding_b_values[k][Len(embedding_cts[k]) + 1]
    <3>1. Rebuilt(k, b) \in Ciphertexts
      BY <2>3 DEF TypeOK, WireTypeOK, ServerTypeOK, RebuildEmbedding, RingBusy, Rebuilt,
                  Ciphertexts
    <3> HIDE DEF b
    <3> USE <2>3 DEF TypeOK, ServerTypeOK, RebuildEmbedding
    <3>2. (embedding_cts \in [Rings -> Seq(Ciphertexts)])'
      BY <3>1 DEF b
    <3>3. (a_values \in [Rings -> Seq(Nat)])'
      OBVIOUS
    <3>4. QED
      BY <3>2, <3>3
  <2>4. ASSUME RingsJoined PROVE ServerTypeOK'
    BY <2>4 DEF TypeOK, ServerTypeOK, RingsJoined
  <2>5. ASSUME RebuildSelector PROVE ServerTypeOK'
    <3> DEFINE b == selector_b_values[Len(selector_cts) + 1]
    <3>1. Rebuilt(0, b) \in Ciphertexts
      BY <2>5, RingsType DEF TypeOK, WireTypeOK, ServerTypeOK, RebuildSelector, SelectorBusy,
                  Rebuilt, Ciphertexts
    <3> HIDE DEF b
    <3> USE <2>5, RingsType DEF TypeOK, ServerTypeOK, RebuildSelector
    <3>2. (selector_cts \in Seq(Ciphertexts))'
      BY <3>1 DEF b
    <3>3. (a_values \in [Rings -> Seq(Nat)])'
      OBVIOUS
    <3>4. QED
      BY <3>2, <3>3
  <2>6. ASSUME Reconstructed PROVE ServerTypeOK'
    BY <2>6 DEF TypeOK, ServerTypeOK, Reconstructed
  <2>7. QED
    BY <1>6, <2>1, <2>2, <2>3, <2>4, <2>5, <2>6 DEF Server, TypeOK
<1>7. CASE UNCHANGED vars
  BY <1>7 DEF TypeOK, LoopTypeOK, WireTypeOK, ServerTypeOK, vars, client_vars, server_vars
<1>8. CASE BuildFails
  <2>1. LoopTypeOK'
    BY <1>8 DEF TypeOK, LoopTypeOK, BuildFails
  <2>2. WireTypeOK' /\ ServerTypeOK'
    BY <1>8 DEF TypeOK, WireTypeOK, ServerTypeOK, BuildFails, server_vars
  <2>3. QED
    BY <2>1, <2>2 DEF TypeOK
<1>9. QED
  BY <1>1, <1>2, <1>3, <1>4, <1>5, <1>6, <1>7, <1>8 DEF Next, Client

----------------------------------------------------------------------------
(* The distribution and the client's loops. *)

\* Every step leaves the key with the distribution its place in the code asks for.
LEMMA DistNext == DistInv /\ [Next]_vars => DistInv'
BY DEF DistInv, Next, Client, Server, BeginQuery, BeginQueryWith, EncryptEmbedding,
       EncryptEmbeddingWith, StartSelector, StartSelectorWith, EncryptSelector, FinishQuery,
       FinishQueryWith, BuildFails, DrawMask, RebuildEmbedding, RingsJoined, RebuildSelector,
       Reconstructed, vars, client_vars, server_vars

\* Every step keeps the client's loop counters in order.
LEMMA LoopNext == TypeOK /\ LoopInv /\ [Next]_vars => LoopInv'
<1> SUFFICES ASSUME TypeOK, LoopInv, [Next]_vars PROVE LoopInv'
  OBVIOUS
<1> USE SizesAreCounts, RingsType, SelectorLengthType
<1> USE DEF TypeOK, LoopTypeOK, WireTypeOK
<1>1. ASSUME NEW c \in 0 .. NumClusters - 1, BeginQuery(c) PROVE LoopInv'
  BY <1>1 DEF LoopInv, BeginQuery, BeginQueryWith, Rings
<1>2. CASE EncryptEmbedding
  <2> DEFINE n == Len(embedding_b_values[ring])
  <2> USE <1>2 DEF EncryptEmbedding, EncryptEmbeddingWith
  <2>1. n \in Nat /\ n < EmbeddingLength
    OBVIOUS
  <2>2. \A k \in Rings : Len(embedding_b_values'[k]) =
                           IF k = ring THEN n + 1 ELSE Len(embedding_b_values[k])
    OBVIOUS
  <2>3. pc' = "embed" /\ server_pc' = "idle" /\ Len(selector_b_values') = 0
    BY DEF LoopInv, server_vars
  <2>4. \A k \in Rings : Len(embedding_b_values[k]) = n + (IF k < ring THEN 1 ELSE 0)
    BY DEF LoopInv
  <2>5. ring' = NextRing /\ ring \in Nat /\ ring < NumRings
    BY DEF Rings
  <2> HIDE <1>2
  <2> HIDE DEF TypeOK, LoopTypeOK, WireTypeOK, EncryptEmbedding, EncryptEmbeddingWith, n
  <2>6. ASSUME NEW k \in Rings
        PROVE  /\ Len(embedding_b_values'[k]) = Len(embedding_b_values'[ring'])
                                                + (IF k < ring' THEN 1 ELSE 0)
               /\ Len(embedding_b_values'[k]) <= EmbeddingLength
    <3>1. k \in Nat /\ k < NumRings
      BY DEF Rings
    <3>2. Len(embedding_b_values'[k]) = IF k <= ring THEN n + 1 ELSE n
      BY <2>1, <2>2, <2>4, <2>5, <3>1
    <3>3. ring' \in Rings /\ Len(embedding_b_values'[ring']) = IF ring + 1 < NumRings THEN n ELSE n + 1
      BY <2>1, <2>2, <2>4, <2>5 DEF NextRing, Rings
    <3>4. QED
      BY <2>1, <2>5, <3>1, <3>2, <3>3 DEF NextRing
  <2>7. QED
    <3> HIDE SizesAreCounts, RingsType
    <3>1. (pc # "idle" => server_pc = "idle")' /\ (Len(selector_b_values) <= SelectorLength)'
      BY <2>3
    <3>2. (pc = "select" \/ server_pc # "idle" =>
             \A k \in Rings : Len(embedding_b_values[k]) = EmbeddingLength)'
      BY <2>3
    <3>3. (server_pc # "idle" => Len(selector_b_values) = SelectorLength)'
      BY <2>3
    <3>4. QED
      BY <2>3, <2>6, <3>1, <3>2, <3>3, Zenon DEF LoopInv
<1>3. CASE StartSelector
  <2>1. \A k \in Rings : /\ Len(embedding_b_values[k]) = EmbeddingLength + (IF k < ring THEN 1 ELSE 0)
                         /\ Len(embedding_b_values[k]) <= EmbeddingLength
    BY <1>3 DEF LoopInv, StartSelector, StartSelectorWith
  <2>2. \A k \in Rings : Len(embedding_b_values[k]) = EmbeddingLength
    BY <2>1
  <2>3. QED
    BY <1>3, <2>2 DEF LoopInv, StartSelector, StartSelectorWith, server_vars
<1>4. CASE EncryptSelector
  BY <1>4 DEF LoopInv, EncryptSelector, server_vars
<1>5. CASE FinishQuery
  BY <1>5 DEF LoopInv, FinishQuery, FinishQueryWith
<1>6. CASE Server
  BY <1>6 DEF LoopInv, Server, DrawMask, RebuildEmbedding, RingsJoined, RebuildSelector,
              Reconstructed, client_vars
<1>7. CASE UNCHANGED vars
  BY <1>7 DEF LoopInv, vars, client_vars, server_vars
<1>8. CASE BuildFails
  BY <1>8 DEF LoopInv, BuildFails, server_vars
<1>9. QED
  BY <1>1, <1>2, <1>3, <1>4, <1>5, <1>6, <1>7, <1>8 DEF Next, Client

----------------------------------------------------------------------------
(* The positions the client encrypts at. *)

\* The server's steps leave the client alone.
LEMMA ServerKeepsClient == Server => UNCHANGED client_vars
BY DEF Server, DrawMask, RebuildEmbedding, RingsJoined, RebuildSelector, Reconstructed

\* Every step keeps each b value where its stream's position says it is.
LEMMA WireNext == TypeOK /\ DistInv /\ LoopInv /\ WireInv /\ [Next]_vars => WireInv'
<1> SUFFICES ASSUME TypeOK, DistInv, LoopInv, WireInv, [Next]_vars PROVE WireInv'
  OBVIOUS
<1>1. ASSUME NEW c \in 0 .. NumClusters - 1, BeginQuery(c) PROVE WireInv'
  <2> USE <1>1 DEF BeginQuery, BeginQueryWith
  <2>1. \A k \in Rings : Len(embedding_b_values'[k]) = 0 /\ client_pos'[k] = 0
    OBVIOUS
  <2>2. Len(selector_b_values') = 0 /\ At(0) = 0
    BY AtSteps
  <2> QED
    BY <2>1, <2>2 DEF WireInv, Sent
<1>2. CASE EncryptEmbedding
  <2> DEFINE n == Len(embedding_b_values[ring])
             b == B(ring, EmbeddingMsg(ring, n + 1))
  <2>1. n \in Nat /\ ring \in Rings /\ embedding_b_values[ring] \in Seq(BValues)
    BY DEF TypeOK, LoopTypeOK, WireTypeOK
  <2>2. /\ Len(selector_b_values) = 0 /\ selector_b_values' = selector_b_values
        /\ embedding_b_values' = [embedding_b_values EXCEPT ![ring] = Append(@, b)]
        /\ client_pos' = [client_pos EXCEPT ![ring] = @ + Dim]
        /\ seeds' = seeds
    BY <1>2 DEF LoopInv, EncryptEmbedding, EncryptEmbeddingWith
  <2>3. client_pos[ring] = At(n)
    BY <2>1, <2>2 DEF WireInv, Sent
  <2>4. b.seed = seeds[ring] /\ b.at = At(n) /\ b.msg = EmbeddingMsg(ring, n + 1)
    BY <2>3 DEF B
  <2> HIDE DEF b
  <2>5. \A k \in Rings : k # ring => embedding_b_values'[k] = embedding_b_values[k]
                                     /\ client_pos'[k] = client_pos[k]
    BY <2>2 DEF TypeOK, WireTypeOK
  <2>6. embedding_b_values'[ring] = Append(embedding_b_values[ring], b)
        /\ client_pos'[ring] = At(n) + Dim
    BY <2>1, <2>2, <2>3 DEF TypeOK, WireTypeOK
  <2>7. Len(embedding_b_values'[ring]) = n + 1 /\ embedding_b_values'[ring][n + 1] = b
        /\ \A j \in 1..n : embedding_b_values'[ring][j] = embedding_b_values[ring][j]
    BY <2>1, <2>6
  <2> HIDE DEF n
  <2>8. \A k \in Rings : (client_pos[k] = At(Sent(k)))'
    <3> SUFFICES ASSUME NEW k \in Rings PROVE (client_pos[k] = At(Sent(k)))'
      OBVIOUS
    <3>1. CASE k = ring
      <4>1. Sent(k)' = n + 1
        BY <3>1, <2>1, <2>2, <2>7 DEF Sent
      <4>2. At(n + 1) = At(n) + Dim
        BY <2>1, AtSteps DEF n
      <4>3. QED
        BY <3>1, <4>1, <4>2, <2>6
    <3>2. CASE k # ring
      BY <3>2, <2>2, <2>5 DEF WireInv, Sent
    <3>3. QED
      BY <3>1, <3>2
  <2>9. \A k \in Rings : \A j \in 1..Len(embedding_b_values'[k]) :
          /\ embedding_b_values'[k][j].seed = seeds[k]
          /\ embedding_b_values'[k][j].at = At(j - 1)
          /\ embedding_b_values'[k][j].msg = EmbeddingMsg(k, j)
    <3> SUFFICES ASSUME NEW k \in Rings, NEW j \in 1..Len(embedding_b_values'[k])
                 PROVE  /\ embedding_b_values'[k][j].seed = seeds[k]
                        /\ embedding_b_values'[k][j].at = At(j - 1)
                        /\ embedding_b_values'[k][j].msg = EmbeddingMsg(k, j)
      OBVIOUS
    <3>1. CASE k = ring /\ j = n + 1
      BY <3>1, <2>1, <2>4, <2>7
    <3>2. CASE ~(k = ring /\ j = n + 1)
      <4>1. j \in 1..Len(embedding_b_values[k])
            /\ embedding_b_values'[k][j] = embedding_b_values[k][j]
        BY <3>2, <2>1, <2>5, <2>7 DEF n
      <4>2. QED
        BY <4>1 DEF WireInv
    <3>3. QED
      BY <3>1, <3>2
  <2>10. QED
    BY <2>2, <2>8, <2>9 DEF WireInv, EmbeddingMsg
<1>3. CASE StartSelector
  BY <1>3 DEF WireInv, StartSelector, StartSelectorWith, Sent, EmbeddingMsg, SelectorMsg
<1>4. CASE EncryptSelector
  <2> DEFINE n == Len(selector_b_values)
             b == B(0, SelectorMsg(n + 1))
             p == EmbeddingLength + n
  <2>1. n \in Nat /\ p \in Nat /\ selector_b_values \in Seq(BValues)
    BY SizesAreCounts DEF TypeOK, WireTypeOK
  <2>2. /\ sk_dist = 0 /\ selector_b_values' = Append(selector_b_values, b)
        /\ client_pos' = [client_pos EXCEPT ![0] = @ + Dim]
        /\ embedding_b_values' = embedding_b_values /\ seeds' = seeds /\ desired' = desired
    BY <1>4 DEF DistInv, EncryptSelector
  <2>3. \A k \in Rings : Len(embedding_b_values[k]) = EmbeddingLength
    BY <1>4 DEF LoopInv, EncryptSelector
  <2>4. client_pos[0] = At(p)
    BY <2>3, RingsType DEF WireInv, Sent
  <2>5. b.seed = seeds[0] /\ b.at = At(p) /\ b.msg = SelectorMsg(n + 1)
    BY <2>4 DEF B
  <2> HIDE DEF b
  <2>6. Len(selector_b_values') = n + 1 /\ selector_b_values'[n + 1] = b
        /\ \A i \in 1..n : selector_b_values'[i] = selector_b_values[i]
    BY <2>1, <2>2
  <2>7. \A k \in Rings : client_pos'[k] = IF k = 0 THEN At(p) + Dim ELSE client_pos[k]
    BY <2>2, <2>4 DEF TypeOK, WireTypeOK
  <2>8. \A k \in Rings : (client_pos[k] = At(Sent(k)))'
    <3> SUFFICES ASSUME NEW k \in Rings PROVE (client_pos[k] = At(Sent(k)))'
      OBVIOUS
    <3>1. CASE k = 0
      <4>1. Sent(0)' = p + 1
        <5>1. Len(embedding_b_values'[0]) = EmbeddingLength /\ Len(selector_b_values') = n + 1
          BY <2>2, <2>3, <2>6, RingsType
        <5>2. QED
          BY <5>1, <2>1, SizesAreCounts DEF Sent
      <4>2. At(p + 1) = At(p) + Dim
        BY <2>1, AtSteps
      <4> HIDE DEF p
      <4>3. QED
        BY <3>1, <4>1, <4>2, <2>7
    <3>2. CASE k # 0
      BY <3>2, <2>2, <2>7 DEF WireInv, Sent
    <3>3. QED
      BY <3>1, <3>2
  <2> HIDE DEF n
  <2>9. \A i \in 1..Len(selector_b_values') :
          /\ selector_b_values'[i].seed = seeds[0]
          /\ selector_b_values'[i].at = At(EmbeddingLength + i - 1)
          /\ selector_b_values'[i].msg = SelectorMsg(i)
    <3> SUFFICES ASSUME NEW i \in 1..Len(selector_b_values')
                 PROVE  /\ selector_b_values'[i].seed = seeds[0]
                        /\ selector_b_values'[i].at = At(EmbeddingLength + i - 1)
                        /\ selector_b_values'[i].msg = SelectorMsg(i)
      OBVIOUS
    <3>1. CASE i = n + 1
      <4>1. EmbeddingLength + i - 1 = p
        BY <3>1, <2>1, SizesAreCounts
      <4>2. QED
        BY <3>1, <4>1, <2>5, <2>6
    <3>2. CASE i # n + 1
      BY <3>2, <2>1, <2>6 DEF WireInv, n
    <3>3. QED
      BY <3>1, <3>2
  <2>10. QED
    BY <2>2, <2>8, <2>9 DEF WireInv, SelectorMsg, EmbeddingMsg
<1>5. CASE FinishQuery
  BY <1>5 DEF WireInv, FinishQuery, FinishQueryWith, Sent, EmbeddingMsg, SelectorMsg
<1>6. CASE Server
  <2>1. /\ client_pos' = client_pos /\ embedding_b_values' = embedding_b_values
        /\ selector_b_values' = selector_b_values /\ seeds' = seeds /\ desired' = desired
    BY <1>6, ServerKeepsClient DEF client_vars
  <2>2. (\A k \in Rings : client_pos[k] = At(Sent(k)))'
    BY <2>1 DEF WireInv, Sent
  <2>3. QED
    BY <2>1, <2>2 DEF WireInv, EmbeddingMsg, SelectorMsg
<1>7. CASE UNCHANGED vars
  BY <1>7 DEF WireInv, Sent, EmbeddingMsg, SelectorMsg, vars, client_vars
<1>8. CASE BuildFails
  BY <1>8 DEF WireInv, Sent, EmbeddingMsg, SelectorMsg, BuildFails
<1>9. QED
  BY <1>1, <1>2, <1>3, <1>4, <1>5, <1>6, <1>7, <1>8 DEF Next, Client

----------------------------------------------------------------------------
(* The positions the server replays. *)

\* While the client builds a query the server has none.
LEMMA ClientKeepsServerIdle ==
  ASSUME LoopInv, Client, ~ FinishQuery
  PROVE  server_pc' = "idle"
BY DEF LoopInv, Client, BeginQuery, BeginQueryWith, EncryptEmbedding, EncryptEmbeddingWith,
       StartSelector, StartSelectorWith, EncryptSelector, BuildFails, server_vars

\* Every step keeps the server's positions those of the ciphertexts it has rebuilt.
LEMMA ReplayNext == TypeOK /\ LoopInv /\ ReplayInv /\ [Next]_vars => ReplayInv'
<1> SUFFICES ASSUME TypeOK, LoopInv, ReplayInv, [Next]_vars PROVE ReplayInv'
  OBVIOUS
<1>0. /\ server_pos \in [Rings -> Nat] /\ a_values \in [Rings -> Seq(Nat)]
      /\ embedding_cts \in [Rings -> Seq(Ciphertexts)] /\ selector_cts \in Seq(Ciphertexts)
      /\ \A k \in Rings : Got(k) \in Nat
      /\ 0 \in Rings /\ SelectorLength \in Nat /\ EmbeddingLength \in Nat /\ Dim \in Nat
  BY RingsType, SelectorLengthType, SizesAreCounts DEF TypeOK, ServerTypeOK, Got
<1>1. CASE Client /\ ~ FinishQuery
  BY <1>1, ClientKeepsServerIdle DEF ReplayInv
<1>2. CASE FinishQuery
  <2>1. \A k \in Rings : Len(embedding_cts'[k]) = 0 /\ server_pos'[k] = 0 /\ Len(a_values'[k]) = 0
    BY <1>2 DEF FinishQuery, FinishQueryWith
  <2>2. Len(selector_cts') = 0 /\ server_pc' = "rings" /\ At(0) = 0
    BY <1>2, AtSteps DEF FinishQuery, FinishQueryWith
  <2>3. QED
    BY <2>1, <2>2, <1>0 DEF ReplayInv, Got
<1>3. ASSUME NEW k \in Rings, DrawMask(k) PROVE ReplayInv'
  <2> DEFINE n == Len(a_values[k])
  <2>0. /\ n \in Nat /\ n < Dim /\ server_pc # "idle"
        /\ server_pc' = server_pc /\ embedding_cts' = embedding_cts /\ selector_cts' = selector_cts
    BY <1>0, <1>3 DEF DrawMask, RingBusy, SelectorBusy
  <2>1. At(Got(k)) \in Nat /\ \A m \in Rings : Got(m)' = Got(m)
    BY <1>0, <2>0, AtSteps DEF Got
  <2>2. server_pos[k] = At(Got(k)) + n
    BY <2>0, <2>1 DEF ReplayInv
  <2>3. /\ server_pos'[k] = At(Got(k)) + n + 1
        /\ Len(a_values'[k]) = n + 1 /\ a_values'[k][n + 1] = At(Got(k)) + n
        /\ \A x \in 1..n : a_values'[k][x] = a_values[k][x]
    BY <1>0, <1>3, <2>0, <2>1, <2>2 DEF DrawMask
  <2>4. \A m \in Rings : m # k => server_pos'[m] = server_pos[m] /\ a_values'[m] = a_values[m]
    BY <1>0, <1>3 DEF DrawMask
  <2>5. ASSUME NEW m \in Rings
        PROVE  /\ server_pos'[m] = At(Got(m)) + Len(a_values'[m])
               /\ Len(a_values'[m]) <= Dim
               /\ \A x \in 1..Len(a_values'[m]) : a_values'[m][x] = At(Got(m)) + x - 1
    <3>1. CASE m = k
      <4>1. \A x \in 1..n : a_values[k][x] = At(Got(k)) + x - 1
        BY <2>0, <2>1 DEF ReplayInv
      <4> HIDE DEF n
      <4>2. \A x \in 1..(n + 1) : a_values'[k][x] = At(Got(k)) + x - 1
        BY <4>1, <2>0, <2>1, <2>3
      <4>3. server_pos'[k] = At(Got(k)) + (n + 1) /\ n + 1 <= Dim
        BY <2>0, <2>1, <2>3, <1>0
      <4>4. QED
        BY <3>1, <4>2, <4>3, <2>3
    <3>2. CASE m # k
      BY <3>2, <2>0, <2>1, <2>4 DEF ReplayInv
    <3>3. QED
      BY <3>1, <3>2
  <2>6. QED
    BY <2>0, <2>1, <2>5 DEF ReplayInv
<1>4. ASSUME NEW k \in Rings, RebuildEmbedding(k) PROVE ReplayInv'
  <2>1. /\ server_pc = "rings" /\ server_pc' = "rings" /\ selector_cts' = selector_cts
        /\ Len(a_values[k]) = Dim /\ server_pos' = server_pos
        /\ Len(selector_cts) = 0
        /\ Len(embedding_cts[k]) < EmbeddingLength
    BY <1>4 DEF LoopInv, ReplayInv, RebuildEmbedding, RingBusy
  <2>2. /\ Len(embedding_cts'[k]) = Len(embedding_cts[k]) + 1 /\ Len(a_values'[k]) = 0
        /\ \A m \in Rings : m # k => embedding_cts'[m] = embedding_cts[m] /\ a_values'[m] = a_values[m]
    BY <1>0, <1>4 DEF RebuildEmbedding
  <2>3. Got(k)' = Got(k) + 1 /\ \A m \in Rings : m # k => Got(m)' = Got(m)
    BY <1>0, <2>1, <2>2 DEF Got
  <2>4. At(Got(k) + 1) = At(Got(k)) + Dim
    BY <1>0, AtSteps
  <2>5. ASSUME NEW m \in Rings
        PROVE  /\ Len(embedding_cts'[m]) <= EmbeddingLength
               /\ server_pos'[m] = At(Got(m)') + Len(a_values'[m])
               /\ Len(a_values'[m]) <= Dim
               /\ \A x \in 1..Len(a_values'[m]) : a_values'[m][x] = At(Got(m)') + x - 1
    <3>1. CASE m = k
      <4>1. server_pos[k] = At(Got(k)) + Dim
        BY <2>1 DEF ReplayInv
      <4>2. QED
        BY <3>1, <4>1, <2>1, <2>2, <2>3, <2>4, <1>0
    <3>2. CASE m # k
      BY <3>2, <2>1, <2>2, <2>3 DEF ReplayInv
    <3>3. QED
      BY <3>1, <3>2
  <2>6. QED
    BY <2>1, <2>5, <1>0 DEF ReplayInv
<1>5. CASE RingsJoined
  <2>1. \A m \in Rings : Got(m)' = Got(m)
    BY <1>5 DEF RingsJoined, Got
  <2>2. \A m \in Rings : Len(embedding_cts[m]) = EmbeddingLength
    BY <1>5 DEF LoopInv, RingsJoined
  <2>3. QED
    BY <1>5, <2>1, <2>2, <1>0 DEF ReplayInv, RingsJoined
<1>6. CASE RebuildSelector
  <2>1. /\ server_pc = "selector" /\ server_pc' = "selector" /\ embedding_cts' = embedding_cts
        /\ Len(a_values[0]) = Dim /\ server_pos' = server_pos
        /\ Len(selector_cts) < SelectorLength
    BY <1>6 DEF LoopInv, RebuildSelector, SelectorBusy
  <2>2. /\ Len(selector_cts') = Len(selector_cts) + 1 /\ Len(a_values'[0]) = 0
        /\ \A m \in Rings : m # 0 => a_values'[m] = a_values[m]
    BY <1>0, <1>6 DEF RebuildSelector
  <2>3. Got(0)' = Got(0) + 1 /\ \A m \in Rings : m # 0 => Got(m)' = Got(m)
    BY <1>0, <2>1, <2>2 DEF Got
  <2>4. At(Got(0) + 1) = At(Got(0)) + Dim
    BY <1>0, AtSteps
  <2>5. ASSUME NEW m \in Rings
        PROVE  /\ server_pos'[m] = At(Got(m)') + Len(a_values'[m])
               /\ Len(a_values'[m]) <= Dim
               /\ \A x \in 1..Len(a_values'[m]) : a_values'[m][x] = At(Got(m)') + x - 1
    <3>1. CASE m = 0
      <4>1. server_pos[0] = At(Got(0)) + Dim
        BY <2>1, <1>0 DEF ReplayInv
      <4>2. QED
        BY <3>1, <4>1, <2>1, <2>2, <2>3, <2>4, <1>0
    <3>2. CASE m # 0
      BY <3>2, <2>1, <2>2, <2>3 DEF ReplayInv
    <3>3. QED
      BY <3>1, <3>2
  <2>6. \A m \in Rings : Len(embedding_cts'[m]) = EmbeddingLength
    BY <2>1 DEF ReplayInv
  <2>7. Len(selector_cts') <= SelectorLength
    BY <2>1, <2>2, <1>0
  <2>8. QED
    BY <2>1, <2>5, <2>6, <2>7, <1>0 DEF ReplayInv
<1>7. CASE Reconstructed
  <2>1. \A m \in Rings : Got(m)' = Got(m)
    BY <1>7 DEF Reconstructed, Got
  <2>2. Len(selector_cts) = SelectorLength
    BY <1>7 DEF LoopInv, Reconstructed
  <2>3. QED
    BY <1>7, <2>1, <2>2, <1>0 DEF ReplayInv, Reconstructed
<1>8. CASE UNCHANGED vars
  BY <1>8 DEF ReplayInv, Got, vars, server_vars
<1>9. QED
  BY <1>1, <1>2, <1>3, <1>4, <1>5, <1>6, <1>7, <1>8 DEF Next, Server

----------------------------------------------------------------------------
(* What the server rebuilds decrypts. *)

\* The masks of a ciphertext are the Dim values from its position on.
LEMMA MasksAreConsecutive ==
  ASSUME NEW a \in Seq(Nat), NEW b \in BValues, Len(a) = Dim,
         \A x \in 1..Len(a) : a[x] = b.at + x - 1
  PROVE  a = Masks(b)
BY SizesAreCounts DEF Masks

\* Every step keeps the rebuilt ciphertexts paired with their masks.
LEMMA ReplaysNext ==
  TypeOK /\ LoopInv /\ WireInv /\ ReplayInv /\ ServerReplaysClient /\ [Next]_vars
    => ServerReplaysClient'
<1> SUFFICES ASSUME TypeOK, LoopInv, WireInv, ReplayInv, ServerReplaysClient, [Next]_vars
             PROVE  ServerReplaysClient'
  OBVIOUS
<1>0. /\ a_values \in [Rings -> Seq(Nat)] /\ 0 \in Rings /\ SelectorLength \in Nat
      /\ embedding_cts \in [Rings -> Seq(Ciphertexts)] /\ selector_cts \in Seq(Ciphertexts)
      /\ embedding_b_values \in [Rings -> Seq(BValues)] /\ selector_b_values \in Seq(BValues)
      /\ EmbeddingLength \in Nat
  BY RingsType, SelectorLengthType, SizesAreCounts DEF TypeOK, WireTypeOK, ServerTypeOK
<1>1. CASE Client /\ ~ FinishQuery
  BY <1>1, ClientKeepsServerIdle DEF ServerReplaysClient
<1>2. CASE FinishQuery
  <2>1. (\A k \in Rings : Len(embedding_cts'[k]) = 0) /\ Len(selector_cts') = 0
    BY <1>2 DEF FinishQuery, FinishQueryWith
  <2>2. QED
    BY <2>1 DEF ServerReplaysClient
<1>3. CASE /\ server_pc # "idle" /\ UNCHANGED <<embedding_cts, selector_cts, desired>>
  <2>1. (\A k \in Rings : \A j \in 1..Len(embedding_cts[k]) :
           Decrypts(embedding_cts[k][j]) /\ embedding_cts[k][j].b.msg = EmbeddingMsg(k, j))'
    BY <1>3 DEF ServerReplaysClient, Decrypts, Masks, EmbeddingMsg
  <2>2. (\A i \in 1..Len(selector_cts) :
           Decrypts(selector_cts[i]) /\ selector_cts[i].b.msg = SelectorMsg(i))'
    BY <1>3 DEF ServerReplaysClient, Decrypts, Masks, SelectorMsg
  <2>3. QED
    BY <2>1, <2>2 DEF ServerReplaysClient
<1>4. ASSUME NEW k \in Rings, RebuildEmbedding(k) PROVE ServerReplaysClient'
  <2> DEFINE n == Len(embedding_cts[k])
             b == embedding_b_values[k][n + 1]
             ct == Rebuilt(k, b)
  <2>1. /\ server_pc = "rings" /\ selector_cts' = selector_cts /\ desired' = desired
        /\ n \in Nat /\ n + 1 \in 1..Len(embedding_b_values[k])
        /\ Len(a_values[k]) = Dim /\ Len(selector_cts) = 0
        /\ embedding_cts' = [embedding_cts EXCEPT ![k] = Append(@, ct)]
    BY <1>0, <1>4 DEF ReplayInv, RebuildEmbedding, RingBusy, client_vars
  <2>2. b \in BValues /\ b.seed = seeds[k] /\ b.at = At(n) /\ b.msg = EmbeddingMsg(k, n + 1)
    BY <1>0, <2>1 DEF WireInv
  <2>3. Got(k) = n
    BY <2>1 DEF Got
  <2>4. \A x \in 1..Len(a_values[k]) : a_values[k][x] = b.at + x - 1
    BY <2>1, <2>2, <2>3 DEF ReplayInv
  <2>5. a_values[k] = Masks(b)
    <3> HIDE DEF b
    <3>1. QED
      BY <1>0, <2>1, <2>2, <2>4, MasksAreConsecutive
  <2>6. Decrypts(ct) /\ ct.b.msg = EmbeddingMsg(k, n + 1)
    BY <2>2, <2>5 DEF Decrypts, Rebuilt
  <2> HIDE DEF ct
  <2>7. /\ \A m \in Rings : m # k => embedding_cts'[m] = embedding_cts[m]
        /\ Len(embedding_cts'[k]) = n + 1 /\ embedding_cts'[k][n + 1] = ct
        /\ \A j \in 1..n : embedding_cts'[k][j] = embedding_cts[k][j]
    BY <1>0, <2>1
  <2> HIDE DEF n
  <2>8. ASSUME NEW m \in Rings, NEW j \in 1..Len(embedding_cts'[m])
        PROVE  Decrypts(embedding_cts'[m][j]) /\ embedding_cts'[m][j].b.msg = EmbeddingMsg(m, j)
    <3>1. CASE m = k /\ j = n + 1
      BY <3>1, <2>6, <2>7
    <3>2. CASE ~ (m = k /\ j = n + 1)
      <4>1. j \in 1..Len(embedding_cts[m]) /\ embedding_cts'[m][j] = embedding_cts[m][j]
        BY <3>2, <2>1, <2>7 DEF n
      <4>2. QED
        BY <4>1, <2>1 DEF ServerReplaysClient
    <3>3. QED
      BY <3>1, <3>2
  <2>9. \A i \in 1..Len(selector_cts') : FALSE
    BY <2>1
  <2>10. QED
    BY <2>8, <2>9 DEF ServerReplaysClient, Decrypts, Masks, EmbeddingMsg
<1>5. CASE RebuildSelector
  <2> DEFINE n == Len(selector_cts)
             b == selector_b_values[n + 1]
             ct == Rebuilt(0, b)
             p == EmbeddingLength + n
  <2>1. /\ server_pc = "selector" /\ embedding_cts' = embedding_cts /\ desired' = desired
        /\ n \in Nat /\ n + 1 \in 1..Len(selector_b_values)
        /\ Len(a_values[0]) = Dim /\ Len(embedding_cts[0]) = EmbeddingLength
        /\ selector_cts' = Append(selector_cts, ct)
    BY <1>0, <1>5 DEF ReplayInv, RebuildSelector, SelectorBusy, client_vars
  <2>2. /\ b \in BValues /\ b.seed = seeds[0] /\ b.at = At(EmbeddingLength + (n + 1) - 1)
        /\ b.msg = SelectorMsg(n + 1)
    BY <1>0, <2>1 DEF WireInv
  <2>3. Got(0) = p /\ EmbeddingLength + (n + 1) - 1 = p
    BY <1>0, <2>1 DEF Got
  <2>4. \A x \in 1..Len(a_values[0]) : a_values[0][x] = b.at + x - 1
    BY <1>0, <2>1, <2>2, <2>3 DEF ReplayInv
  <2>5. a_values[0] = Masks(b)
    <3> HIDE DEF b
    <3>1. QED
      BY <1>0, <2>1, <2>2, <2>4, MasksAreConsecutive
  <2>6. Decrypts(ct) /\ ct.b.msg = SelectorMsg(n + 1)
    BY <2>2, <2>5 DEF Decrypts, Rebuilt
  <2> HIDE DEF ct
  <2>7. /\ Len(selector_cts') = n + 1 /\ selector_cts'[n + 1] = ct
        /\ \A i \in 1..n : selector_cts'[i] = selector_cts[i]
    BY <1>0, <2>1
  <2> HIDE DEF n
  <2>8. ASSUME NEW i \in 1..Len(selector_cts')
        PROVE  Decrypts(selector_cts'[i]) /\ selector_cts'[i].b.msg = SelectorMsg(i)
    <3>1. CASE i = n + 1
      BY <3>1, <2>6, <2>7
    <3>2. CASE i # n + 1
      <4>1. i \in 1..Len(selector_cts) /\ selector_cts'[i] = selector_cts[i]
        BY <3>2, <2>1, <2>7 DEF n
      <4>2. QED
        BY <4>1, <2>1 DEF ServerReplaysClient
    <3>3. QED
      BY <3>1, <3>2
  <2>9. \A k \in Rings : \A j \in 1..Len(embedding_cts'[k]) :
          Decrypts(embedding_cts'[k][j]) /\ embedding_cts'[k][j].b.msg = EmbeddingMsg(k, j)
    BY <2>1 DEF ServerReplaysClient
  <2>10. QED
    BY <2>1, <2>8, <2>9 DEF ServerReplaysClient, Decrypts, Masks, SelectorMsg, EmbeddingMsg
<1>6. CASE UNCHANGED vars
  BY <1>6 DEF ServerReplaysClient, Decrypts, Masks, EmbeddingMsg, SelectorMsg, vars,
              client_vars, server_vars
<1>7. ASSUME NEW k \in Rings, DrawMask(k) PROVE ServerReplaysClient'
  BY <1>3, <1>7 DEF DrawMask, RingBusy, SelectorBusy, client_vars
<1>8. CASE RingsJoined \/ Reconstructed
  BY <1>3, <1>8 DEF RingsJoined, Reconstructed, client_vars
<1>9. QED
  BY <1>1, <1>2, <1>4, <1>5, <1>6, <1>7, <1>8 DEF Next, Server

----------------------------------------------------------------------------
(* No mask is used twice. *)

\* Every step adds to the history only an encryption with new masks.
LEMMA LogNext ==
  TypeOK /\ DistInv /\ LoopInv /\ LogInv /\ NoMaskReuse /\ [Next]_vars
    => LogInv' /\ NoMaskReuse'
<1> SUFFICES ASSUME TypeOK, DistInv, LoopInv, LogInv, NoMaskReuse, [Next]_vars
             PROVE  LogInv' /\ NoMaskReuse'
  OBVIOUS
<1>0. /\ client_pos \in [Rings -> Nat] /\ seeds \in [Rings -> Nat] /\ nextSeed \in Nat
      /\ log \subseteq BValues /\ NumRings \in Nat /\ NumRings > 0 /\ Dim \in Nat
      /\ Rings \subseteq Nat /\ \A k \in Rings : k < NumRings
  <2>1. /\ client_pos \in [Rings -> Nat] /\ seeds \in [Rings -> Nat] /\ nextSeed \in Nat
        /\ log \subseteq BValues
    BY DEF TypeOK, LoopTypeOK, WireTypeOK
  <2>2. NumRings \in Nat /\ NumRings > 0 /\ Dim \in Nat
    BY SizesAreCounts
  <2>3. \A k \in Rings : k < NumRings
    BY <2>2 DEF Rings
  <2>4. QED
    BY <2>1, <2>2, <2>3, RingsType
<1>1. ASSUME NEW c \in 0 .. NumClusters - 1, BeginQuery(c) PROVE LogInv' /\ NoMaskReuse'
  <2>1. /\ log' = log /\ nextSeed' = nextSeed + NumRings
        /\ \A k \in Rings : seeds'[k] = nextSeed + k
    BY <1>1 DEF BeginQuery, BeginQueryWith
  <2>2. \A b \in log : b.seed < nextSeed /\ b.seed \in Nat
    BY <1>0 DEF LogInv, BValues
  <2>3. LogInv'
    BY <1>0, <2>1, <2>2 DEF LogInv
  <2>4. QED
    BY <2>1, <2>3 DEF NoMaskReuse
\* One more encryption, on ring d at its current position.
<1>2. ASSUME NEW d \in Rings, NEW m, pc # "idle", pc' # "idle",
             log' = log \cup {B(d, m)}, seeds' = seeds, nextSeed' = nextSeed,
             client_pos' = [client_pos EXCEPT ![d] = @ + Dim]
      PROVE  LogInv' /\ NoMaskReuse'
  <2> DEFINE b == B(d, m)
  <2>1. b.seed = seeds[d] /\ b.at = client_pos[d]
    BY DEF B
  <2> HIDE DEF b
  <2>2. log' = log \cup {b}
    BY <1>2 DEF b
  <2>3. \A k \in Rings : client_pos'[k] = IF k = d THEN client_pos[d] + Dim ELSE client_pos[k]
    BY <1>0, <1>2
  <2>4. \A c \in log : c.at \in Nat /\ c.seed \in Nat
    BY <1>0 DEF BValues
  <2>5. \A c \in log : c.seed = seeds[d] => c.at + Dim <= client_pos[d]
    BY <1>2 DEF LogInv
  <2>6. \A c \in log' : c.seed < nextSeed'
    BY <1>2, <2>1, <2>2 DEF LogInv
  <2>7. \A k \in Rings : \A c \in log' : c.seed = seeds[k] => c.at + Dim <= client_pos'[k]
    <3> SUFFICES ASSUME NEW k \in Rings, NEW c \in log', c.seed = seeds[k]
                 PROVE  c.at + Dim <= client_pos'[k]
      OBVIOUS
    <3>1. CASE c \in log
      <4>1. c.at + Dim <= client_pos[k] /\ client_pos[k] \in Nat /\ client_pos[d] \in Nat
        BY <1>0, <1>2, <3>1 DEF LogInv
      <4>2. QED
        BY <1>0, <2>3, <2>4, <3>1, <4>1
    <3>2. CASE c = b
      <4>1. k = d
        BY <1>2, <2>1, <3>2 DEF LogInv
      <4>2. QED
        BY <1>0, <2>1, <2>3, <3>2, <4>1
    <3>3. QED
      BY <2>2, <3>1, <3>2
  <2>8. LogInv'
    BY <1>2, <2>6, <2>7 DEF LogInv
  <2>9. NoMaskReuse'
    BY <2>1, <2>2, <2>5 DEF NoMaskReuse
  <2>10. QED
    BY <2>8, <2>9
<1>3. CASE EncryptEmbedding
  <2>1. ring \in Rings
    BY DEF TypeOK, LoopTypeOK
  <2>2. QED
    BY <1>2, <1>3, <2>1 DEF EncryptEmbedding, EncryptEmbeddingWith
<1>4. CASE EncryptSelector
  BY <1>2, <1>4, RingsType DEF DistInv, EncryptSelector
<1>5. CASE StartSelector
  BY <1>5 DEF LogInv, NoMaskReuse, StartSelector, StartSelectorWith
<1>6. CASE FinishQuery
  BY <1>6 DEF LogInv, NoMaskReuse, FinishQuery, FinishQueryWith
<1>7. CASE Server
  BY <1>7, ServerKeepsClient DEF LogInv, NoMaskReuse, client_vars
<1>8. CASE UNCHANGED vars
  BY <1>8 DEF LogInv, NoMaskReuse, vars, client_vars
<1>9. CASE BuildFails
  BY <1>9 DEF LogInv, NoMaskReuse, BuildFails
<1>10. QED
  BY <1>1, <1>3, <1>4, <1>5, <1>6, <1>7, <1>8, <1>9 DEF Next, Client

----------------------------------------------------------------------------
(* The theorems. *)

\* The inductive invariant holds in every reachable state, for all sizes.
THEOREM InvariantHolds == Spec => []IInv
<1>1. Init => IInv
  <2> SUFFICES ASSUME Init PROVE IInv
    OBVIOUS
  <2>1. TypeOK
    BY InitType
  <2>2. DistInv /\ ReplayInv /\ ServerReplaysClient /\ LogInv /\ NoMaskReuse
    BY DEF Init, DistInv, LeftBy, Original, ReplayInv, ServerReplaysClient, LogInv, NoMaskReuse
  <2>3. LoopInv
    BY SelectorLengthType DEF Init, LoopInv
  <2>4. WireInv
    BY AtSteps DEF Init, WireInv, Sent
  <2>5. QED
    BY <2>1, <2>2, <2>3, <2>4 DEF IInv
<1>2. IInv /\ [Next]_vars => IInv'
  BY NextType, DistNext, LoopNext, WireNext, ReplayNext, ReplaysNext, LogNext DEF IInv
<1>3. QED
  BY <1>1, <1>2, PTL DEF Spec

\* Every variable keeps its type, for all sizes.
THEOREM TypeCorrect == Spec => []TypeOK
BY InvariantHolds, PTL DEF IInv

\* The server rebuilds every ciphertext of every query with the masks it was
\* encrypted with, whatever the schedule of the ring threads.
THEOREM ReplayCorrect == Spec => []ServerReplaysClient
BY InvariantHolds, PTL DEF IInv

\* A finished reconstruction is complete.
THEOREM ReconstructionIsComplete == Spec => []ReconstructionComplete
<1>1. IInv => ReconstructionComplete
  BY DEF IInv, ReplayInv, ReconstructionComplete
<1>2. QED
  BY <1>1, InvariantHolds, PTL

\* A key never encrypts twice with the same mask value.
THEOREM MasksNeverReused == Spec => []NoMaskReuse
BY InvariantHolds, PTL DEF IInv

\* Every build that returns puts back the distribution it found in the key: the
\* key's own, or the stream left by the last build that threw.
THEOREM DistributionIsRestored == Spec => []DistributionRestored
<1>1. IInv => DistributionRestored
  BY DEF IInv, DistInv, DistributionRestored
<1>2. QED
  BY <1>1, InvariantHolds, PTL
=============================================================================
