---------------------------- MODULE ScoringProofs ----------------------------
(***************************************************************************)
(* For any number of threads, clusters, documents and coefficients: the    *)
(* loops never race, and the response decodes to the exact scores of the   *)
(* desired cluster's documents; and under the encryption scheme a score is *)
(* the true dot product, with noise and in one ring or two.                *)
(***************************************************************************)
EXTENDS Scoring, Residues, WellFoundedInduction, TLAPS

(* Induction over the natural numbers, for sets of them. *)

LEMMA LessIsWellFounded == IsWellFoundedOn({p \in Nat \X Nat : p[1] < p[2]}, Nat)
BY NatLessThanWellFounded DEF OpToRel

\* Numbers have a least one.
LEMMA LeastNumber ==
  ASSUME NEW T, T \subseteq Nat, T # {}
  PROVE  \E x \in T : \A y \in T : x <= y
<1>1. PICK x \in T : \A y \in T : ~ (<<y, x>> \in {p \in Nat \X Nat : p[1] < p[2]})
  BY LessIsWellFounded, WFMin
<1>2. \A y \in T : ~ (y < x)
  BY <1>1
<1>3. QED
  BY <1>2

\* A set that holds 0 and, below n, the successor of what it holds.
LEMMA Induction ==
  ASSUME NEW n \in Nat, NEW T, 0 \in T, \A k \in 0 .. n - 1 : k \in T => k + 1 \in T
  PROVE  \A k \in 0 .. n : k \in T
<1> SUFFICES ASSUME NEW m \in 0 .. n, m \notin T PROVE FALSE
  OBVIOUS
<1> DEFINE Missing == {k \in 0 .. n : k \notin T}
<1>1. PICK k \in Missing : \A j \in Missing : k <= j
  <2>1. Missing \subseteq Nat /\ Missing # {}
    OBVIOUS
  <2>2. QED
    BY <2>1, LeastNumber
<1>2. k - 1 \in 0 .. n - 1 /\ k - 1 \notin Missing
  BY <1>1
<1>3. k - 1 \in T
  BY <1>2
<1>4. (k - 1) + 1 \in T
  BY <1>2, <1>3
<1>5. QED
  BY <1>1, <1>4

----------------------------------------------------------------------------
(* Sums. *)

Terms(h, n) == \A k \in 0 .. n - 1 : h[k] \in Int

\* f lists the sums of the first terms of h.
Sums(f, h, n) ==
  f \in [0 .. n -> Int] /\ f[0] = 0 /\ \A k \in 1 .. n : f[k] = f[k - 1] + h[k - 1]

LEMMA SumsExist == ASSUME NEW n \in Nat, NEW h, Terms(h, n) PROVE \E f : Sums(f, h, n)
<1> DEFINE T == {m \in 0 .. n : \E f : Sums(f, h, m)}
<1>1. 0 \in T
  <2>1. Sums([k \in 0 .. 0 |-> 0], h, 0)
    BY DEF Sums
  <2>2. QED
    BY <2>1
<1>2. ASSUME NEW k \in 0 .. n - 1, k \in T PROVE k + 1 \in T
  <2>1. PICK f : Sums(f, h, k)
    BY <1>2
  <2> DEFINE g == [i \in 0 .. k + 1 |-> IF i = k + 1 THEN f[k] + h[k] ELSE f[i]]
  <2>2. h[k] \in Int
    BY DEF Terms
  <2>3. f[k] + h[k] \in Int /\ \A i \in 0 .. k : g[i] = f[i] /\ f[i] \in Int
    BY <2>1, <2>2 DEF Sums
  <2>4. g \in [0 .. k + 1 -> Int] /\ g[0] = 0 /\ g[k + 1] = g[k] + h[k]
    BY <2>1, <2>3 DEF Sums
  <2> HIDE DEF g
  <2>5. \A i \in 1 .. k + 1 : g[i] = g[i - 1] + h[i - 1]
    <3> SUFFICES ASSUME NEW i \in 1 .. k + 1 PROVE g[i] = g[i - 1] + h[i - 1]
      OBVIOUS
    <3>1. CASE i = k + 1
      BY <2>4, <3>1
    <3>2. CASE i # k + 1
      <4>1. i \in 1 .. k /\ i \in 0 .. k /\ i - 1 \in 0 .. k
        BY <3>2
      <4>2. QED
        BY <2>1, <2>3, <4>1 DEF Sums
    <3>3. QED
      BY <3>1, <3>2
  <2>6. Sums(g, h, k + 1)
    BY <2>4, <2>5 DEF Sums
  <2>7. QED
    BY <2>6
<1> HIDE DEF T
<1>3. n \in T
  BY <1>1, <1>2, Induction
<1>4. QED
  BY <1>3 DEF T

LEMMA TotalIsSum == ASSUME NEW n \in Nat, NEW h, NEW f, Sums(f, h, n) PROVE Total(h, n) = f[n]
<1> DEFINE Def(g) == g = [k \in 0 .. n |-> IF k = 0 THEN 0 ELSE g[k - 1] + h[k - 1]]
           g == CHOOSE g : Def(g)
           T == {k \in 0 .. n : g[k] = f[k]}
<1>1. Def(f)
  BY DEF Sums
<1>2. Def(g)
  BY <1>1
<1>3. Total(h, n) = g[n]
  BY DEF Total
<1> HIDE DEF g
<1>4. 0 \in T
  BY <1>2 DEF Sums
<1>5. ASSUME NEW k \in 0 .. n - 1, k \in T PROVE k + 1 \in T
  <2>1. g[k + 1] = g[k] + h[k]
    BY <1>2
  <2>2. f[k + 1] = f[k] + h[k]
    BY DEF Sums
  <2>3. QED
    BY <1>5, <2>1, <2>2
<1> HIDE DEF T
<1>6. n \in T
  BY <1>4, <1>5, Induction
<1>7. QED
  BY <1>3, <1>6 DEF T

\* Adding nothing, and adding one term more.
LEMMA TotalSteps ==
  ASSUME NEW n \in Nat, NEW h, Terms(h, n)
  PROVE  /\ Total(h, 0) = 0 /\ Total(h, n) \in Int
         /\ \A k \in 0 .. n - 1 : Total(h, k) \in Int /\ Total(h, k + 1) = Total(h, k) + h[k]
<1>1. PICK f : Sums(f, h, n)
  BY SumsExist
<1>2. \A k \in 0 .. n : Total(h, k) = f[k]
  <2> SUFFICES ASSUME NEW k \in 0 .. n PROVE Total(h, k) = f[k]
    OBVIOUS
  <2> DEFINE g == [i \in 0 .. k |-> f[i]]
  <2>1. Sums(g, h, k)
    BY <1>1 DEF Sums
  <2>2. Total(h, k) = g[k]
    BY <2>1, TotalIsSum
  <2>3. QED
    BY <2>2
<1>3. QED
  BY <1>1, <1>2 DEF Sums

\* A sum of zeros.
LEMMA TotalOfZeros ==
  ASSUME NEW n \in Nat, NEW h, \A k \in 0 .. n - 1 : h[k] = 0
  PROVE  Total(h, n) = 0
<1> DEFINE T == {k \in 0 .. n : Total(h, k) = 0}
<1>1. Terms(h, n)
  BY DEF Terms
<1>2. 0 \in T /\ \A k \in 0 .. n - 1 : k \in T => k + 1 \in T
  BY <1>1, TotalSteps
<1> HIDE DEF T
<1>3. n \in T
  BY <1>2, Induction
<1>4. QED
  BY <1>3 DEF T

\* A sum of zeros and one other term.
LEMMA TotalOfOne ==
  ASSUME NEW n \in Nat, NEW h, NEW d \in 0 .. n - 1, NEW x \in Int,
         \A k \in 0 .. n - 1 : h[k] = IF k = d THEN x ELSE 0
  PROVE  Total(h, n) = x
<1> DEFINE T == {k \in 0 .. n : Total(h, k) = IF k > d THEN x ELSE 0}
<1>1. Terms(h, n)
  BY DEF Terms
<1>2. 0 \in T
  BY <1>1, TotalSteps
<1>3. ASSUME NEW k \in 0 .. n - 1, k \in T PROVE k + 1 \in T
  <2>1. Total(h, k + 1) = Total(h, k) + h[k]
    BY <1>1, TotalSteps
  <2>2. QED
    BY <1>3, <2>1
<1> HIDE DEF T
<1>4. n \in T
  BY <1>2, <1>3, Induction
<1>5. QED
  BY <1>4 DEF T

----------------------------------------------------------------------------
(* Residues. *)

\* What div and mod are.
LEMMA Division ==
  ASSUME NEW m \in Nat \ {0}, NEW x \in Int
  PROVE  x \div m \in Int /\ x % m \in 0 .. m - 1 /\ x = (x \div m) * m + (x % m)
OBVIOUS

LEMMA DivisionOf ==
  ASSUME NEW m \in Nat \ {0}, NEW i \in Int, NEW a \in 0 .. m - 1
  PROVE  (i * m + a) \div m = i /\ (i * m + a) % m = a
OBVIOUS

\* Quotient and remainder of a number below n * m.
LEMMA DivisionRange ==
  ASSUME NEW m \in Nat \ {0}, NEW n \in Nat \ {0}, NEW k \in 0 .. n * m - 1
  PROVE  k \div m \in 0 .. n - 1 /\ k % m \in 0 .. m - 1 /\ k = (k \div m) * m + (k % m)
<1> DEFINE q == k \div m
           r == k % m
<1>1. q \in Int /\ r \in 0 .. m - 1 /\ k = q * m + r /\ k \in Nat /\ k < n * m
  BY Division
<1> HIDE DEF q, r
<1>2. ASSUME q <= -1 PROVE FALSE
  <2>1. (-1 - q) * m >= 0
    BY <1>1, <1>2
  <2>2. q * m <= -m
    BY <1>1, <2>1
  <2>3. QED
    BY <1>1, <2>2
<1>3. ASSUME q >= n PROVE FALSE
  <2>1. (q - n) * m >= 0
    BY <1>1, <1>3
  <2>2. QED
    BY <1>1, <2>1
<1>4. q \in 0 .. n - 1
  BY <1>1, <1>2, <1>3
<1>5. QED
  BY <1>1, <1>4 DEF q, r

\* A multiple more does not change the residue.
LEMMA SameResidue ==
  ASSUME NEW m \in Nat \ {0}, NEW x \in Int, NEW y \in Int, NEW k \in Int, x = y + k * m
  PROVE  x % m = y % m
<1> DEFINE i == y \div m
           a == y % m
<1>1. i \in Int /\ a \in 0 .. m - 1 /\ y = i * m + a
  BY Division
<1> HIDE DEF i, a
<1>2. x = (i + k) * m + a /\ i + k \in Int
  BY <1>1
<1>3. x % m = a
  BY <1>1, <1>2, DivisionOf
<1>4. QED
  BY <1>3 DEF a

Congruent(m, x, y) == x % m = y % m

\* Sums and products of residues.
LEMMA AddResidues ==
  ASSUME NEW m \in Nat \ {0}, NEW x \in Int, NEW y \in Int, NEW u \in Int, NEW v \in Int,
         Congruent(m, x, u), Congruent(m, y, v)
  PROVE  Congruent(m, x + y, u + v)
<1> USE DEF Congruent
<1> DEFINE i == x \div m
           j == y \div m
           k == u \div m
           l == v \div m
<1>1. /\ i \in Int /\ j \in Int /\ k \in Int /\ l \in Int
      /\ x = i * m + (x % m) /\ y = j * m + (y % m) /\ u = k * m + (u % m) /\ v = l * m + (v % m)
  BY Division
<1> HIDE DEF i, j, k, l
<1>2. x - u = i * m - k * m /\ y - v = j * m - l * m
  BY <1>1
<1>3. x + y = (u + v) + (i - k + j - l) * m
  BY <1>1, <1>2
<1>4. \A d \in Int : x + y = (u + v) + d * m => (x + y) % m = (u + v) % m
  <2>1. x + y \in Int /\ u + v \in Int
    OBVIOUS
  <2>2. QED
    BY <2>1, SameResidue
<1>5. i - k + j - l \in Int
  BY <1>1
<1>6. QED
  BY <1>3, <1>4, <1>5

LEMMA MultiplyResidue ==
  ASSUME NEW m \in Nat \ {0}, NEW x \in Int, NEW y \in Int
  PROVE  ((x % m) * y) % m = (x * y) % m
<1> DEFINE i == x \div m
           a == x % m
<1>1. i \in Int /\ a \in Int /\ x = i * m + a
  BY Division
<1> HIDE DEF i, a
<1>2. x * y = a * y + (i * y) * m
  BY <1>1
<1>3. (x * y) % m = (a * y) % m
  <2>1. x * y \in Int /\ a * y \in Int /\ i * y \in Int
    BY <1>1
  <2>2. QED
    BY <1>2, <2>1, SameResidue
<1>4. QED
  BY <1>3 DEF a

\* Terms with the same residues have a sum with the same residue.
LEMMA TotalOfResidues ==
  ASSUME NEW n \in Nat, NEW m \in Nat \ {0}, NEW g, NEW h, Terms(g, n), Terms(h, n),
         \A k \in 0 .. n - 1 : g[k] % m = h[k] % m
  PROVE  Total(g, n) % m = Total(h, n) % m
<1> DEFINE T == {k \in 0 .. n : Total(g, k) % m = Total(h, k) % m}
<1>1. 0 \in T
  BY TotalSteps
<1>2. ASSUME NEW k \in 0 .. n - 1, k \in T PROVE k + 1 \in T
  <2>1. /\ Total(g, k) \in Int /\ Total(g, k + 1) = Total(g, k) + g[k] /\ g[k] \in Int
        /\ Total(h, k) \in Int /\ Total(h, k + 1) = Total(h, k) + h[k] /\ h[k] \in Int
    BY TotalSteps DEF Terms
  <2> DEFINE x == Total(g, k)
             y == g[k]
             u == Total(h, k)
             v == h[k]
  <2>2. Congruent(m, x + y, u + v)
    <3>1. x \in Int /\ y \in Int /\ u \in Int /\ v \in Int /\ Congruent(m, x, u) /\ Congruent(m, y, v)
      BY <1>2, <2>1 DEF Congruent
    <3> HIDE DEF x, y, u, v
    <3>2. QED
      BY <3>1, AddResidues
  <2>3. QED
    BY <2>1, <2>2 DEF Congruent
<1> HIDE DEF T
<1>3. n \in T
  BY <1>1, <1>2, Induction
<1>4. QED
  BY <1>3 DEF T

\* A number that can be told from its residue is the centered residue.
LEMMA CenteredOf ==
  ASSUME NEW m \in Nat \ {0}, NEW v \in Int, 2 * v <= m, -2 * v < m
  PROVE  centered_residue(v % m, m) = v
<1>1. CASE v >= 0
  <2>1. v % m = v /\ ~ (v > m \div 2)
    <3>1. v \in 0 .. m - 1
      BY <1>1
    <3>2. v % m = v
      BY <3>1
    <3>3. QED
      BY <3>2
  <2>2. QED
    BY <2>1 DEF centered_residue
<1>2. CASE v < 0
  <2>1. v % m = v + m
    <3>1. v + m \in 0 .. m - 1
      BY <1>2
    <3>2. v = (-1) * m + (v + m)
      OBVIOUS
    <3>3. QED
      BY <3>1, <3>2, DivisionOf
  <2>2. v + m > m \div 2
    OBVIOUS
  <2>3. QED
    BY <2>1, <2>2 DEF centered_residue
<1>3. QED
  BY <1>1, <1>2

----------------------------------------------------------------------------
(* The inductive invariant. *)

Residues == 0 .. PlaintextModulus - 1

Types ==
  /\ cluster_data \in [Clusters -> ClusterData]
  /\ query \in QueryEmbeddings /\ desired \in Clusters
  /\ phase \in Loops \cup {"reduce", "response", "done"} /\ next \in Nat
  /\ task \in [Workers -> [phase : Loops, idx : Nat] \cup {Idle}]
  /\ query_eval \in [Components -> Residues \cup {Null}]
  /\ rgsw_ct \in [Clusters -> {0, 1, Null}]
  /\ masked \in [Splits -> [Clusters -> [Coefficients -> Residues] \cup {Null}]]
  /\ final_result \in [Splits -> [Coefficients -> Residues]]
  /\ best \in Positions \cup {Null}

\* Threads work on different iterations of one loop.
TaskInv ==
  /\ IF phase \in Loops THEN next <= Iterations(phase) ELSE next = 0
  /\ \A w \in Workers : task[w] # Idle => task[w].phase = phase /\ task[w].idx < next
  /\ \A v, w \in Workers :
       v # w /\ task[v] # Idle /\ task[w] # Idle => task[v].idx # task[w].idx

Later(p) ==
  {"reduce", "response", "done"} \cup
    (CASE p = "rlwe" -> {"rgsw", "pairs"} [] p = "rgsw" -> {"pairs"} [] p = "pairs" -> {})

\* Iteration k of loop p has stored what it computes.
Finished(p, k) ==
  \/ phase \in Later(p)
  \/ phase = p /\ k < next /\ \A w \in Workers : ~ (task[w] # Idle /\ task[w].idx = k)

Bit(c) == IF c = desired THEN 1 ELSE 0
SplitScoreOf(c, s) ==
  [i \in Coefficients |->
     Total([j \in Components |-> (query[j] % PlaintextModulus) * BuildSplit(c, s)[j][i]],
           EmbeddingLength) % PlaintextModulus]
MaskedScore(c, s) == [i \in Coefficients |-> Bit(c) * SplitScoreOf(c, s)[i]]

\* A slot is filled once its iteration has finished, with the right value.
EvalInv ==
  \A j \in Components :
    query_eval[j] = IF Finished("rlwe", j) THEN query[j] % PlaintextModulus ELSE Null
SelectorInv ==
  \A c \in Clusters : rgsw_ct[c] = IF Finished("rgsw", c) THEN Bit(c) ELSE Null
MaskedInv ==
  \A c \in Clusters, s \in Splits :
    masked[s][c] = IF Finished("pairs", c * SplitsPerCluster + s) THEN MaskedScore(c, s) ELSE Null

ResultInv ==
  phase \in {"response", "done"} =>
    \A s \in Splits, i \in Coefficients : final_result[s][i] =
      Total([c \in Clusters |-> MaskedScore(c, s)[i]], NumClusters) % PlaintextModulus

BestInv == phase = "done" => best = FirstBest

IInv == Types /\ TaskInv /\ EvalInv /\ SelectorInv /\ MaskedInv /\ ResultInv /\ BestInv

----------------------------------------------------------------------------
(* Sizes and types. *)

\* The splits of a cluster have room for its documents.
LEMMA SplitFacts ==
  SplitsPerCluster \in Nat \ {0} /\ SplitsPerCluster * N >= ClusterSize
<1> USE ScoringAssumption
<1> DEFINE x == ClusterSize + N - 1
           q == x \div N
<1>0. x \in Nat
  OBVIOUS
<1>1. x \in Nat /\ q \in Int /\ x % N \in 0 .. N - 1 /\ x = q * N + (x % N)
  <2> HIDE DEF x
  <2>1. QED
    BY <1>0, Division
<1>2. q * N >= ClusterSize
  <2> DEFINE y == q * N
             r == x % N
  <2>1. y \in Int /\ r \in 0 .. N - 1 /\ ClusterSize + N - 1 = y + r
    BY <1>1
  <2> HIDE DEF y, r
  <2>2. y >= ClusterSize
    BY <2>1
  <2>3. QED
    BY <2>2 DEF y
<1>3. SplitsPerCluster = q
  BY DEF SplitsPerCluster
<1> HIDE DEF q
<1>4. q > 0
  BY <1>1, <1>2
<1>5. QED
  BY <1>1, <1>2, <1>3, <1>4

LEMMA Constants ==
  /\ {NumClusters, ClusterSize, EmbeddingLength, N, PlaintextModulus, SplitsPerCluster}
       \subseteq Nat \ {0}
  /\ \A r \in Residues : r # Null
  /\ \A f \in [Coefficients -> Residues] : f # Null
  /\ \A t \in [phase : Loops, idx : Nat] : t # Idle
  /\ 0 \in Residues
BY ScoringAssumption, SplitFacts DEF Residues, Loops

\* A split's values, and its masked score.
LEMMA ScoreFacts ==
  ASSUME Types, NEW c \in Clusters, NEW s \in Splits
  PROVE  /\ \A j \in Components : query[j] \in Int /\ query[j] % PlaintextModulus \in Residues
         /\ \A j \in Components, i \in Coefficients : BuildSplit(c, s)[j][i] \in Int
         /\ \A i \in Coefficients : SplitScoreOf(c, s)[i] \in Residues
         /\ \A i \in Coefficients : MaskedScore(c, s)[i] = IF c = desired THEN SplitScoreOf(c, s)[i] ELSE 0
         /\ SplitScoreOf(c, s) \in [Coefficients -> Residues] /\ MaskedScore(c, s) \in [Coefficients -> Residues]
<1> USE Constants
<1>1. ASSUME NEW j \in Components PROVE query[j] \in Int /\ query[j] % PlaintextModulus \in Residues
  <2>1. query[j] \in Int
    BY ScoringAssumption DEF Types
  <2>2. QED
    BY <2>1, Division DEF Residues
<1>2. ASSUME NEW j \in Components, NEW i \in Coefficients PROVE BuildSplit(c, s)[j][i] \in Int
  <2>1. s * N + i \in Nat
    BY DEF Splits, Coefficients
  <2>2. s * N + i < ClusterSize => s * N + i \in Documents
    BY <2>1 DEF Documents
  <2>3. cluster_data[c] \in [Documents -> [Components -> Int]]
    BY ScoringAssumption DEF Types
  <2>4. s * N + i < ClusterSize => cluster_data[c][s * N + i][j] \in Int
    BY <2>2, <2>3
  <2>5. QED
    BY <2>4 DEF BuildSplit
<1>3. ASSUME NEW i \in Coefficients PROVE SplitScoreOf(c, s)[i] \in Residues
  <2> DEFINE h == [j \in Components |-> (query[j] % PlaintextModulus) * BuildSplit(c, s)[j][i]]
  <2>1. \A j \in Components : h[j] \in Int
    <3> SUFFICES ASSUME NEW j \in Components PROVE h[j] \in Int
      OBVIOUS
    <3>1. query[j] % PlaintextModulus \in Int /\ BuildSplit(c, s)[j][i] \in Int
      BY <1>1, <1>2 DEF Residues
    <3>2. QED
      BY <3>1
  <2>2. SplitScoreOf(c, s)[i] = Total(h, EmbeddingLength) % PlaintextModulus
    BY DEF SplitScoreOf
  <2> HIDE DEF h
  <2>3. Total(h, EmbeddingLength) \in Int
    BY <2>1, TotalSteps DEF Terms, Components
  <2>4. QED
    BY <2>2, <2>3, Division DEF Residues
<1>4. ASSUME NEW i \in Coefficients
      PROVE  MaskedScore(c, s)[i] = IF c = desired THEN SplitScoreOf(c, s)[i] ELSE 0
  BY <1>3 DEF MaskedScore, Bit, Residues
<1>5. SplitScoreOf(c, s) \in [Coefficients -> Residues]
  BY <1>3 DEF SplitScoreOf
<1>6. MaskedScore(c, s) \in [Coefficients -> Residues]
  <2>1. \A i \in Coefficients : MaskedScore(c, s)[i] \in Residues
    BY <1>3, <1>4
  <2>2. QED
    BY <2>1 DEF MaskedScore
<1>7. QED
  BY <1>1, <1>2, <1>3, <1>4, <1>5, <1>6

LEMMA InitInv == Init => IInv
<1> SUFFICES ASSUME Init PROVE IInv
  OBVIOUS
<1> USE Constants DEF Init
<1>1. Types
  BY DEF Types, Loops
<1>2. TaskInv
  BY DEF TaskInv, Loops, Iterations
<1>3. \A p \in Loops, k \in Nat : ~ Finished(p, k)
  BY DEF Finished, Later, Loops
<1>4. EvalInv /\ SelectorInv /\ MaskedInv
  <2>1. \A c \in Clusters, s \in Splits : c * SplitsPerCluster + s \in Nat
    BY DEF Clusters, Splits
  <2>2. EvalInv /\ SelectorInv
    BY <1>3 DEF EvalInv, SelectorInv, Loops, Components, Clusters
  <2>3. MaskedInv
    BY <1>3, <2>1 DEF MaskedInv, Loops
  <2>4. QED
    BY <2>2, <2>3
<1>5. ResultInv /\ BestInv
  BY DEF ResultInv, BestInv
<1>6. QED
  BY <1>1, <1>2, <1>4, <1>5 DEF IInv

----------------------------------------------------------------------------
(* The loops. *)

\* What the slots hold does not change when the finished iterations do not.
LEMMA SlotsStay ==
  ASSUME EvalInv, SelectorInv, MaskedInv,
         UNCHANGED <<cluster_data, query, desired, query_eval, rgsw_ct, masked>>,
         \A j \in Components : Finished("rlwe", j)' <=> Finished("rlwe", j),
         \A c \in Clusters : Finished("rgsw", c)' <=> Finished("rgsw", c),
         \A c \in Clusters, s \in Splits :
           Finished("pairs", c * SplitsPerCluster + s)' <=> Finished("pairs", c * SplitsPerCluster + s)
  PROVE  EvalInv' /\ SelectorInv' /\ MaskedInv'
<1>1. EvalInv'
  BY DEF EvalInv
<1>2. SelectorInv'
  BY DEF SelectorInv, Bit
<1>3. \A c \in Clusters, s \in Splits : MaskedScore(c, s)' = MaskedScore(c, s)
  BY DEF MaskedScore, SplitScoreOf, Bit, BuildSplit
<1>4. MaskedInv'
  BY <1>3 DEF MaskedInv
<1>5. QED
  BY <1>1, <1>2, <1>4

\* The orders of the pairs are the iterations of their loop.
LEMMA PairFacts ==
  /\ \A c \in Clusters, s \in Splits :
       LET k == c * SplitsPerCluster + s
       IN  k \in 0 .. NumClusters * SplitsPerCluster - 1 /\ Pair(k) = [cluster |-> c, split |-> s]
  /\ \A k \in 0 .. NumClusters * SplitsPerCluster - 1 :
       /\ Pair(k).cluster \in Clusters /\ Pair(k).split \in Splits
       /\ k = Pair(k).cluster * SplitsPerCluster + Pair(k).split
<1> DEFINE S == SplitsPerCluster
<1>0. S \in Nat \ {0} /\ NumClusters \in Nat \ {0}
  BY Constants
<1>1. ASSUME NEW c \in Clusters, NEW s \in Splits
      PROVE  /\ c * S + s \in 0 .. NumClusters * S - 1
             /\ Pair(c * S + s) = [cluster |-> c, split |-> s]
  <2>1. c \in Nat /\ s \in 0 .. S - 1 /\ NumClusters - 1 - c \in Nat
    BY <1>0 DEF Clusters, Splits
  <2>2. (c * S + s) \div S = c /\ (c * S + s) % S = s
    BY <1>0, <2>1, DivisionOf
  <2>3. (NumClusters - 1 - c) * S >= 0 /\ c * S \in Nat
    BY <1>0, <2>1
  <2>4. NumClusters * S = (NumClusters - 1 - c) * S + S + c * S
    BY <1>0, <2>1
  <2>5. c * S + s \in 0 .. NumClusters * S - 1
    BY <1>0, <2>1, <2>3, <2>4
  <2>6. QED
    BY <2>2, <2>5 DEF Pair
<1>2. ASSUME NEW k \in 0 .. NumClusters * S - 1
      PROVE  /\ Pair(k).cluster \in Clusters /\ Pair(k).split \in Splits
             /\ k = Pair(k).cluster * S + Pair(k).split
  BY <1>0, DivisionRange DEF Pair, Clusters, Splits
<1>3. QED
  BY <1>1, <1>2

\* A thread takes an iteration that none has taken: none finishes.
LEMMA TakeInv == ASSUME IInv, NEW w \in Workers, Take(w) PROVE IInv'
<1> USE DEF IInv, Take
<1>1. next < Iterations(phase) /\ phase \in Loops /\ next \in Nat /\ Iterations(phase) \in Nat
  BY Constants DEF Types, Iterations, Loops
<1>2. \A v \in Workers : task'[v] = IF v = w THEN [phase |-> phase, idx |-> next] ELSE task[v]
  BY DEF Types
<1>3. [phase |-> phase, idx |-> next] # Idle
  BY <1>1, Constants
<1>4. Types'
  BY <1>1 DEF Types
<1>5. TaskInv'
  <2>1. \A v \in Workers : task[v] # Idle => task[v].phase = phase /\ task[v].idx < next /\ task[v].idx \in Nat
    BY DEF TaskInv, Types
  <2>2. next' <= Iterations(phase')
    BY <1>1
  <2>3. \A v \in Workers : task'[v] # Idle => task'[v].phase = phase' /\ task'[v].idx < next'
    BY <1>1, <1>2, <2>1
  <2>4. \A u, v \in Workers :
          u # v /\ task'[u] # Idle /\ task'[v] # Idle => task'[u].idx # task'[v].idx
    BY <1>1, <1>2, <2>1 DEF TaskInv
  <2>5. QED
    BY <1>1, <2>2, <2>3, <2>4 DEF TaskInv
<1>6. ASSUME NEW p, NEW k \in Nat PROVE Finished(p, k)' <=> Finished(p, k)
  <2>1. CASE phase # p
    BY <2>1 DEF Finished, Later
  <2>2. CASE phase = p
    <3>1. Later(p)' = Later(p)
      BY DEF Later
    <3>2. k < next' <=> k < next \/ k = next
      BY <1>1
    <3>3. (\A v \in Workers : ~ (task'[v] # Idle /\ task'[v].idx = k))
            <=> (\A v \in Workers : ~ (task[v] # Idle /\ task[v].idx = k)) /\ k # next
      BY <1>2, <1>3
    <3>4. QED
      BY <1>1, <3>1, <3>2, <3>3 DEF Finished
  <2>3. QED
    BY <2>1, <2>2
<1>7. EvalInv' /\ SelectorInv' /\ MaskedInv'
  <2>1. \A j \in Components : Finished("rlwe", j)' <=> Finished("rlwe", j)
    BY <1>6 DEF Components
  <2>2. \A c \in Clusters : Finished("rgsw", c)' <=> Finished("rgsw", c)
    BY <1>6 DEF Clusters
  <2>3. \A k \in 0 .. NumClusters * SplitsPerCluster - 1 : Finished("pairs", k)' <=> Finished("pairs", k)
    BY <1>6
  <2>4. QED
    BY <2>1, <2>2, <2>3, PairFacts, SlotsStay
<1>8. ResultInv' /\ BestInv'
  BY DEF ResultInv, BestInv, Loops
<1>9. QED
  BY <1>4, <1>5, <1>7, <1>8

\* At the barrier the iterations of the loop have all finished.
LEMMA BarrierInv == ASSUME IInv, Barrier PROVE IInv'
<1> USE DEF IInv, Barrier, EndLoop
<1>1. /\ phase \in Loops /\ phase' = After(phase) /\ next' = 0 /\ next = Iterations(phase)
      /\ \A w \in Workers : task[w] = Idle /\ task'[w] = Idle
  OBVIOUS
<1>2. phase' \in Loops \cup {"reduce"}
  BY <1>1 DEF After, Loops
<1>3. Types'
  BY <1>2 DEF Types
<1>4. TaskInv'
  BY <1>1, Constants DEF TaskInv, Loops, Iterations, After
<1>5. ASSUME NEW p \in Loops, NEW k \in 0 .. Iterations(p) - 1
      PROVE  Finished(p, k)' <=> Finished(p, k)
  <2>1. CASE phase = p
    <3>1. phase' \in Later(p)'
      BY <1>1, <2>1 DEF After, Later, Loops
    <3>2. Iterations(p) \in Nat
      BY Constants DEF Iterations, Loops
    <3>3. k < next
      BY <1>1, <2>1, <3>2
    <3>4. QED
      BY <1>1, <2>1, <3>1, <3>3 DEF Finished
  <2>2. CASE phase # p
    <3>1. ~ (k < next')
      BY <1>1
    <3>2. phase \in Later(p) <=> phase' \in Later(p)'
      BY <1>1, <2>2 DEF After, Later, Loops
    <3>3. QED
      BY <2>2, <3>1, <3>2 DEF Finished
  <2>3. QED
    BY <2>1, <2>2
<1>6. EvalInv' /\ SelectorInv' /\ MaskedInv'
  <2>1. \A j \in Components : Finished("rlwe", j)' <=> Finished("rlwe", j)
    BY <1>5 DEF Loops, Iterations, Components
  <2>2. \A c \in Clusters : Finished("rgsw", c)' <=> Finished("rgsw", c)
    BY <1>5 DEF Loops, Iterations, Clusters
  <2>3. \A k \in 0 .. NumClusters * SplitsPerCluster - 1 : Finished("pairs", k)' <=> Finished("pairs", k)
    BY <1>5 DEF Loops, Iterations
  <2>4. QED
    BY <2>1, <2>2, <2>3, PairFacts, SlotsStay
<1>7. ResultInv' /\ BestInv'
  BY <1>2 DEF ResultInv, BestInv, Loops
<1>8. QED
  BY <1>3, <1>4, <1>6, <1>7

\* A thread ends its iteration: that one has finished, and was not before.
LEMMA FinishFacts ==
  ASSUME Types, TaskInv, NEW w \in Workers, task[w] # Idle, Finish(w)
  PROVE  /\ TaskInv' /\ phase \in Loops /\ task' \in [Workers -> [phase : Loops, idx : Nat] \cup {Idle}]
         /\ task[w].phase = phase /\ task[w].idx \in 0 .. Iterations(phase) - 1
         /\ ~ Finished(phase, task[w].idx)
         /\ \A p, k : Finished(p, k)' <=> Finished(p, k) \/ (p = phase /\ k = task[w].idx)
<1> USE DEF Finish
<1>1. task[w] \in [phase : Loops, idx : Nat] /\ task[w].phase = phase /\ task[w].idx < next
  BY DEF Types, TaskInv
<1>2. phase \in Loops /\ task[w].idx \in Nat /\ next <= Iterations(phase) /\ Iterations(phase) \in Nat /\ next \in Nat
  BY <1>1, Constants DEF TaskInv, Types, Iterations, Loops
<1>3. \A v \in Workers : task'[v] = IF v = w THEN Idle ELSE task[v]
  BY DEF Types
<1>4. TaskInv'
  BY <1>3 DEF TaskInv
<1>5. phase \notin Later(phase)
  BY <1>2 DEF Later, Loops
<1>6. ~ Finished(phase, task[w].idx)
  BY <1>5 DEF Finished
<1>7. ASSUME NEW p, NEW k
      PROVE  Finished(p, k)' <=> Finished(p, k) \/ (p = phase /\ k = task[w].idx)
  <2>1. CASE p # phase
    BY <2>1 DEF Finished, Later
  <2>2. CASE p = phase /\ k = task[w].idx
    <3>1. \A v \in Workers : ~ (task'[v] # Idle /\ task'[v].idx = k)
      BY <1>3, <2>2 DEF TaskInv
    <3>2. QED
      BY <1>1, <2>2, <3>1 DEF Finished
  <2>3. CASE p = phase /\ k # task[w].idx
    <3>1. (\A v \in Workers : ~ (task'[v] # Idle /\ task'[v].idx = k))
            <=> \A v \in Workers : ~ (task[v] # Idle /\ task[v].idx = k)
      BY <1>3, <2>3
    <3>2. Later(p)' = Later(p)
      BY DEF Later
    <3>3. QED
      BY <2>3, <3>1, <3>2 DEF Finished
  <2>4. QED
    BY <2>1, <2>2, <2>3
<1>8. task[w].idx \in 0 .. Iterations(phase) - 1
  BY <1>1, <1>2
<1>9. task' \in [Workers -> [phase : Loops, idx : Nat] \cup {Idle}]
  BY DEF Types
<1>10. QED
  BY <1>1, <1>2, <1>4, <1>6, <1>7, <1>8, <1>9

LEMMA SwitchEmbeddingInv == ASSUME IInv, NEW w \in Workers, SwitchEmbedding(w) PROVE IInv'
<1> USE DEF IInv
<1> DEFINE j == task[w].idx
<1>1. task[w] # Idle /\ task[w].phase = "rlwe" /\ Finish(w)
  BY DEF SwitchEmbedding, Running
<1>2. /\ TaskInv' /\ phase = "rlwe" /\ task' \in [Workers -> [phase : Loops, idx : Nat] \cup {Idle}]
      /\ j \in Components
      /\ \A p, k : Finished(p, k)' <=> Finished(p, k) \/ (p = "rlwe" /\ k = j)
  BY <1>1, FinishFacts DEF Iterations, Components
<1> HIDE DEF j
<1>3. /\ query_eval' = [query_eval EXCEPT ![j] = query[j] % PlaintextModulus]
      /\ UNCHANGED <<cluster_data, query, desired, phase, next, final_result, best, rgsw_ct, masked>>
  BY DEF SwitchEmbedding, Finish, j
<1>4. query[j] % PlaintextModulus \in Residues
  BY <1>2, Division, Constants, ScoringAssumption DEF Types, Residues
<1>5. Types'
  <2>1. query_eval' \in [Components -> Residues \cup {Null}]
    BY <1>2, <1>3, <1>4 DEF Types
  <2>2. QED
    BY <1>2, <1>3, <2>1 DEF Types
<1>6. EvalInv'
  <2>1. query_eval \in [Components -> Residues \cup {Null}]
    BY DEF Types
  <2>2. \A i \in Components : query_eval'[i] = IF i = j THEN query[i] % PlaintextModulus ELSE query_eval[i]
    BY <1>3, <2>1
  <2>3. QED
    BY <1>2, <1>3, <2>2 DEF EvalInv
<1>7. SelectorInv'
  BY <1>2, <1>3 DEF SelectorInv, Bit
<1>8. MaskedInv'
  <2>1. \A c \in Clusters, s \in Splits : MaskedScore(c, s)' = MaskedScore(c, s)
    BY <1>3 DEF MaskedScore, SplitScoreOf, Bit, BuildSplit
  <2>2. QED
    BY <1>2, <1>3, <2>1 DEF MaskedInv
<1>9. ResultInv' /\ BestInv'
  BY <1>2, <1>3 DEF ResultInv, BestInv
<1>10. QED
  BY <1>2, <1>5, <1>6, <1>7, <1>8, <1>9

LEMMA SwitchSelectorInv == ASSUME IInv, NEW w \in Workers, SwitchSelector(w) PROVE IInv'
<1> USE DEF IInv
<1> DEFINE c == task[w].idx
<1>1. task[w] # Idle /\ task[w].phase = "rgsw" /\ Finish(w)
  BY DEF SwitchSelector, Running
<1>2. /\ TaskInv' /\ phase = "rgsw" /\ task' \in [Workers -> [phase : Loops, idx : Nat] \cup {Idle}]
      /\ c \in Clusters
      /\ \A p, k : Finished(p, k)' <=> Finished(p, k) \/ (p = "rgsw" /\ k = c)
  BY <1>1, FinishFacts DEF Iterations, Clusters
<1> HIDE DEF c
<1>3. /\ rgsw_ct' = [rgsw_ct EXCEPT ![c] = Bit(c)]
      /\ UNCHANGED <<cluster_data, query, desired, phase, next, final_result, best, query_eval, masked>>
  BY DEF SwitchSelector, Finish, c, Bit
<1>4. Types'
  <2>1. rgsw_ct' \in [Clusters -> {0, 1, Null}]
    BY <1>2, <1>3 DEF Types, Bit
  <2>2. QED
    BY <1>2, <1>3, <2>1 DEF Types
<1>5. EvalInv'
  BY <1>2, <1>3 DEF EvalInv
<1>6. SelectorInv'
  <2>1. rgsw_ct \in [Clusters -> {0, 1, Null}]
    BY DEF Types
  <2>2. \A i \in Clusters : rgsw_ct'[i] = IF i = c THEN Bit(i) ELSE rgsw_ct[i]
    BY <1>3, <2>1
  <2>3. QED
    BY <1>2, <1>3, <2>2 DEF SelectorInv, Bit
<1>7. MaskedInv'
  <2>1. \A i \in Clusters, s \in Splits : MaskedScore(i, s)' = MaskedScore(i, s)
    BY <1>3 DEF MaskedScore, SplitScoreOf, Bit, BuildSplit
  <2>2. QED
    BY <1>2, <1>3, <2>1 DEF MaskedInv
<1>8. ResultInv' /\ BestInv'
  BY <1>2, <1>3 DEF ResultInv, BestInv
<1>9. QED
  BY <1>2, <1>4, <1>5, <1>6, <1>7, <1>8

LEMMA ScorePairInv == ASSUME IInv, NEW w \in Workers, ScorePair(w) PROVE IInv'
<1> USE DEF IInv
<1> DEFINE k == task[w].idx
           c == Pair(k).cluster
           s == Pair(k).split
<1>1. task[w] # Idle /\ task[w].phase = "pairs" /\ Finish(w)
  BY DEF ScorePair, Running
<1>2. /\ TaskInv' /\ phase = "pairs" /\ task' \in [Workers -> [phase : Loops, idx : Nat] \cup {Idle}]
      /\ k \in 0 .. NumClusters * SplitsPerCluster - 1
      /\ \A p, i : Finished(p, i)' <=> Finished(p, i) \/ (p = "pairs" /\ i = k)
  BY <1>1, FinishFacts DEF Iterations
<1>3. c \in Clusters /\ s \in Splits /\ k = c * SplitsPerCluster + s
  BY <1>2, PairFacts
<1>4. /\ masked' = [masked EXCEPT ![s][c] =
           [i \in Coefficients |-> SelectorBit(c) * SplitScore(BuildSplit(c, s))[i]]]
      /\ UNCHANGED <<cluster_data, query, desired, phase, next, final_result, best, query_eval, rgsw_ct>>
  BY DEF ScorePair, Finish
<1> HIDE DEF k, c, s
<1>5. [i \in Coefficients |-> SelectorBit(c) * SplitScore(BuildSplit(c, s))[i]] = MaskedScore(c, s)
  <2>1. \A j \in Components : query_eval[j] = query[j] % PlaintextModulus
    BY <1>2 DEF EvalInv, Finished, Later
  <2>2. SelectorBit(c) = Bit(c)
    BY <1>2, <1>3 DEF SelectorInv, Finished, Later, SelectorBit
  <2>3. SplitScore(BuildSplit(c, s)) = SplitScoreOf(c, s)
    <3>1. \A i \in Coefficients :
            [j \in Components |-> query_eval[j] * BuildSplit(c, s)[j][i]]
              = [j \in Components |-> (query[j] % PlaintextModulus) * BuildSplit(c, s)[j][i]]
      BY <2>1
    <3>2. QED
      BY <3>1 DEF SplitScore, SplitScoreOf
  <2>4. QED
    BY <2>2, <2>3 DEF MaskedScore
<1>6. MaskedScore(c, s) \in [Coefficients -> Residues]
  BY <1>3, ScoreFacts
<1>7. masked' \in [Splits -> [Clusters -> [Coefficients -> Residues] \cup {Null}]]
      /\ \A t \in Splits, d \in Clusters :
           masked'[t][d] = IF t = s /\ d = c THEN MaskedScore(c, s) ELSE masked[t][d]
  <2>1. masked \in [Splits -> [Clusters -> [Coefficients -> Residues] \cup {Null}]]
    BY DEF Types
  <2>2. masked' = [masked EXCEPT ![s][c] = MaskedScore(c, s)]
    BY <1>4, <1>5
  <2> HIDE DEF IInv
  <2>3. masked' = [masked EXCEPT ![s] = [masked[s] EXCEPT ![c] = MaskedScore(c, s)]]
    BY <2>2
  <2>4. [masked[s] EXCEPT ![c] = MaskedScore(c, s)] \in [Clusters -> [Coefficients -> Residues] \cup {Null}]
    BY <1>3, <1>6, <2>1
  <2>5. QED
    BY <1>3, <2>1, <2>3, <2>4
<1>8. Types'
  BY <1>2, <1>4, <1>7 DEF Types
<1>9. EvalInv'
  BY <1>2, <1>4 DEF EvalInv
<1>10. SelectorInv'
  BY <1>2, <1>4 DEF SelectorInv, Bit
<1>11. MaskedInv'
  <2> SUFFICES ASSUME NEW d \in Clusters, NEW t \in Splits
               PROVE  masked'[t][d] =
                        IF Finished("pairs", d * SplitsPerCluster + t)' THEN MaskedScore(d, t) ELSE Null
    <3>1. \A d \in Clusters, t \in Splits : MaskedScore(d, t)' = MaskedScore(d, t)
      BY <1>4 DEF MaskedScore, SplitScoreOf, Bit, BuildSplit
    <3>2. QED
      BY <3>1 DEF MaskedInv
  <2>1. d * SplitsPerCluster + t = k <=> d = c /\ t = s
    <3>1. Pair(d * SplitsPerCluster + t) = [cluster |-> d, split |-> t]
      BY PairFacts
    <3>2. QED
      BY <1>3, <3>1 DEF c, s
  <2>2. Finished("pairs", d * SplitsPerCluster + t)'
          <=> Finished("pairs", d * SplitsPerCluster + t) \/ (d = c /\ t = s)
    BY <1>2, <2>1
  <2>3. QED
    BY <1>7, <2>2 DEF MaskedInv
<1>12. ResultInv' /\ BestInv'
  BY <1>2, <1>4 DEF ResultInv, BestInv
<1>13. QED
  BY <1>2, <1>8, <1>9, <1>10, <1>11, <1>12

----------------------------------------------------------------------------
(* The reduction and the client. *)

\* The sum of the masked scores is the desired cluster's score.
LEMMA ReducedScore ==
  ASSUME Types, NEW s \in Splits, NEW i \in Coefficients
  PROVE  Total([c \in Clusters |-> MaskedScore(c, s)[i]], NumClusters) = SplitScoreOf(desired, s)[i]
<1> DEFINE h == [c \in Clusters |-> MaskedScore(c, s)[i]]
           x == SplitScoreOf(desired, s)[i]
<1>1. desired \in Clusters /\ x \in Int
  BY ScoreFacts DEF Types, Residues
<1>2. \A c \in Clusters : h[c] = IF c = desired THEN x ELSE 0
  BY ScoreFacts
<1> HIDE DEF h, x
<1>3. Total(h, NumClusters) = x
  <2>1. desired \in 0 .. NumClusters - 1 /\ NumClusters \in Nat
        /\ \A c \in 0 .. NumClusters - 1 : h[c] = IF c = desired THEN x ELSE 0
    BY <1>1, <1>2, Constants DEF Clusters
  <2>2. QED
    BY <1>1, <2>1, TotalOfOne
<1>4. QED
  BY <1>3 DEF h, x

LEMMA ReduceInv == ASSUME IInv, Reduce PROVE IInv'
<1> USE DEF IInv, Reduce
<1>1. \A c \in Clusters, s \in Splits : masked[s][c] = MaskedScore(c, s)
  BY DEF MaskedInv, Finished, Later
<1>2. \A s \in Splits, i \in Coefficients : final_result'[s][i] =
        Total([c \in Clusters |-> MaskedScore(c, s)[i]], NumClusters) % PlaintextModulus
  <2>1. \A s \in Splits, i \in Coefficients :
          [c \in Clusters |-> masked[s][c][i]] = [c \in Clusters |-> MaskedScore(c, s)[i]]
    BY <1>1
  <2>2. QED
    BY <2>1
<1>3. final_result' \in [Splits -> [Coefficients -> Residues]]
  <2>1. \A s \in Splits, i \in Coefficients : final_result'[s][i] \in Residues
    <3> SUFFICES ASSUME NEW s \in Splits, NEW i \in Coefficients PROVE final_result'[s][i] \in Residues
      OBVIOUS
    <3>1. desired \in Clusters /\ SplitScoreOf(desired, s)[i] \in Int
      BY ScoreFacts DEF Types, Residues
    <3>2. final_result'[s][i] = SplitScoreOf(desired, s)[i] % PlaintextModulus
      BY <1>2, ReducedScore
    <3>3. QED
      BY <3>1, <3>2, Division, Constants DEF Residues
  <2>2. QED
    BY <2>1
<1>4. Types'
  BY <1>3 DEF Types, Loops
<1>5. TaskInv'
  <2>1. \A w \in Workers : task[w] = Idle
    BY DEF TaskInv, Types, Loops
  <2>2. QED
    BY <2>1 DEF TaskInv, Loops
<1>6. EvalInv' /\ SelectorInv' /\ MaskedInv'
  <2>1. \A k : \A p \in Loops : Finished(p, k)' <=> Finished(p, k)
    BY DEF Finished, Later, Loops
  <2>2. EvalInv /\ SelectorInv /\ MaskedInv
        /\ UNCHANGED <<cluster_data, query, desired, query_eval, rgsw_ct, masked>>
    OBVIOUS
  <2>3. \A k : Finished("rlwe", k)' <=> Finished("rlwe", k)
    BY <2>1 DEF Loops
  <2>4. \A k : Finished("rgsw", k)' <=> Finished("rgsw", k)
    BY <2>1 DEF Loops
  <2>5. \A k : Finished("pairs", k)' <=> Finished("pairs", k)
    BY <2>1 DEF Loops
  <2> HIDE DEF IInv, Reduce, DecryptAndFindBest
  <2>6. QED
    BY <2>2, <2>3, <2>4, <2>5, SlotsStay
<1>7. ResultInv'
  <2>1. \A c \in Clusters, s \in Splits : MaskedScore(c, s)' = MaskedScore(c, s)
    BY DEF MaskedScore, SplitScoreOf, Bit, BuildSplit
  <2>2. QED
    BY <1>2, <2>1 DEF ResultInv
<1>8. BestInv'
  BY DEF BestInv
<1>9. QED
  BY <1>4, <1>5, <1>6, <1>7, <1>8

\* One of finitely many numbers is the greatest.
LEMMA Greatest ==
  ASSUME NEW n \in Nat \ {0}, NEW f, \A k \in 0 .. n - 1 : f[k] \in Int
  PROVE  \E k \in 0 .. n - 1 : \A l \in 0 .. n - 1 : f[l] <= f[k]
<1> DEFINE T == {m \in 0 .. n - 1 : \E k \in 0 .. m : \A l \in 0 .. m : f[l] <= f[k]}
<1>1. 0 \in T
  OBVIOUS
<1>2. ASSUME NEW m \in 0 .. n - 2, m \in T PROVE m + 1 \in T
  <2>1. PICK k \in 0 .. m : \A l \in 0 .. m : f[l] <= f[k]
    BY <1>2
  <2>2. \A l \in 0 .. m + 1 : l \in 0 .. m \/ l = m + 1
    OBVIOUS
  <2>3. CASE f[m + 1] <= f[k]
    <3>1. \A l \in 0 .. m + 1 : f[l] <= f[k]
      BY <2>1, <2>2, <2>3
    <3>2. QED
      BY <3>1
  <2>4. CASE ~ (f[m + 1] <= f[k])
    <3>1. \A l \in 0 .. m + 1 : f[l] <= f[m + 1]
      BY <2>1, <2>2, <2>4
    <3>2. QED
      BY <3>1
  <2>5. QED
    BY <2>3, <2>4
<1> HIDE DEF T
<1>3. n - 1 \in T
  BY <1>1, <1>2, Induction
<1>4. QED
  BY <1>3 DEF T

\* The client's result is the first position with the greatest decoded score.
LEMMA FirstBestFacts ==
  ASSUME Types
  PROVE  /\ FirstBest \in Positions
         /\ \A l \in Positions : Decoded(l) <= Decoded(FirstBest)
         /\ \A l \in Positions : l < FirstBest => Decoded(l) < Decoded(FirstBest)
<1> DEFINE n == SplitsPerCluster * N
           f == [k \in Positions |-> Decoded(k)]
           Best == {k \in Positions : \A l \in Positions : Decoded(l) <= Decoded(k)}
<1>1. \A k \in Positions : Decoded(k) \in Int
  <2> SUFFICES ASSUME NEW k \in Positions PROVE Decoded(k) \in Int
    OBVIOUS
  <2>1. k \div N \in Splits /\ k % N \in Coefficients
    BY DivisionRange, Constants DEF Positions, Splits, Coefficients
  <2>2. final_result[k \div N][k % N] \in Int
    BY <2>1 DEF Types, Residues
  <2>3. QED
    BY <2>2, Constants DEF Decoded, CenteredResidue, centered_residue
<1>2. n \in Nat \ {0}
  BY SplitFacts, Constants
<1>3. Best # {}
  <2>1. \A k \in 0 .. n - 1 : f[k] \in Int
    BY <1>1 DEF Positions
  <2> HIDE DEF n
  <2>2. \E k \in 0 .. n - 1 : \A l \in 0 .. n - 1 : f[l] <= f[k]
    <3> HIDE DEF f
    <3>1. QED
      BY <1>2, <2>1, Greatest
  <2>3. QED
    BY <2>2 DEF Positions, n
<1>4. \E k \in Best : \A l \in Best : k <= l
  <2>1. Best \subseteq Nat
    BY DEF Positions
  <2> HIDE DEF Best
  <2>2. QED
    BY <1>3, <2>1, LeastNumber
<1>5. FirstBest = CHOOSE k \in Best : \A l \in Best : k <= l
  BY DEF FirstBest, Min
<1>6. FirstBest \in Best /\ \A l \in Best : FirstBest <= l
  <2> HIDE DEF Best
  <2>1. QED
    BY <1>4, <1>5
<1>7. ASSUME NEW l \in Positions, l < FirstBest PROVE Decoded(l) < Decoded(FirstBest)
  <2>1. Positions \subseteq Nat
    BY DEF Positions
  <2>2. l \notin Best
    <3> HIDE DEF Best
    <3>1. l \in Nat /\ FirstBest \in Nat
      BY <1>6, <2>1 DEF Best
    <3>2. QED
      BY <1>6, <1>7, <3>1
  <2>3. PICK m \in Positions : ~ (Decoded(m) <= Decoded(l))
    BY <2>2
  <2>4. Decoded(m) <= Decoded(FirstBest)
    BY <1>6
  <2>5. QED
    BY <1>1, <1>6, <2>3, <2>4
<1>8. QED
  BY <1>6, <1>7

LEMMA DecryptInv == ASSUME IInv, DecryptAndFindBest PROVE IInv'
<1> USE DEF IInv, DecryptAndFindBest
<1>1. FirstBest \in Positions
  BY FirstBestFacts
<1>2. Types'
  BY <1>1 DEF Types
<1>3. TaskInv'
  <2>1. \A w \in Workers : task[w] = Idle
    BY DEF TaskInv, Types, Loops
  <2>2. QED
    BY <2>1 DEF TaskInv, Loops
<1>4. EvalInv' /\ SelectorInv' /\ MaskedInv'
  <2>1. \A k : \A p \in Loops : Finished(p, k)' <=> Finished(p, k)
    BY DEF Finished, Later, Loops
  <2>2. EvalInv /\ SelectorInv /\ MaskedInv
        /\ UNCHANGED <<cluster_data, query, desired, query_eval, rgsw_ct, masked>>
    OBVIOUS
  <2>3. \A k : Finished("rlwe", k)' <=> Finished("rlwe", k)
    BY <2>1 DEF Loops
  <2>4. \A k : Finished("rgsw", k)' <=> Finished("rgsw", k)
    BY <2>1 DEF Loops
  <2>5. \A k : Finished("pairs", k)' <=> Finished("pairs", k)
    BY <2>1 DEF Loops
  <2> HIDE DEF IInv, Reduce, DecryptAndFindBest
  <2>6. QED
    BY <2>2, <2>3, <2>4, <2>5, SlotsStay
<1>5. ResultInv'
  <2>1. \A c \in Clusters, s \in Splits : MaskedScore(c, s)' = MaskedScore(c, s)
    BY DEF MaskedScore, SplitScoreOf, Bit, BuildSplit
  <2>2. QED
    BY <2>1 DEF ResultInv
<1>6. BestInv'
  BY DEF BestInv, FirstBest, Decoded
<1>7. QED
  BY <1>2, <1>3, <1>4, <1>5, <1>6

LEMMA StutterInv == ASSUME IInv, UNCHANGED vars PROVE IInv'
<1> USE DEF IInv, vars
<1>1. Types' /\ TaskInv'
  BY DEF Types, TaskInv
<1>2. EvalInv' /\ SelectorInv' /\ MaskedInv'
  <2>1. \A p, k : Finished(p, k)' <=> Finished(p, k)
    BY DEF Finished, Later
  <2>2. QED
    BY <2>1, SlotsStay
<1>3. ResultInv'
  <2>1. \A c \in Clusters, s \in Splits : MaskedScore(c, s)' = MaskedScore(c, s)
    BY DEF MaskedScore, SplitScoreOf, Bit, BuildSplit
  <2>2. QED
    BY <2>1 DEF ResultInv
<1>4. BestInv'
  BY DEF BestInv, FirstBest, Decoded
<1>5. QED
  BY <1>1, <1>2, <1>3, <1>4

LEMMA NextInv == IInv /\ [Next]_vars => IInv'
BY TakeInv, SwitchEmbeddingInv, SwitchSelectorInv, ScorePairInv, BarrierInv, ReduceInv, DecryptInv,
   StutterInv DEF Next, Step, Sequential

LEMMA InvariantHolds == Spec => []IInv
BY InitInv, NextInv, PTL DEF Spec

----------------------------------------------------------------------------
(* The properties. *)

\* A thread that scores a pair finds every pointer it reads filled, and so does
\* the reduction, for any number of threads and any schedule of the loops.
THEOREM LoopsAreOrdered == Spec => []InputsReady
<1>1. IInv => InputsReady
  <2> SUFFICES ASSUME IInv PROVE InputsReady
    OBVIOUS
  <2> USE DEF IInv
  <2>1. TypeOK
    <3>1. \A w \in Workers : task[w] = Idle \/ (Running(w, phase) /\ task[w].idx < next)
      BY DEF TaskInv, Running
    <3>2. \A s \in Splits, c \in Clusters :
            masked[s][c] = Null \/ masked[s][c] \in [Coefficients -> Residues]
      BY DEF Types
    <3>3. QED
      BY <3>1, <3>2 DEF TypeOK, Types, Residues
  <2>2. ASSUME NEW w \in Workers, Running(w, "pairs")
        PROVE  /\ \A j \in Components : query_eval[j] # Null
               /\ \A c \in Clusters : rgsw_ct[c] # Null
    <3>1. phase = "pairs"
      BY <2>2 DEF Running, TaskInv
    <3>2. ASSUME NEW j \in Components PROVE query_eval[j] # Null
      <4>1. query_eval[j] = query[j] % PlaintextModulus
        BY <3>1 DEF EvalInv, Finished, Later
      <4>2. query[j] % PlaintextModulus \in Residues
        BY ScoringAssumption, Division, Constants DEF Types, Residues
      <4>3. QED
        BY <4>1, <4>2, Constants
    <3>3. ASSUME NEW c \in Clusters PROVE rgsw_ct[c] # Null
      BY <3>1, ScoringAssumption DEF SelectorInv, Finished, Later, Bit
    <3>4. QED
      BY <3>2, <3>3
  <2>3. ASSUME phase = "reduce", NEW s \in Splits, NEW c \in Clusters PROVE masked[s][c] # Null
    <3>1. masked[s][c] = MaskedScore(c, s)
      BY <2>3 DEF MaskedInv, Finished, Later
    <3>2. QED
      BY <3>1, ScoreFacts, Constants
  <2>4. QED
    BY <2>1, <2>2, <2>3 DEF InputsReady
<1>2. QED
  BY <1>1, InvariantHolds, PTL

\* Threads that score pairs write different slots of masked, and none that has
\* been written.
THEOREM SlotsAreOwned == Spec => []OneWriterPerSlot
<1>1. IInv => OneWriterPerSlot
  <2> SUFFICES ASSUME IInv, NEW v \in Workers, NEW w \in Workers,
                      Running(v, "pairs"), Running(w, "pairs")
               PROVE  /\ v # w => Pair(task[v].idx) # Pair(task[w].idx)
                      /\ masked[Pair(task[v].idx).split][Pair(task[v].idx).cluster] = Null
    BY DEF OneWriterPerSlot
  <2> USE DEF IInv
  <2>1. ASSUME NEW u \in Workers, Running(u, "pairs")
        PROVE  /\ phase = "pairs" /\ task[u] # Idle
               /\ task[u].idx \in 0 .. NumClusters * SplitsPerCluster - 1
    <3>1. task[u].phase = phase /\ task[u].idx < next /\ task[u] \in [phase : Loops, idx : Nat]
      BY <2>1 DEF TaskInv, Running, Types
    <3>2. phase = "pairs" /\ next <= NumClusters * SplitsPerCluster /\ next \in Nat
      BY <2>1, <3>1 DEF Running, TaskInv, Iterations, Loops, Types
    <3>3. QED
      BY <2>1, <3>1, <3>2, Constants DEF Running
  <2>2. ASSUME v # w PROVE Pair(task[v].idx) # Pair(task[w].idx)
    <3>1. task[v].idx # task[w].idx
      BY <2>1, <2>2 DEF TaskInv
    <3>2. QED
      BY <2>1, <3>1, PairFacts
  <2>3. masked[Pair(task[v].idx).split][Pair(task[v].idx).cluster] = Null
    <3> DEFINE c == Pair(task[v].idx).cluster
               s == Pair(task[v].idx).split
    <3>1. c \in Clusters /\ s \in Splits /\ task[v].idx = c * SplitsPerCluster + s
      BY <2>1, PairFacts
    <3> HIDE DEF c, s
    <3>2. ~ Finished("pairs", task[v].idx)
      BY <2>1 DEF Finished, Later
    <3>3. masked[s][c] = Null
      BY <3>1, <3>2 DEF MaskedInv
    <3>4. QED
      BY <3>3 DEF c, s
  <2>4. QED
    BY <2>2, <2>3
<1>2. QED
  BY <1>1, InvariantHolds, PTL

\* A score that cannot overflow is the centered residue of itself.
LEMMA CenteredFacts ==
  /\ \A v \in Int : 2 * v <= PlaintextModulus /\ -2 * v < PlaintextModulus =>
       CenteredResidue(v % PlaintextModulus) = v
  /\ CenteredResidue(0) = 0
  /\ \A r \in Residues : r % PlaintextModulus = r
<1> USE Constants
<1>1. ASSUME NEW v \in Int, 2 * v <= PlaintextModulus, -2 * v < PlaintextModulus
      PROVE  CenteredResidue(v % PlaintextModulus) = v
  BY <1>1, CenteredOf DEF CenteredResidue
<1>2. CenteredResidue(0) = 0
  BY DEF CenteredResidue, centered_residue
<1>3. \A r \in Residues : r % PlaintextModulus = r
  BY DEF Residues
<1>4. QED
  BY <1>1, <1>2, <1>3

\* The decoded response, position by position.
LEMMA DecodedScores ==
  ASSUME IInv, phase \in {"response", "done"}, NEW k \in Positions
  PROVE  Decoded(k) = IF k \in Documents THEN Score(k) ELSE 0
<1> USE Constants DEF IInv
<1> DEFINE s == k \div N
           i == k % N
           y == SplitScoreOf(desired, s)[i]
           h == [j \in Components |-> (query[j] % PlaintextModulus) * BuildSplit(desired, s)[j][i]]
<1>1. s \in Splits /\ i \in Coefficients /\ k = s * N + i /\ k \in Nat /\ desired \in Clusters
  <2>1. k \in 0 .. SplitsPerCluster * N - 1 /\ k \in Nat /\ desired \in Clusters
    BY DEF Positions, Types
  <2>2. N \in Nat \ {0} /\ SplitsPerCluster \in Nat \ {0}
    OBVIOUS
  <2>3. s \in 0 .. SplitsPerCluster - 1 /\ i \in 0 .. N - 1 /\ k = s * N + i
    BY <2>1, <2>2, DivisionRange
  <2>4. QED
    BY <2>1, <2>3 DEF Splits, Coefficients
<1>2. final_result[s][i] = y % PlaintextModulus
  BY <1>1, ReducedScore DEF ResultInv
<1>3. y \in Residues /\ y % PlaintextModulus = y
  BY <1>1, ScoreFacts, CenteredFacts
<1>4. y = Total(h, EmbeddingLength) % PlaintextModulus
  BY <1>1 DEF SplitScoreOf
<1>5. \A j \in Components :
        /\ query[j] \in Int /\ query[j] % PlaintextModulus \in Int
        /\ BuildSplit(desired, s)[j][i] \in Int
        /\ BuildSplit(desired, s)[j][i] = IF k < ClusterSize THEN cluster_data[desired][k][j] ELSE 0
  <2>1. \A j \in Components : /\ query[j] \in Int /\ query[j] % PlaintextModulus \in Int
                               /\ BuildSplit(desired, s)[j][i] \in Int
    BY <1>1, ScoreFacts DEF Residues
  <2>2. \A j \in Components : BuildSplit(desired, s)[j][i] =
          IF s * N + i < ClusterSize THEN cluster_data[desired][s * N + i][j] ELSE 0
    BY <1>1 DEF BuildSplit
  <2>3. QED
    BY <1>1, <2>1, <2>2
<1>6. Decoded(k) = CenteredResidue(final_result[s][i])
  BY DEF Decoded
<1>7. k \in Documents <=> k < ClusterSize
  BY <1>1 DEF Documents
<1>8. CASE k \in Documents
  <2> DEFINE g == [j \in Components |-> query[j] * cluster_data[desired][k][j]]
  <2>1. Score(k) = Total(g, EmbeddingLength)
    BY DEF Score, DotProduct
  <2>2. ASSUME NEW j \in Components
        PROVE  g[j] \in Int /\ h[j] \in Int /\ h[j] % PlaintextModulus = g[j] % PlaintextModulus
    <3> DEFINE x == query[j]
               z == cluster_data[desired][k][j]
    <3>1. x \in Int /\ z \in Int /\ x % PlaintextModulus \in Int
          /\ h[j] = (x % PlaintextModulus) * z /\ g[j] = x * z
      BY <1>5, <1>7, <1>8
    <3> HIDE DEF x, z, g, h
    <3>2. ((x % PlaintextModulus) * z) % PlaintextModulus = (x * z) % PlaintextModulus
      BY <3>1, MultiplyResidue
    <3>3. QED
      BY <3>1, <3>2
  <2>3. Total(g, EmbeddingLength) \in Int
    <3> HIDE DEF g
    <3>1. QED
      BY <2>2, TotalSteps DEF Terms, Components
  <2>4. Total(h, EmbeddingLength) % PlaintextModulus = Total(g, EmbeddingLength) % PlaintextModulus
    <3> HIDE DEF g, h
    <3>1. QED
      BY <2>2, TotalOfResidues DEF Terms, Components
  <2>5. query \in QueryEmbeddings /\ cluster_data[desired] \in ClusterData
    BY <1>1 DEF Types
  <2>6. 2 * Score(k) <= PlaintextModulus /\ -2 * Score(k) < PlaintextModulus
    BY <1>8, <2>5, NoOverflow DEF Score
  <2>7. CenteredResidue(Score(k) % PlaintextModulus) = Score(k)
    BY <2>1, <2>3, <2>6, CenteredFacts
  <2> HIDE DEF g, h, y
  <2>8. QED
    BY <1>2, <1>3, <1>4, <1>6, <1>8, <2>1, <2>4, <2>7
<1>9. CASE k \notin Documents
  <2>1. \A j \in 0 .. EmbeddingLength - 1 : h[j] = 0
    BY <1>5, <1>7, <1>9 DEF Components
  <2> HIDE DEF h, y
  <2>2. Total(h, EmbeddingLength) = 0
    BY <2>1, TotalOfZeros
  <2>3. y = 0
    BY <1>4, <2>2, CenteredFacts
  <2>4. QED
    BY <1>2, <1>3, <1>6, <1>9, <2>3, CenteredFacts
<1>10. QED
  BY <1>8, <1>9

\* The response decodes to the exact scores of the documents of the desired
\* cluster, in their order, and to 0 elsewhere, for any sizes and any schedule.
THEOREM ScoresAreExact == Spec => []ScoresOfDesiredCluster
<1>1. IInv => ScoresOfDesiredCluster
  BY DecodedScores DEF ScoresOfDesiredCluster
<1>2. QED
  BY <1>1, InvariantHolds, PTL

LEMMA ScoreIsInt ==
  ASSUME IInv, NEW e \in Documents
  PROVE  Score(e) \in Int
<1> DEFINE g == [j \in Components |-> query[j] * cluster_data[desired][e][j]]
<1>1. query \in [Components -> Int] /\ cluster_data[desired] \in [Documents -> [Components -> Int]]
  BY ScoringAssumption DEF IInv, Types
<1>2. \A j \in Components : g[j] \in Int
  <2> SUFFICES ASSUME NEW j \in Components PROVE g[j] \in Int
    OBVIOUS
  <2>1. query[j] \in Int /\ cluster_data[desired][e][j] \in Int
    BY <1>1
  <2>2. QED
    BY <2>1
<1>3. Score(e) = Total(g, EmbeddingLength)
  BY DEF Score, DotProduct
<1> HIDE DEF g
<1>4. QED
  BY <1>2, <1>3, TotalSteps, Constants DEF Terms, Components

\* The client's result is the first document of the best score, unless every
\* document scores below 0 and there is a padded position: then it is the first
\* of these. The documents come before the padding, which decodes to 0, so only
\* negative scores lose to it.
THEOREM BestIsFound == Spec => []BestDocumentFound
<1>1. IInv => BestDocumentFound
  <2> SUFFICES ASSUME IInv, phase = "done" PROVE BestDocumentFound
    BY DEF BestDocumentFound
  <2>1. \A k \in Positions : Decoded(k) = IF k \in Documents THEN Score(k) ELSE 0
    BY DecodedScores
  <2>2. /\ best \in Positions
        /\ \A l \in Positions : Decoded(l) <= Decoded(best)
        /\ \A l \in Positions : l < best => Decoded(l) < Decoded(best)
    BY FirstBestFacts DEF IInv, BestInv
  <2>3. /\ Documents \subseteq Positions /\ Positions \subseteq Nat
        /\ \A k \in Positions : k \notin Documents => k >= ClusterSize /\ ClusterSize \in Positions
        /\ ClusterSize \in Nat /\ ClusterSize \notin Documents
        /\ \A e \in Documents : e < ClusterSize
    BY SplitFacts, Constants DEF Documents, Positions
  <2>4. \A e \in Documents : Score(e) \in Int
    BY ScoreIsInt
  <2>5. ASSUME best \in Documents PROVE IsFirstBest(best)
    BY <2>1, <2>2, <2>3, <2>5 DEF IsFirstBest
  <2>6. ASSUME Positions = Documents \/ \E d \in Documents : Score(d) >= 0
        PROVE  best \in Documents
    <3> SUFFICES ASSUME best \notin Documents PROVE FALSE
      OBVIOUS
    <3>1. PICK d \in Documents : Score(d) >= 0
      BY <2>2, <2>6
    <3>2. d \in Positions /\ d < best /\ Decoded(d) = Score(d) /\ Decoded(best) = 0
      BY <2>1, <2>2, <2>3
    <3>3. Decoded(d) < Decoded(best)
      BY <2>2, <3>2
    <3>4. QED
      BY <2>4, <3>1, <3>2, <3>3
  <2>7. ASSUME Positions # Documents, \A d \in Documents : Score(d) < 0
        PROVE  best = ClusterSize
    <3>1. ClusterSize \in Positions /\ Decoded(ClusterSize) = 0
      BY <2>1, <2>3, <2>7
    <3>2. best \notin Documents
      <4> SUFFICES ASSUME best \in Documents PROVE FALSE
        OBVIOUS
      <4>1. Decoded(best) = Score(best) /\ Score(best) < 0 /\ Score(best) \in Int
        BY <2>1, <2>3, <2>4, <2>7
      <4>2. Decoded(ClusterSize) <= Decoded(best)
        BY <2>2, <3>1
      <4>3. QED
        BY <3>1, <4>1, <4>2
    <3>3. Decoded(best) = 0 /\ best >= ClusterSize
      BY <2>1, <2>2, <2>3, <3>2
    <3>4. ~ (ClusterSize < best)
      BY <2>2, <3>1, <3>3
    <3>5. QED
      BY <2>2, <2>3, <3>3, <3>4
  <2>8. QED
    BY <2>5, <2>6, <2>7 DEF BestDocumentFound
<1>2. QED
  BY <1>1, InvariantHolds, PTL

----------------------------------------------------------------------------
(* Scores of one document in signed rings: Residues. *)

(* More about sums: a bound, and what is linear. *)

LEMMA TotalBounded ==
  ASSUME NEW n \in Nat, NEW h, Terms(h, n), NEW c \in Int, NEW b \in Int,
         \A k \in 0 .. n - 1 : -b <= c * h[k] /\ c * h[k] <= b
  PROVE  -(n * b) <= c * Total(h, n) /\ c * Total(h, n) <= n * b
<1> DEFINE T == {k \in 0 .. n : -(k * b) <= c * Total(h, k) /\ c * Total(h, k) <= k * b}
<1>1. 0 \in T
  BY TotalSteps
<1>2. ASSUME NEW k \in 0 .. n - 1, k \in T PROVE k + 1 \in T
  <2>1. Total(h, k) \in Int /\ Total(h, k + 1) = Total(h, k) + h[k] /\ h[k] \in Int
    BY TotalSteps DEF Terms
  <2>2. c * Total(h, k + 1) = c * Total(h, k) + c * h[k] /\ (k + 1) * b = k * b + b
    <3> DEFINE x == Total(h, k)
               y == h[k]
    <3>1. x \in Int /\ y \in Int /\ Total(h, k + 1) = x + y
      BY <2>1
    <3> HIDE DEF x, y
    <3>2. c * (x + y) = c * x + c * y /\ (k + 1) * b = k * b + b
      BY <3>1
    <3>3. QED
      BY <3>1, <3>2 DEF x, y
  <2> DEFINE s == c * Total(h, k)
             t == c * h[k]
             u == c * Total(h, k + 1)
             v == k * b
             w == (k + 1) * b
  <2>3. s \in Int /\ t \in Int /\ v \in Int /\ u = s + t /\ w = v + b
        /\ -v <= s /\ s <= v /\ -b <= t /\ t <= b
    BY <1>2, <2>1, <2>2
  <2>4. -w <= u /\ u <= w
    <3> HIDE DEF s, t, u, v, w
    <3>1. QED
      BY <2>3
  <2>5. k + 1 \in 0 .. n
    OBVIOUS
  <2>6. QED
    BY <2>4, <2>5
<1> HIDE DEF T
<1>3. n \in T
  BY <1>1, <1>2, Induction
<1>4. QED
  BY <1>3 DEF T

\* c * f = d * g + h, term by term.
Combined(f, g, h, c, d, n) == \A k \in 0 .. n - 1 : c * f[k] = d * g[k] + h[k]

LEMMA TotalLinear ==
  ASSUME NEW n \in Nat, NEW f, NEW g, NEW h, Terms(f, n), Terms(g, n), Terms(h, n),
         NEW c \in Int, NEW d \in Int, Combined(f, g, h, c, d, n)
  PROVE  c * Total(f, n) = d * Total(g, n) + Total(h, n)
<1> DEFINE T == {k \in 0 .. n : c * Total(f, k) = d * Total(g, k) + Total(h, k)}
<1>1. 0 \in T
  BY TotalSteps
<1>2. ASSUME NEW k \in 0 .. n - 1, k \in T PROVE k + 1 \in T
  <2> DEFINE x == Total(f, k)
             y == Total(g, k)
             z == Total(h, k)
             xk == f[k]
             yk == g[k]
             zk == h[k]
  <2>1. /\ x \in Int /\ Total(f, k + 1) = x + xk /\ xk \in Int
        /\ y \in Int /\ Total(g, k + 1) = y + yk /\ yk \in Int
        /\ z \in Int /\ Total(h, k + 1) = z + zk /\ zk \in Int
    BY TotalSteps DEF Terms
  <2>2. c * x = d * y + z /\ c * xk = d * yk + zk
    BY <1>2 DEF Combined
  <2>3. c * (x + xk) = d * (y + yk) + (z + zk)
    <3> HIDE DEF x, y, z, xk, yk, zk
    <3>1. c * (x + xk) = c * x + c * xk /\ d * (y + yk) = d * y + d * yk
      BY <2>1
    <3> DEFINE a1 == c * x
               a2 == c * xk
               a3 == d * y
               a4 == d * yk
    <3>2. a1 \in Int /\ a2 \in Int /\ a3 \in Int /\ a4 \in Int
      BY <2>1
    <3>3. a1 = a3 + z /\ a2 = a4 + zk /\ c * (x + xk) = a1 + a2 /\ d * (y + yk) = a3 + a4
      BY <2>2, <3>1
    <3> HIDE DEF a1, a2, a3, a4
    <3>4. QED
      BY <2>1, <3>2, <3>3
  <2>4. QED
    BY <2>1, <2>3
<1> HIDE DEF T
<1>3. n \in T
  BY <1>1, <1>2, Induction
<1>4. QED
  BY <1>3 DEF T

----------------------------------------------------------------------------
(* The arithmetic of residues. *)

\* reduce_mod is the residue, although '%' of C++ is not.
LEMMA ReduceFacts ==
  ASSUME NEW v \in Int, NEW m \in Nat \ {0}
  PROVE  reduce_mod(v, m) = v % m /\ v % m \in 0 .. m - 1
<1>1. CASE v >= 0
  BY <1>1 DEF reduce_mod, Remainder
<1>2. CASE v < 0
  <2> DEFINE i == (-v) \div m
             r == (-v) % m
  <2>1. i \in Int /\ r \in 0 .. m - 1 /\ -v = i * m + r
    <3>1. -v \in Int
      OBVIOUS
    <3>2. QED
      BY <3>1, Division
  <2>2. reduce_mod(v, m) = IF -r < 0 THEN -r + m ELSE -r
    BY <1>2 DEF reduce_mod, Remainder
  <2> HIDE DEF i, r
  <2>3. CASE r = 0
    <3>1. v = (-i) * m + 0 /\ -i \in Int /\ 0 \in 0 .. m - 1
      BY <2>1, <2>3
    <3>2. v % m = 0
      BY <3>1, DivisionOf
    <3>3. QED
      BY <2>2, <2>3, <3>2
  <2>4. CASE r # 0
    <3>1. v = (-i - 1) * m + (m - r) /\ -i - 1 \in Int /\ m - r \in 0 .. m - 1
      BY <2>1, <2>4
    <3>2. v % m = m - r
      BY <3>1, DivisionOf
    <3>3. QED
      BY <2>1, <2>2, <2>4, <3>1, <3>2
  <2>5. QED
    BY <2>3, <2>4
<1>3. QED
  BY <1>1, <1>2

\* Two residues modulo p1 and p1 - 1 are recomposed to the residue modulo the product.
LEMMA RecomposeFacts ==
  ASSUME NEW m \in Nat, m >= 2, NEW x \in Int
  PROVE  crt_recompose(x % m, x % (m - 1), m) = x % crt_combined_modulus(m)
<1> DEFINE r1 == x % m
           r2 == x % (m - 1)
           a == x \div m
           b == x \div (m - 1)
           t == reduce_mod(r2 - r1, m - 1)
           c == (r2 - r1) \div (m - 1)
           y == r1 + m * t
<1>1. m \in Nat \ {0} /\ m - 1 \in Nat \ {0}
  OBVIOUS
<1>2. r1 \in 0 .. m - 1 /\ a \in Int /\ x = a * m + r1
  BY <1>1, Division
<1>3. r2 \in 0 .. m - 2 /\ b \in Int /\ x = b * (m - 1) + r2
  <2>1. r2 \in 0 .. m - 1 - 1 /\ b \in Int /\ x = b * (m - 1) + r2
    BY <1>1, Division
  <2>2. QED
    BY <2>1
<1>4. crt_recompose(r1, r2, m) = y
  BY DEF crt_recompose, reduce_mod
<1>5. t \in 0 .. m - 2 /\ c \in Int /\ r2 - r1 = c * (m - 1) + t
  <2> HIDE DEF r1, r2
  <2>1. r2 - r1 \in Int
    BY <1>2, <1>3
  <2>2. t = (r2 - r1) % (m - 1)
    BY <1>1, <2>1, ReduceFacts
  <2>3. t \in 0 .. m - 1 - 1 /\ c \in Int /\ r2 - r1 = c * (m - 1) + t
    BY <1>1, <2>1, <2>2, Division
  <2>4. QED
    BY <2>3
<1> HIDE DEF r1, r2, a, b, c, t
<1>6. y \in 0 .. m * (m - 1) - 1
  <2>1. m * t >= 0 /\ m * (m - 2 - t) >= 0
    BY <1>5
  <2>2. m * (m - 2 - t) = m * (m - 1) - m - m * t
    BY <1>5
  <2> DEFINE u == m * t
             w == m * (m - 1)
  <2>3. u \in Int /\ w \in Int /\ u >= 0 /\ w - m - u >= 0
    BY <1>5, <2>1, <2>2
  <2>4. r1 + u \in 0 .. w - 1
    <3> HIDE DEF u, w
    <3>1. QED
      BY <1>2, <2>3
  <2>5. QED
    BY <2>4
<1>7. x = (a - t) * m + y
  BY <1>2, <1>5
<1>8. x = (b + c - t) * (m - 1) + y
  <2>1. y = r2 - c * (m - 1) + t * (m - 1)
    <3>1. m * t = t * (m - 1) + t
      BY <1>5
    <3> DEFINE u == c * (m - 1)
               v == t * (m - 1)
    <3>2. u \in Int /\ v \in Int /\ r2 - r1 = u + t /\ m * t = v + t
      BY <1>5, <3>1
    <3>3. r1 + (m * t) = (r2 - u) + v
      <4> HIDE DEF u, v
      <4>1. QED
        BY <1>2, <1>3, <1>5, <3>2
    <3>4. QED
      BY <3>3
  <2>2. (b + c - t) * (m - 1) = (b * (m - 1) + c * (m - 1)) - t * (m - 1)
    BY <1>3, <1>5
  <2> DEFINE u == c * (m - 1)
             v == t * (m - 1)
             w == b * (m - 1)
  <2>3. u \in Int /\ v \in Int /\ w \in Int /\ y = (r2 - u) + v
        /\ (b + c - t) * (m - 1) = (w + u) - v /\ x = w + r2
    BY <1>3, <1>5, <2>1, <2>2
  <2> DEFINE z == (b + c - t) * (m - 1)
  <2>4. x = z + y
    <3>1. z = (w + u) - v
      BY <2>3
    <3> HIDE DEF u, v, w, z, y
    <3>2. QED
      BY <1>3, <2>3, <3>1
  <2>5. QED
    BY <2>4
<1>9. PICK e \in Int : x = e * m + y
  <2>1. a - t \in Int
    BY <1>2, <1>5
  <2>2. QED
    BY <1>7, <2>1
<1>10. PICK f \in Int : x = f * (m - 1) + y
  <2>1. b + c - t \in Int
    BY <1>3, <1>5
  <2>2. QED
    BY <1>8, <2>1
<1> HIDE DEF y
<1>11. y \in Int /\ f = (f - e) * m
  <2>1. e * m = f * (m - 1)
    <3> DEFINE u == e * m
               v == f * (m - 1)
    <3>1. u \in Int /\ v \in Int /\ y \in Int /\ x = u + y /\ x = v + y
      BY <1>6, <1>9, <1>10
    <3>2. u = v
      <4> HIDE DEF u, v
      <4>1. QED
        BY <3>1
    <3>3. QED
      BY <3>2
  <2>2. f * (m - 1) = f * m - f /\ (f - e) * m = f * m - e * m
    OBVIOUS
  <2> DEFINE u == e * m
             v == f * m
  <2>3. u \in Int /\ v \in Int /\ u = v - f /\ (f - e) * m = v - u
    BY <2>1, <2>2
  <2>4. f = (f - e) * m
    <3> HIDE DEF u, v
    <3>1. QED
      BY <2>3
  <2>5. QED
    BY <1>6, <2>4
<1>12. x = (f - e) * (m * (m - 1)) + y
  <2> DEFINE d == f - e
  <2>1. f = d * m /\ d \in Int
    BY <1>11
  <2> HIDE DEF d
  <2>2. f * (m - 1) = d * (m * (m - 1))
    BY <2>1
  <2>3. QED
    BY <1>10, <2>2 DEF d
<1>13. x % (m * (m - 1)) = y
  <2>1. m * (m - 1) \in Nat \ {0} /\ f - e \in Int
    OBVIOUS
  <2> DEFINE w == m * (m - 1)
             d == f - e
  <2>2. w \in Nat \ {0} /\ d \in Int /\ y \in 0 .. w - 1 /\ x = d * w + y
    BY <1>6, <1>12, <2>1
  <2> HIDE DEF w, d
  <2>3. x % w = y
    BY <2>2, DivisionOf
  <2>4. QED
    BY <2>3 DEF w
<1>14. QED
  BY <1>4, <1>13 DEF crt_combined_modulus, y, r1, r2

\* Encoding rounds: it misses the multiple of q / modulus by half a step at most.
LEMMA EncodeFacts ==
  ASSUME NEW p, p.q \in Nat \ {0}, NEW m \in Int, NEW k \in Nat \ {0}
  PROVE  /\ Encode(p, m, k) \in Int
         /\ -(k \div 2) <= k * Encode(p, m, k) - m * p.q
         /\ k * Encode(p, m, k) - m * p.q <= k \div 2
<1> DEFINE y == m * p.q
           x == y + k \div 2
           e == x \div k
           a == x % k
<1>1. x \in Int /\ y \in Int /\ k \div 2 \in Int
  OBVIOUS
<1>2. e \in Int /\ a \in 0 .. k - 1 /\ x = e * k + a
  <2> HIDE DEF x
  <2>1. QED
    BY <1>1, Division
<1>3. Encode(p, m, k) = e
  BY DEF Encode
<1> DEFINE z == k * e
<1>4. z \in Int /\ y + k \div 2 = z + a
  BY <1>2
<1>5. -(k \div 2) <= z - y /\ z - y <= k \div 2
  <2> HIDE DEF z, y, a
  <2>1. QED
    BY <1>1, <1>2, <1>4 DEF x
<1>6. QED
  BY <1>2, <1>3, <1>5

\* Decoding: the residue of the message, when the error is less than half a step.
LEMMA DecodeFacts ==
  ASSUME NEW p, p.q \in Nat \ {0}, NEW k \in Nat \ {0}, NEW phi \in Int, NEW s \in Int, NEW e \in Int,
         phi * k = s * p.q + e, 2 * e < p.q, -2 * e < p.q
  PROVE  Decode(p, phi, k) = s % k
<1> DEFINE a == e + p.q \div 2
           q == p.q
<1>1. a \in 0 .. q - 1 /\ q \in Nat \ {0}
  OBVIOUS
<1>2. phi * k + p.q \div 2 = s * q + a
  <2> DEFINE x == phi * k
             y == s * q
             h == p.q \div 2
  <2>1. x \in Int /\ y \in Int /\ x = y + e /\ h \in Int /\ a = e + h
    OBVIOUS
  <2>2. x + h = y + a
    <3> HIDE DEF x, y, h, a
    <3>1. QED
      BY <2>1
  <2>3. QED
    BY <2>2
<1>3. (s * q + a) \div q = s
  <2> HIDE DEF a, q
  <2>1. QED
    BY <1>1, DivisionOf
<1>4. QED
  BY <1>2, <1>3 DEF Decode

LEMMA DecodeRange ==
  ASSUME NEW p, p.q \in Nat \ {0}, NEW k \in Nat \ {0}, NEW phi \in Int
  PROVE  Decode(p, phi, k) \in 0 .. k - 1
<1> DEFINE x == (phi * k + p.q \div 2) \div p.q
<1>1. x \in Int
  OBVIOUS
<1>2. Decode(p, phi, k) = x % k
  BY DEF Decode
<1> HIDE DEF x
<1>3. QED
  BY <1>1, <1>2, Division

----------------------------------------------------------------------------
(* The inductive invariant: what each step has stored. *)

RingTyped ==
  /\ params \in ParamSets /\ sampled \in {"plaintext", "combined"}
  /\ step \in {"sample", "encrypt", "store", "score", "done"}
  /\ raw \in [Indices -> SignedValues(params)] /\ docs \in [Indices -> SignedValues(params)]

Component(ring, j) == Split(params, QueryValue(raw[j]))[ring]
RingModulus(ring) == component_ring_modulus(params, ring)

SplitInv ==
  step # "sample" => \A ring \in Rings(params), j \in Indices : components[ring][j] = Component(ring, j)
EncryptInv ==
  step \in {"store", "score", "done"} => \A ring \in Rings(params), j \in Indices :
    \E noise \in Noises :
      phases[ring][j] = Encode(params, Component(ring, j), RingModulus(ring)) + noise
StoredInv ==
  step \in {"score", "done"} => \A ring \in Rings(params), j \in Indices :
    stored[ring][j] = reduce_mod(docs[j], params.q)
ReadInv ==
  step = "done" =>
    score = centered_residue(Recompose(params, [ring \in Rings(params) |-> Decrypted(ring)]),
                             combined_modulus(params))

RingInv == RingTyped /\ SplitInv /\ EncryptInv /\ StoredInv /\ ReadInv

LEMMA RingInitInv == RingInit => RingInv
BY DEF RingInit, RingInv, RingTyped, SplitInv, EncryptInv, StoredInv, ReadInv

LEMMA BuildQueryInv == ASSUME RingInv, BuildQuery PROVE RingInv'
<1> USE DEF BuildQuery
<1>1. RingTyped'
  BY DEF RingInv, RingTyped, Indices
<1>2. SplitInv'
  BY DEF SplitInv, Component, QueryValue, Indices
<1>3. EncryptInv' /\ StoredInv' /\ ReadInv'
  BY DEF EncryptInv, StoredInv, ReadInv
<1>4. QED
  BY <1>1, <1>2, <1>3 DEF RingInv

LEMMA EncryptKeepsInv == ASSUME RingInv, Encrypt PROVE RingInv'
<1> USE DEF Encrypt
<1>1. RingTyped'
  BY DEF RingInv, RingTyped, Indices
<1>2. SplitInv'
  BY DEF RingInv, SplitInv, Component, QueryValue, Indices
<1>3. EncryptInv'
  <2>1. PICK noise \in [Rings(params) -> [Indices -> Noises]] :
          phases' = [ring \in Rings(params) |-> [j \in Indices |->
            Encode(params, components[ring][j], component_ring_modulus(params, ring)) + noise[ring][j]]]
    OBVIOUS
  <2>2. ASSUME NEW ring \in Rings(params), NEW j \in Indices
        PROVE  phases'[ring][j] = Encode(params, Component(ring, j), RingModulus(ring)) + noise[ring][j]
    BY <2>1 DEF RingInv, SplitInv, RingModulus
  <2>3. params' = params /\ Indices' = Indices /\ raw' = raw /\ sampled' = sampled
    BY DEF Indices
  <2>4. \A ring, j : Component(ring, j)' = Component(ring, j) /\ RingModulus(ring)' = RingModulus(ring)
    BY <2>3 DEF Component, QueryValue, RingModulus
  <2>5. QED
    BY <2>2, <2>3, <2>4 DEF EncryptInv
<1>4. StoredInv' /\ ReadInv'
  BY DEF StoredInv, ReadInv
<1>5. QED
  BY <1>1, <1>2, <1>3, <1>4 DEF RingInv

\* Steps that keep what the query's ciphertexts are made of.
LEMMA CiphertextsStay ==
  ASSUME EncryptInv, step \in {"store", "score", "done"},
         UNCHANGED <<params, sampled, raw, phases>>
  PROVE  EncryptInv'
<1>1. Indices' = Indices /\ Rings(params)' = Rings(params)
  BY DEF Indices
<1>2. \A ring, j : Component(ring, j)' = Component(ring, j) /\ RingModulus(ring)' = RingModulus(ring)
  BY DEF Component, QueryValue, RingModulus
<1>3. QED
  BY <1>1, <1>2 DEF EncryptInv

LEMMA StoreDocumentInv == ASSUME RingInv, StoreDocument PROVE RingInv'
<1> USE DEF StoreDocument
<1>1. RingTyped'
  BY DEF RingInv, RingTyped, Indices
<1>2. SplitInv'
  BY DEF RingInv, SplitInv, Component, QueryValue, Indices
<1>3. EncryptInv'
  BY CiphertextsStay DEF RingInv
<1>4. StoredInv'
  BY DEF StoredInv, StoredValue, Indices
<1>5. ReadInv'
  BY DEF ReadInv
<1>6. QED
  BY <1>1, <1>2, <1>3, <1>4, <1>5 DEF RingInv

LEMMA ScoreDocumentInv == ASSUME RingInv, ScoreDocument PROVE RingInv'
<1> USE DEF ScoreDocument
<1>1. RingTyped'
  BY DEF RingInv, RingTyped, Indices
<1>2. SplitInv'
  BY DEF RingInv, SplitInv, Component, QueryValue, Indices
<1>3. EncryptInv'
  BY CiphertextsStay DEF RingInv
<1>4. StoredInv'
  BY DEF RingInv, StoredInv, Indices
<1>5. ReadInv'
  <2>1. params' = params /\ phases' = phases /\ stored' = stored
    OBVIOUS
  <2>2. \A ring : Decrypted(ring)' = Decrypted(ring)
    BY <2>1 DEF Decrypted, ScorePhase, Indices
  <2>3. QED
    BY <2>1, <2>2 DEF ReadInv
<1>6. QED
  BY <1>1, <1>2, <1>3, <1>4, <1>5 DEF RingInv

LEMMA RingStutter == ASSUME RingInv, UNCHANGED ring_vars PROVE RingInv'
<1>1. UNCHANGED <<params, step, sampled, raw, docs, components, phases, stored, score>>
  BY DEF ring_vars
<1>2. RingTyped' /\ SplitInv' /\ StoredInv'
  BY <1>1 DEF RingInv, RingTyped, SplitInv, StoredInv, Component, QueryValue, Indices
<1>3. EncryptInv'
  BY <1>1, CiphertextsStay DEF RingInv, EncryptInv
<1>4. ReadInv'
  <2>1. \A ring : Decrypted(ring)' = Decrypted(ring)
    BY <1>1 DEF Decrypted, ScorePhase, Indices
  <2>2. QED
    BY <1>1, <2>1 DEF RingInv, ReadInv
<1>5. QED
  BY <1>2, <1>3, <1>4 DEF RingInv

LEMMA RingInvariant == RingSpec => []RingInv
<1>1. RingInv /\ [RingNext]_ring_vars => RingInv'
  BY BuildQueryInv, EncryptKeepsInv, StoreDocumentInv, ScoreDocumentInv, RingStutter DEF RingNext
<1>2. QED
  BY <1>1, RingInitInv, PTL DEF RingSpec

----------------------------------------------------------------------------
(* What a ring's component and score are. *)

LEMMA ParamsFacts ==
  ASSUME RingTyped
  PROVE  /\ params.num_component_rings \in {1, 2}
         /\ params.plaintext_modulus \in Nat \ {0} /\ params.q \in Nat \ {0}
         /\ params.embedding_length \in Nat
         /\ combined_modulus(params) \in Nat \ {0}
         /\ params.plaintext_modulus <= combined_modulus(params)
         /\ \A ring \in Rings(params) : RingModulus(ring) \in Nat \ {0}
<1>1. /\ params.num_component_rings \in {1, 2}
      /\ params.plaintext_modulus \in Nat \ {0} /\ params.q \in Nat \ {0}
      /\ params.embedding_length \in Nat
      /\ params.num_component_rings = 2 =>
           /\ params.comp_ring_modulus \in Nat /\ params.comp_ring_modulus >= 2
           /\ crt_combined_modulus(params.comp_ring_modulus) >= params.plaintext_modulus
  BY ParamsAssumption DEF RingTyped
<1>2. CASE params.num_component_rings = 1
  BY <1>1, <1>2 DEF combined_modulus, RingModulus, component_ring_modulus
<1>3. CASE params.num_component_rings = 2
  <2> DEFINE m == params.comp_ring_modulus
  <2>1. m \in Nat /\ m >= 2 /\ m * (m - 1) >= params.plaintext_modulus
    BY <1>1, <1>3 DEF crt_combined_modulus
  <2>2. combined_modulus(params) = m * (m - 1)
    BY <1>3 DEF combined_modulus, crt_combined_modulus
  <2>3. \A ring \in Rings(params) : ring \in 1 .. 2 /\ RingModulus(ring) = m - (ring - 1)
    BY <1>3 DEF Rings, RingModulus, component_ring_modulus
  <2> HIDE DEF m
  <2>4. m * (m - 1) \in Nat \ {0}
    BY <2>1
  <2>5. \A ring \in Rings(params) : RingModulus(ring) \in Nat \ {0}
    BY <2>1, <2>3
  <2>6. QED
    BY <1>1, <2>1, <2>2, <2>4, <2>5
<1>4. QED
  BY <1>1, <1>2, <1>3

\* The query is one the rings can carry: sampled modulo the combined modulus,
\* or for one ring only.
Representable == sampled = "plaintext" => params.num_component_rings = 1

\* A component is a residue of its ring, and the value's when it is representable.
LEMMA ComponentFacts ==
  ASSUME RingTyped, NEW ring \in Rings(params), NEW j \in Indices
  PROVE  /\ raw[j] \in Int /\ Component(ring, j) \in 0 .. RingModulus(ring) - 1
         /\ Representable => Component(ring, j) % RingModulus(ring) = raw[j] % RingModulus(ring)
<1> DEFINE v == raw[j]
           M == IF sampled = "plaintext" THEN params.plaintext_modulus ELSE combined_modulus(params)
           x == v % M
<1>1. v \in Int
  BY DEF RingTyped, SignedValues, min_embedding_value, max_embedding_value
<1>2. M \in Nat \ {0}
  BY ParamsFacts
<1>3. QueryValue(v) = x /\ x \in 0 .. M - 1 /\ x \in Nat
  <2>1. QueryValue(v) = reduce_mod(v, M)
    BY DEF QueryValue
  <2> HIDE DEF M, v
  <2>2. QED
    BY <1>1, <1>2, <2>1, ReduceFacts
<1>4. CASE params.num_component_rings = 1
  <2>1. ring = 1 /\ RingModulus(ring) = params.plaintext_modulus /\ M = params.plaintext_modulus
    BY <1>4 DEF Rings, RingModulus, component_ring_modulus, combined_modulus
  <2>2. Component(ring, j) = x
    BY <1>3, <1>4, <2>1 DEF Component, Split
  <2>3. x % M = x
    <3> HIDE DEF M, x
    <3>1. QED
      BY <1>2, <1>3
  <2>4. QED
    BY <1>1, <1>3, <2>1, <2>2, <2>3
<1>5. CASE params.num_component_rings = 2
  <2> DEFINE m == params.comp_ring_modulus
             k == RingModulus(ring)
  <2>1. m \in Nat /\ m >= 2
    BY <1>5, ParamsAssumption DEF RingTyped
  <2>2. ring \in {1, 2} /\ k = IF ring = 1 THEN m ELSE m - 1
    BY <1>5, <2>1 DEF Rings, RingModulus, component_ring_modulus
  <2>3. Component(ring, j) = Remainder(x, k)
    BY <1>3, <1>5, <2>2 DEF Component, Split, crt_split
  <2>4. k \in Nat \ {0}
    BY <2>1, <2>2
  <2> HIDE DEF x, k
  <2>5. Component(ring, j) = x % k
    BY <1>3, <2>3 DEF Remainder
  <2>6. x % k \in 0 .. k - 1 /\ (x % k) % k = x % k
    BY <1>3, <2>4
  <2>7. ASSUME Representable PROVE x % k = v % k
    <3> DEFINE i == v \div M
    <3>1. M = m * (m - 1)
      BY <1>5, <2>7 DEF Representable, combined_modulus, crt_combined_modulus, RingTyped
    <3> HIDE DEF v, M, m
    <3>2. i \in Int /\ v = i * M + x
      BY <1>1, <1>2, Division DEF x
    <3> HIDE DEF i
    <3>3. PICK d \in Int : M = d * k
      <4>1. m \in Int /\ m - 1 \in Int /\ m * (m - 1) = (m - 1) * m
        BY <2>1
      <4>2. QED
        BY <2>2, <3>1, <4>1
    <3>4. v = x + (i * d) * k /\ i * d \in Int
      BY <1>1, <1>3, <2>4, <3>2, <3>3
    <3> DEFINE c == i * d
    <3>5. v \in Int /\ x \in Int /\ k \in Nat \ {0} /\ c \in Int /\ v = x + c * k
      BY <1>1, <1>3, <2>4, <3>4
    <3> HIDE DEF c
    <3>6. v % k = x % k
      BY <3>5, SameResidue
    <3>7. QED
      BY <3>6
  <2>8. QED
    BY <1>1, <2>5, <2>6, <2>7 DEF k
<1>6. QED
  BY <1>4, <1>5, ParamsFacts

DocProduct == Total([j \in Indices |-> raw[j] * docs[j]], params.embedding_length)

\* A stored value and its size.
LEMMA DocumentFacts ==
  ASSUME RingTyped, NEW j \in Indices
  PROVE  /\ max_abs_embedding_value(params) \in Int
         /\ docs[j] \in Int /\ raw[j] \in Int
         /\ -max_abs_embedding_value(params) <= docs[j] /\ docs[j] <= max_abs_embedding_value(params)
         /\ -max_abs_embedding_value(params) <= raw[j] /\ raw[j] <= max_abs_embedding_value(params)
<1> DEFINE a == 2 ^ (params.embedding_precision - 1)
<1>1. params.embedding_precision - 1 \in Nat
  BY ParamsAssumption DEF RingTyped
<1>2. a \in Int
  <2> DEFINE e == params.embedding_precision - 1
  <2>1. e \in Nat
    BY <1>1
  <2> HIDE DEF e
  <2>2. 2 ^ e \in Int
    BY <2>1
  <2>3. QED
    BY <2>2 DEF e
<1>3. docs[j] \in (-a) .. (a - 1) /\ raw[j] \in (-a) .. (a - 1) /\ max_abs_embedding_value(params) = -(-a)
  BY DEF RingTyped, SignedValues, min_embedding_value, max_embedding_value, max_abs_embedding_value
<1> HIDE DEF a
<1>4. -(-a) = a
  BY <1>2
<1>5. QED
  BY <1>2, <1>3, <1>4

\* The size of a product.
LEMMA ProductBound ==
  ASSUME NEW r \in Int, NEW d \in Int, NEW t \in Int, NEW a \in Int,
         -t <= r, r <= t, -a <= d, d <= a
  PROVE  -(a * t) <= r * d /\ r * d <= a * t
<1> DEFINE at == a * t
           rd == r * d
           td == t * d
           ra == r * a
<1>1. at \in Int /\ rd \in Int /\ td \in Int /\ ra \in Int
  OBVIOUS
<1>2. /\ (t - r) * (a + d) >= 0 /\ (t - r) * (a + d) = at + td - (ra + rd)
      /\ (t + r) * (a - d) >= 0 /\ (t + r) * (a - d) = at + ra - (td + rd)
      /\ (t - r) * (a - d) >= 0 /\ (t - r) * (a - d) = at + rd - (ra + td)
      /\ (t + r) * (a + d) >= 0 /\ (t + r) * (a + d) = at + td + (ra + rd)
  <2>1. t - r >= 0 /\ t + r >= 0 /\ a - d >= 0 /\ a + d >= 0
    OBVIOUS
  <2>2. \A x, y \in Int : x >= 0 /\ y >= 0 => x * y >= 0
    OBVIOUS
  <2>3. /\ (t - r) * (a + d) >= 0 /\ (t + r) * (a - d) >= 0
        /\ (t - r) * (a - d) >= 0 /\ (t + r) * (a + d) >= 0
    BY <2>1, <2>2
  <2>4. /\ (t - r) * (a + d) = at + td - (ra + rd) /\ (t + r) * (a - d) = at + ra - (td + rd)
        /\ (t - r) * (a - d) = at + rd - (ra + td) /\ (t + r) * (a + d) = at + td + (ra + rd)
    OBVIOUS
  <2>5. QED
    BY <2>3, <2>4
<1>3. /\ at + td - (ra + rd) >= 0 /\ at + ra - (td + rd) >= 0
      /\ at + rd - (ra + td) >= 0 /\ at + td + (ra + rd) >= 0
  BY <1>2
<1> HIDE DEF at, rd, td, ra
<1>4. -at <= rd /\ rd <= at
  BY <1>1, <1>3
<1>5. QED
  BY <1>4 DEF at, rd

LEMMA ScaledBound ==
  ASSUME NEW x \in Int, NEW b \in Int, NEW n \in Nat, NEW q \in Int, -b <= x, x <= b, 2 * (n * b) < q
  PROVE  -(q - 1) <= (2 * n) * x /\ (2 * n) * x <= q - 1
<1> DEFINE nb == n * b
           nx == n * x
<1>1. nb \in Int /\ nx \in Int /\ (2 * n) * x = 2 * nx /\ 2 * nb < q
  OBVIOUS
<1>2. -nb <= nx /\ nx <= nb
  <2>1. n * (b - x) >= 0 /\ n * (b + x) >= 0
    OBVIOUS
  <2>2. n * (b - x) = nb - nx /\ n * (b + x) = nb + nx
    OBVIOUS
  <2> HIDE DEF nb, nx
  <2>3. QED
    BY <1>1, <2>1, <2>2
<1> HIDE DEF nb, nx
<1>3. QED
  BY <1>1, <1>2

\* What a ciphertext's phase misses, times its document value.
Error(ring, j) ==
  (RingModulus(ring) * phases[ring][j] - Component(ring, j) * params.q) * docs[j]

\* No term of the score has an error the noise bound does not foresee.
LEMMA TermFacts ==
  ASSUME RingInv, step \in {"score", "done"}, NEW ring \in Rings(params), NEW j \in Indices
  PROVE  /\ phases[ring][j] \in Int /\ Component(ring, j) \in Int /\ Error(ring, j) \in Int
         /\ -(params.q - 1) <= (2 * params.embedding_length) * Error(ring, j)
         /\ (2 * params.embedding_length) * Error(ring, j) <= params.q - 1
<1> DEFINE k == RingModulus(ring)
           q == params.q
           c == Component(ring, j)
           e == Encode(params, c, k)
           phi == phases[ring][j]
           a == max_abs_embedding_value(params)
           n == params.embedding_length
           d == docs[j]
<1>1. RingTyped /\ EncryptInv
  BY DEF RingInv
<1>2. k \in Nat \ {0} /\ q \in Nat \ {0} /\ n \in Nat
  BY <1>1, ParamsFacts
<1>3. c \in Int /\ a \in Int /\ d \in Int /\ -a <= d /\ d <= a
  <2>1. c \in 0 .. k - 1
    BY <1>1, ComponentFacts
  <2>2. c \in Int
    <3> HIDE DEF c, k
    <3>1. QED
      BY <1>2, <2>1
  <2>3. QED
    BY <1>1, <2>2, DocumentFacts
<1>4. PICK noise \in Noises : phi = e + noise
  BY <1>1 DEF EncryptInv
<1> DEFINE t == TermError(k, noise)
           s == k * noise
           h == k \div 2
<1>5. 2 * (n * (a * t)) < q
  <2>1. params \in ParamSets
    BY <1>1 DEF RingTyped
  <2>2. QED
    BY <2>1, NoiseFits DEF RingModulus
<1>6. e \in Int /\ -h <= k * e - c * q /\ k * e - c * q <= h
  <2> HIDE DEF k, c
  <2>1. QED
    BY <1>2, <1>3, EncodeFacts
<1>7. noise \in Int
  BY ParamsAssumption
<1>8. h \in Int /\ s \in Int /\ t \in Int /\ t = h + (IF noise >= 0 THEN s ELSE -s) /\ s <= t - h /\ -s <= t - h
  <2>1. t = h + k * (IF noise >= 0 THEN noise ELSE -noise)
    BY DEF TermError
  <2> HIDE DEF k, t
  <2>2. h \in Int /\ s \in Int
    BY <1>2, <1>7
  <2>3. CASE noise >= 0
    <3>1. s >= 0 /\ t = h + s
      BY <1>2, <1>7, <2>1, <2>3
    <3> HIDE DEF s, h
    <3>2. QED
      BY <2>2, <2>3, <3>1
  <2>4. CASE ~ (noise >= 0)
    <3>1. s <= 0 /\ t = h - s
      <4>1. k * (-noise) = -(k * noise) /\ k * (-noise) >= 0
        BY <1>2, <1>7, <2>4
      <4>2. t = h + k * (-noise)
        BY <2>1, <2>4
      <4> DEFINE u == k * (-noise)
      <4>3. u = -s /\ u >= 0 /\ t = h + u
        BY <4>1, <4>2
      <4> HIDE DEF u, s, h
      <4>4. QED
        BY <2>2, <4>3
    <3> HIDE DEF s, h
    <3>2. QED
      BY <2>2, <2>4, <3>1
  <2>5. QED
    BY <2>3, <2>4
<1> DEFINE r == k * phi - c * q
<1>9. r \in Int /\ -t <= r /\ r <= t
  <2> DEFINE x == k * e
             y == c * q
  <2>1. k * phi = x + s /\ x \in Int /\ y \in Int
    <3> HIDE DEF k, e, phi, c
    <3>1. QED
      BY <1>2, <1>3, <1>4, <1>6, <1>7
  <2>2. r = (x + s) - y /\ -h <= x - y /\ x - y <= h
    BY <1>6, <2>1
  <2> HIDE DEF r, t, s, h, x, y
  <2>3. QED
    BY <1>8, <2>1, <2>2
<1>10. phi \in Int
  <2> HIDE DEF phi, e
  <2>1. QED
    BY <1>4, <1>6, <1>7
<1>11. Error(ring, j) = r * d
  BY DEF Error
<1> DEFINE b == a * t
           x == r * d
<1>12. x \in Int /\ b \in Int /\ -b <= x /\ x <= b
  <2> HIDE DEF a, t, r, d
  <2>1. QED
    BY <1>3, <1>8, <1>9, ProductBound
<1>13. -(q - 1) <= (2 * n) * x /\ (2 * n) * x <= q - 1
  <2>1. 2 * (n * b) < q /\ q \in Int
    BY <1>2, <1>5
  <2> HIDE DEF n, x, b, q
  <2>2. QED
    BY <1>2, <1>12, <2>1, ScaledBound
<1>14. QED
  BY <1>3, <1>10, <1>11, <1>12, <1>13

\* Every ring decrypts to its residue of the dot product.
LEMMA RingScore ==
  ASSUME RingInv, step \in {"score", "done"}, NEW ring \in Rings(params)
  PROVE  /\ Decrypted(ring) \in 0 .. RingModulus(ring) - 1
         /\ Representable => Decrypted(ring) = DocProduct % RingModulus(ring)
<1> DEFINE k == RingModulus(ring)
           q == params.q
           n == params.embedding_length
           stores == [j \in Indices |-> phases[ring][j] * stored[ring][j]]
           f == [j \in Indices |-> phases[ring][j] * docs[j]]
           g == [j \in Indices |-> Component(ring, j) * docs[j]]
           h == [j \in Indices |-> Error(ring, j)]
           products == [j \in Indices |-> raw[j] * docs[j]]
<1>1. RingTyped /\ k \in Nat \ {0} /\ q \in Nat \ {0} /\ n \in Nat
  BY ParamsFacts DEF RingInv
<1>2. ASSUME NEW j \in Indices
      PROVE  /\ phases[ring][j] \in Int /\ Component(ring, j) \in Int /\ docs[j] \in Int /\ raw[j] \in Int
             /\ stored[ring][j] = docs[j] % q /\ docs[j] % q \in Int
  <2>1. phases[ring][j] \in Int /\ Component(ring, j) \in Int
    BY TermFacts
  <2>2. docs[j] \in Int /\ raw[j] \in Int
    BY <1>1, DocumentFacts
  <2>3. stored[ring][j] = reduce_mod(docs[j], q)
    BY DEF RingInv, StoredInv
  <2>4. reduce_mod(docs[j], q) = docs[j] % q /\ docs[j] % q \in 0 .. q - 1
    BY <1>1, <2>2, ReduceFacts
  <2>5. QED
    BY <1>1, <2>1, <2>2, <2>3, <2>4
<1>3. Terms(stores, n) /\ Terms(f, n) /\ Terms(g, n) /\ Terms(h, n) /\ Terms(products, n)
  <2>1. \A j \in Indices : /\ stores[j] \in Int /\ f[j] \in Int /\ g[j] \in Int /\ h[j] \in Int
                           /\ products[j] \in Int
    BY <1>2, TermFacts
  <2> HIDE DEF stores, f, g, h, products
  <2>2. QED
    BY <2>1 DEF Terms, Indices
<1>4. Total(stores, n) % q = Total(f, n) % q
  <2>1. ASSUME NEW j \in Indices PROVE stores[j] % q = f[j] % q
    <3> DEFINE x == phases[ring][j]
               y == docs[j]
    <3>1. x \in Int /\ y \in Int /\ y % q \in Int /\ stores[j] = x * (y % q) /\ f[j] = x * y
      BY <1>2
    <3> HIDE DEF x, y, stores, f, q
    <3>2. ((y % q) * x) % q = (y * x) % q
      BY <1>1, <3>1, MultiplyResidue
    <3>3. (y % q) * x = x * (y % q) /\ y * x = x * y
      BY <3>1
    <3>4. QED
      BY <3>1, <3>2, <3>3
  <2> HIDE DEF stores, f, q
  <2>2. \A j \in 0 .. n - 1 : stores[j] % q = f[j] % q
    BY <2>1 DEF Indices
  <2>3. QED
    BY <1>1, <1>3, <2>2, TotalOfResidues
<1>5. k * Total(f, n) = q * Total(g, n) + Total(h, n)
  <2>1. Combined(f, g, h, k, q, n)
    <3>1. ASSUME NEW j \in Indices PROVE k * f[j] = q * g[j] + h[j]
      <4> DEFINE x == phases[ring][j]
                 y == docs[j]
                 c == Component(ring, j)
      <4>1. /\ x \in Int /\ y \in Int /\ c \in Int
            /\ f[j] = x * y /\ g[j] = c * y /\ h[j] = (k * x - c * q) * y
        BY <1>2 DEF Error
      <4> HIDE DEF x, y, c, f, g, h, k, q
      <4>2. k * (x * y) = q * (c * y) + (k * x - c * q) * y
        BY <1>1, <4>1
      <4>3. QED
        BY <4>1, <4>2
    <3> HIDE DEF f, g, h, k, q
    <3>2. QED
      BY <3>1 DEF Combined, Indices
  <2> HIDE DEF f, g, h, k, q, n
  <2>2. QED
    BY <1>1, <1>3, <2>1, TotalLinear
<1> DEFINE F == Total(f, n)
           G == Total(g, n)
           E == Total(h, n)
<1>6. F \in Int /\ G \in Int /\ E \in Int
  <2> HIDE DEF f, g, h, n
  <2>1. QED
    BY <1>1, <1>3, TotalSteps
<1>7. 2 * E < q /\ -2 * E < q
  <2>1. \A j \in 0 .. n - 1 : -(q - 1) <= (2 * n) * h[j] /\ (2 * n) * h[j] <= q - 1
    BY TermFacts DEF Indices
  <2> HIDE DEF h, n, q
  <2>2. -(n * (q - 1)) <= (2 * n) * E /\ (2 * n) * E <= n * (q - 1)
    <3>1. 2 * n \in Int /\ q - 1 \in Int
      BY <1>1
    <3>2. QED
      BY <1>1, <1>3, <2>1, <3>1, TotalBounded
  <2>3. CASE n = 0
    <3>1. E = 0
      BY <1>3, <2>3, TotalSteps
    <3> HIDE DEF E
    <3>2. QED
      BY <1>1, <3>1
  <2>4. CASE n # 0
    <3> HIDE DEF E
    <3> DEFINE b == q - 1
               w == 2 * E
    <3>1. b \in Int /\ w \in Int /\ (2 * n) * E = n * w
      BY <1>1, <1>6
    <3>2. n * (b - w) >= 0 /\ n * (b + w) >= 0
      <4>1. n * (b - w) = n * b - n * w /\ n * (b + w) = n * b + n * w /\ n * b \in Int /\ n * w \in Int
        BY <1>1, <3>1
      <4> DEFINE u == n * b
                 v == n * w
      <4>2. u \in Int /\ v \in Int /\ -u <= v /\ v <= u
        BY <2>2, <3>1, <4>1
      <4>3. u - v >= 0 /\ u + v >= 0
        <5> HIDE DEF u, v
        <5>1. QED
          BY <4>2
      <4>4. QED
        BY <4>1, <4>3
    <3>3. \A x \in Int : n * x >= 0 => x >= 0
      BY <1>1, <2>4
    <3>4. b - w >= 0 /\ b + w >= 0
      <4>1. b - w \in Int /\ b + w \in Int
        BY <3>1
      <4> HIDE DEF b, w
      <4>2. QED
        BY <3>2, <3>3, <4>1
    <3>5. QED
      BY <1>1, <1>6, <3>1, <3>4
  <2>5. QED
    BY <2>3, <2>4
<1> DEFINE sp == ScorePhase(ring)
           i == F \div q
<1>8. sp = F % q
  BY <1>4 DEF ScorePhase
<1>9. sp \in Int /\ i \in Int /\ F = i * q + sp
  <2> HIDE DEF F, sp, q
  <2>1. QED
    BY <1>1, <1>6, <1>8, Division
<1>10. Decrypted(ring) = Decode(params, sp, k)
  BY DEF Decrypted, RingModulus
<1>11. Decrypted(ring) \in 0 .. k - 1
  <2> HIDE DEF k, sp
  <2>1. QED
    BY <1>1, <1>9, <1>10, DecodeRange
<1>12. Decrypted(ring) = G % k
  <2> DEFINE s == G - k * i
  <2> HIDE DEF F, G, E, sp, i, k
  <2>1. s \in Int
    BY <1>1, <1>6, <1>9
  <2>2. sp * k = s * q + E
    <3> HIDE DEF q
    <3>1. sp = F - i * q
      <4> DEFINE y == i * q
      <4>1. y \in Int /\ F = y + sp
        BY <1>1, <1>9
      <4> HIDE DEF y
      <4>2. sp = F - y
        BY <1>6, <1>9, <4>1
      <4>3. QED
        BY <4>2 DEF y
    <3>2. sp * k = k * F - k * (i * q)
      BY <1>1, <1>6, <1>9, <3>1
    <3>3. s * q = q * G - k * (i * q)
      BY <1>1, <1>6, <1>9
    <3> DEFINE a1 == k * F
               a2 == q * G
               a3 == k * (i * q)
               a4 == sp * k
               a5 == s * q
    <3>4. a1 \in Int /\ a2 \in Int /\ a3 \in Int /\ a1 = a2 + E /\ a4 = a1 - a3 /\ a5 = a2 - a3
      BY <1>1, <1>5, <1>6, <1>9, <3>2, <3>3 DEF F, G, E
    <3>5. a4 = a5 + E
      <4> HIDE DEF a1, a2, a3, a4, a5
      <4>1. QED
        BY <1>6, <3>4
    <3>6. QED
      BY <3>5
  <2> HIDE DEF s
  <2>3. Decode(params, sp, k) = s % k
    BY <1>1, <1>6, <1>7, <1>9, <2>1, <2>2, DecodeFacts
  <2>4. s % k = G % k
    <3>1. s = G + (-i) * k /\ -i \in Int
      BY <1>1, <1>6, <1>9 DEF s
    <3> DEFINE j == -i
    <3>2. j \in Int /\ s = G + j * k
      BY <3>1
    <3> HIDE DEF j
    <3>3. QED
      BY <1>1, <1>6, <2>1, <3>2, SameResidue
  <2>5. QED
    BY <1>10, <2>3, <2>4
<1>13. ASSUME Representable PROVE G % k = DocProduct % k
  <2>1. ASSUME NEW j \in Indices PROVE g[j] % k = products[j] % k
    <3> DEFINE c == Component(ring, j)
               x == raw[j]
               y == docs[j]
    <3>1. c \in Int /\ x \in Int /\ y \in Int /\ g[j] = c * y /\ products[j] = x * y
      BY <1>2
    <3>2. c % k = x % k
      BY <1>1, <1>13, ComponentFacts
    <3> HIDE DEF c, x, y, k, g, products
    <3>3. ((c % k) * y) % k = (c * y) % k /\ ((x % k) * y) % k = (x * y) % k
      BY <1>1, <3>1, MultiplyResidue
    <3>4. QED
      BY <3>1, <3>2, <3>3
  <2> HIDE DEF g, products, k
  <2>2. \A j \in 0 .. n - 1 : g[j] % k = products[j] % k
    BY <2>1 DEF Indices
  <2>3. Total(g, n) % k = Total(products, n) % k
    BY <1>1, <1>3, <2>2, TotalOfResidues
  <2>4. QED
    BY <2>3 DEF DocProduct, products
<1>14. QED
  BY <1>11, <1>12, <1>13

\* The dot product is not above the worst one, in size.
LEMMA DocProductBound ==
  ASSUME RingTyped
  PROVE  /\ DocProduct \in Int /\ WorstDotProduct(params) \in Int
         /\ -WorstDotProduct(params) <= DocProduct /\ DocProduct <= WorstDotProduct(params)
<1> DEFINE n == params.embedding_length
           a == max_abs_embedding_value(params)
           h == [j \in Indices |-> raw[j] * docs[j]]
           T == Total(h, n)
<1>1. n \in Nat
  BY ParamsFacts
<1>2. ASSUME NEW j \in Indices
      PROVE  a \in Int /\ h[j] \in Int /\ -(a * a) <= h[j] /\ h[j] <= a * a
  <2> DEFINE x == raw[j]
             y == docs[j]
  <2>1. /\ a \in Int /\ x \in Int /\ y \in Int /\ h[j] = x * y
        /\ -a <= x /\ x <= a /\ -a <= y /\ y <= a
    BY DocumentFacts
  <2> HIDE DEF a, x, y, h
  <2>2. -(a * a) <= x * y /\ x * y <= a * a
    BY <2>1, ProductBound
  <2>3. QED
    BY <2>1, <2>2
<1>3. Terms(h, n)
  <2> HIDE DEF h
  <2>1. QED
    BY <1>2 DEF Terms, Indices
<1>4. T \in Int
  <2> HIDE DEF h, n
  <2>1. QED
    BY <1>1, <1>3, TotalSteps
<1>5. a \in Int
  <2>1. params.embedding_precision - 1 \in Nat
    BY ParamsAssumption DEF RingTyped
  <2> DEFINE e == params.embedding_precision - 1
  <2>2. e \in Nat
    BY <2>1
  <2> HIDE DEF e
  <2>3. 2 ^ e \in Int
    BY <2>2
  <2>4. a = -(-(2 ^ e))
    BY DEF max_abs_embedding_value, min_embedding_value, e
  <2> HIDE DEF a
  <2>5. QED
    BY <2>3, <2>4
<1> DEFINE b == a * a
<1>6. b \in Int /\ WorstDotProduct(params) = b * n
  <2>1. WorstDotProduct(params) = b * n
    BY DEF WorstDotProduct
  <2> HIDE DEF a
  <2>2. QED
    BY <1>5, <2>1
<1>7. -(n * b) <= T /\ T <= n * b
  <2>1. \A k \in 0 .. n - 1 : -b <= 1 * h[k] /\ 1 * h[k] <= b
    <3> HIDE DEF h, a
    <3>1. QED
      BY <1>2 DEF Indices
  <2> HIDE DEF h, n, b
  <2>2. -(n * b) <= 1 * T /\ 1 * T <= n * b
    BY <1>1, <1>3, <1>6, <2>1, TotalBounded
  <2>3. QED
    BY <1>4, <2>2
<1>8. DocProduct = T
  BY DEF DocProduct
<1>9. b * n = n * b /\ b * n \in Int
  <2> HIDE DEF b, n
  <2>1. QED
    BY <1>1, <1>6
<1> HIDE DEF T, n, b
<1>10. QED
  BY <1>4, <1>6, <1>7, <1>8, <1>9

\* What the client reads, before it centers it.
Combination == Recompose(params, [ring \in Rings(params) |-> Decrypted(ring)])

LEMMA CombinationFacts ==
  ASSUME RingInv, step \in {"score", "done"}
  PROVE  /\ Combination \in Int
         /\ params.num_component_rings = 1 => Combination \in 0 .. params.plaintext_modulus - 1
         /\ Representable => Combination = DocProduct % combined_modulus(params)
<1>1. RingTyped
  BY DEF RingInv
<1>2. CASE params.num_component_rings = 1
  <2>1. 1 \in Rings(params) /\ RingModulus(1) = params.plaintext_modulus
        /\ combined_modulus(params) = params.plaintext_modulus
    BY <1>2 DEF Rings, RingModulus, component_ring_modulus, combined_modulus
  <2>2. Combination = Decrypted(1)
    BY <1>2, <2>1 DEF Combination, Recompose
  <2>3. Decrypted(1) \in 0 .. params.plaintext_modulus - 1
        /\ (Representable => Decrypted(1) = DocProduct % params.plaintext_modulus)
    BY <2>1, RingScore
  <2>4. params.plaintext_modulus \in Nat
    BY <1>1, ParamsFacts
  <2> HIDE DEF Combination
  <2>5. QED
    BY <2>1, <2>2, <2>3, <2>4
<1>3. CASE params.num_component_rings = 2
  <2> DEFINE m == params.comp_ring_modulus
             r1 == Decrypted(1)
             r2 == Decrypted(2)
  <2>1. m \in Nat /\ m >= 2 /\ combined_modulus(params) = crt_combined_modulus(m)
    BY <1>1, <1>3, ParamsAssumption DEF RingTyped, combined_modulus
  <2>2. 1 \in Rings(params) /\ 2 \in Rings(params) /\ RingModulus(1) = m /\ RingModulus(2) = m - 1
    BY <1>3, <2>1 DEF Rings, RingModulus, component_ring_modulus
  <2>3. Combination = crt_recompose(r1, r2, m)
    BY <1>3, <2>2 DEF Combination, Recompose
  <2>4. /\ r1 \in 0 .. m - 1 /\ (Representable => r1 = DocProduct % m)
        /\ r2 \in 0 .. m - 1 - 1 /\ (Representable => r2 = DocProduct % (m - 1))
    BY <2>2, RingScore
  <2> HIDE DEF m, r1, r2, Combination
  <2>5. Combination \in Int
    <3> DEFINE t == reduce_mod(r2 - r1, m - 1)
    <3>1. Combination = r1 + m * t
      BY <2>3 DEF crt_recompose, reduce_mod
    <3>2. r1 \in Int /\ r2 - r1 \in Int /\ m - 1 \in Nat \ {0}
      BY <2>1, <2>4
    <3> DEFINE d == r2 - r1
               l == m - 1
    <3>3. d \in Int /\ l \in Nat \ {0} /\ t = reduce_mod(d, l)
      BY <3>2
    <3> HIDE DEF d, l, t
    <3>4. t \in 0 .. l - 1
      BY <3>3, ReduceFacts
    <3>5. QED
      BY <2>1, <3>1, <3>2, <3>3, <3>4
  <2>6. DocProduct \in Int
    BY <1>1, DocProductBound
  <2>7. crt_recompose(DocProduct % m, DocProduct % (m - 1), m) = DocProduct % crt_combined_modulus(m)
    BY <2>1, <2>6, RecomposeFacts
  <2>8. QED
    BY <1>3, <2>1, <2>3, <2>4, <2>5, <2>7
<1>4. QED
  BY <1>1, <1>2, <1>3, ParamsFacts

\* The true dot product is read, for every parameter set that passes the overflow
\* check, every number of values, any noise the parameters are chosen for, one ring
\* or two.
THEOREM ProductIsRead == RingSpec => []ScoreIsDotProduct
<1>1. RingInv => ScoreIsDotProduct
  <2> SUFFICES ASSUME RingInv PROVE ScoreIsDotProduct
    OBVIOUS
  <2>1. RingTyped
    BY DEF RingInv
  <2>2. step = "done" => score = centered_residue(Combination, combined_modulus(params))
    BY DEF RingInv, ReadInv, Combination
  <2>3. RingTypeOK
    <3>1. step # "sample" => \A ring \in Rings(params), j \in Indices :
            components[ring][j] \in 0 .. component_ring_modulus(params, ring) - 1
      BY <2>1, ComponentFacts DEF RingInv, SplitInv, RingModulus
    <3>2. step = "done" => score \in Int
      <4> DEFINE m == combined_modulus(params)
      <4>1. m \in Nat \ {0}
        BY <2>1, ParamsFacts
      <4>2. step = "done" => Combination \in Int
        BY CombinationFacts
      <4> HIDE DEF m
      <4>3. \A x \in Int : centered_residue(x, m) \in Int
        BY <4>1 DEF centered_residue
      <4>4. QED
        BY <2>2, <4>2, <4>3 DEF m
    <3>3. QED
      BY <2>1, <3>1, <3>2 DEF RingTyped, RingTypeOK
  <2>4. ASSUME step = "done", ~ dot_product_can_overflow(params), Representable
        PROVE  score = DocProduct
    <3> DEFINE m == combined_modulus(params)
               w == WorstDotProduct(params)
               p == params.plaintext_modulus
    <3>1. m \in Nat \ {0} /\ p \in Nat \ {0} /\ p <= m
      BY <2>1, ParamsFacts
    <3>2. DocProduct \in Int /\ w \in Int /\ -w <= DocProduct /\ DocProduct <= w
      BY <2>1, DocProductBound
    <3>3. ~ (w >= (p + 1) \div 2)
      BY <2>4 DEF dot_product_can_overflow
    <3>4. 2 * DocProduct <= m /\ -2 * DocProduct < m
      <4> HIDE DEF m, w, p
      <4>1. QED
        BY <3>1, <3>2, <3>3
    <3>5. centered_residue(DocProduct % m, m) = DocProduct
      <4> HIDE DEF m
      <4>1. QED
        BY <3>1, <3>2, <3>4, CenteredOf
    <3>6. Combination = DocProduct % m
      BY <2>4, CombinationFacts
    <3>7. QED
      BY <2>2, <2>4, <3>5, <3>6
  <2>5. QED
    BY <2>3, <2>4 DEF ScoreIsDotProduct, Representable, DocProduct
<1>2. QED
  BY <1>1, RingInvariant, PTL

\* Under an odd modulus the overflow check is tight: where it fails, the product of
\* the largest values is not what the client reads.
THEOREM OverflowCheckIsTight == RingSpec => []OverflowIsReal
<1>1. RingInv => OverflowIsReal
  <2> SUFFICES ASSUME RingInv, step = "done", dot_product_can_overflow(params),
                      params.num_component_rings = 1, params.plaintext_modulus % 2 = 1
               PROVE  score # WorstDotProduct(params)
    BY DEF OverflowIsReal
  <2> DEFINE p == params.plaintext_modulus
             w == WorstDotProduct(params)
             x == Combination
  <2>1. p \in Nat \ {0} /\ combined_modulus(params) = p /\ w \in Int
    BY ParamsFacts, DocProductBound DEF RingInv, combined_modulus
  <2>2. x \in 0 .. p - 1 /\ score = centered_residue(x, p)
    BY <2>1, CombinationFacts DEF RingInv, ReadInv, Combination
  <2>3. w >= (p + 1) \div 2 /\ p % 2 = 1
    BY DEF dot_product_can_overflow
  <2> HIDE DEF p, w, x
  <2>4. score <= p \div 2
    <3>1. score = IF x > p \div 2 THEN x - p ELSE x
      BY <2>2 DEF centered_residue
    <3>2. QED
      BY <2>1, <2>2, <3>1
  <2>5. p \div 2 < (p + 1) \div 2 /\ p \div 2 \in Int /\ (p + 1) \div 2 \in Int
    BY <2>1, <2>3
  <2>6. score \in Int
    <3>1. score = IF x > p \div 2 THEN x - p ELSE x
      BY <2>2 DEF centered_residue
    <3>2. QED
      BY <2>1, <2>2, <3>1
  <2>7. w > score
    BY <2>1, <2>3, <2>4, <2>5, <2>6
  <2>8. QED
    BY <2>1, <2>6, <2>7 DEF w
<1>2. QED
  BY <1>1, RingInvariant, PTL
=============================================================================
