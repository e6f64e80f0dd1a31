------------------------------ MODULE Scoring ------------------------------
(***************************************************************************)
(* process_query and the client's decryption: the embedding and the        *)
(* selector are switched, every (cluster, split) is scored and masked by   *)
(* its selector bit, in OpenMP loops; the masked scores are summed over    *)
(* the clusters, and the client takes the best decoded score.              *)
(*                                                                         *)
(* The encryption scheme is external: a ciphertext stands for the plain    *)
(* value it decrypts to, modulo the plaintext modulus.                     *)
(***************************************************************************)
EXTENDS Integers, FiniteSets, FiniteSetsExt, SignedRings

CONSTANTS
  Workers,          \* OpenMP threads
  NumClusters,      \* params.num_clusters
  ClusterSize,      \* params.cluster_size, every cluster's
  EmbeddingLength,  \* params.embedding_length
  N,                \* params.n, coefficients of a polynomial
  PlaintextModulus, \* params.plaintext_modulus
  ClusterData,      \* contents a cluster may have, [document -> [j -> value]]
  QueryEmbeddings,  \* query embeddings, [j -> value]
  Idle, Null

Clusters == 0 .. NumClusters - 1
Components == 0 .. EmbeddingLength - 1
Documents == 0 .. ClusterSize - 1
Coefficients == 0 .. N - 1
SplitsPerCluster == (ClusterSize + N - 1) \div N
Splits == 0 .. SplitsPerCluster - 1

ASSUME ScoringAssumption ==
  /\ NumClusters \in Nat \ {0} /\ ClusterSize \in Nat \ {0}
  /\ EmbeddingLength \in Nat \ {0} /\ N \in Nat \ {0}
  /\ PlaintextModulus \in Nat \ {0}
  /\ ClusterData \subseteq [Documents -> [Components -> Int]]
  /\ QueryEmbeddings \subseteq [Components -> Int]
  /\ Idle \notin [phase : {"rlwe", "rgsw", "pairs"}, idx : Nat]
  /\ Null \notin Int \cup [Coefficients -> 0 .. PlaintextModulus - 1]

DotProduct(embedding, data, document) ==
  Total([j \in Components |-> embedding[j] * data[document][j]], EmbeddingLength)

\* dot_product_can_overflow has refused parameters with greater scores.
ASSUME NoOverflow ==
  \A embedding \in QueryEmbeddings, data \in ClusterData, document \in Documents :
    LET score == DotProduct(embedding, data, document)
    IN  2 * score <= PlaintextModulus /\ -2 * score < PlaintextModulus

VARIABLES
  cluster_data,     \* db.cluster_data_
  query, desired,   \* what the query encrypts
  phase,            \* rlwe, rgsw, pairs, reduce, response, done
  next,             \* the first iteration of the phase's loop no thread has taken
  task,             \* the phase and iteration each thread is executing
  query_eval, rgsw_ct, masked, final_result,
  best              \* the client's best position, over all splits

vars == <<cluster_data, query, desired, phase, next, task,
          query_eval, rgsw_ct, masked, final_result, best>>

Init ==
  /\ cluster_data \in [Clusters -> ClusterData]
  /\ query \in QueryEmbeddings /\ desired \in Clusters
  /\ phase = "rlwe" /\ next = 0
  /\ task = [w \in Workers |-> Idle]
  /\ query_eval = [j \in Components |-> Null]
  /\ rgsw_ct = [c \in Clusters |-> Null]
  /\ masked = [s \in Splits |-> [c \in Clusters |-> Null]]
  /\ final_result = [s \in Splits |-> [i \in Coefficients |-> 0]]
  /\ best = Null

----------------------------------------------------------------------------
(* The parallel loops. *)

Iterations(p) ==
  CASE p = "rlwe"  -> EmbeddingLength
    [] p = "rgsw"  -> NumClusters
    [] p = "pairs" -> NumClusters * SplitsPerCluster

Loops == {"rlwe", "rgsw", "pairs"}
After(p) == CASE p = "rlwe" -> "rgsw" [] p = "rgsw" -> "pairs" [] p = "pairs" -> "reduce"

\* Mutant: the loop ends one iteration early.
Take_LastLeft(w) ==
  /\ phase \in Loops /\ task[w] = Idle /\ next < Iterations(phase) - 1
  /\ task' = [task EXCEPT ![w] = [phase |-> phase, idx |-> next]]
  /\ next' = next + 1
  /\ UNCHANGED <<cluster_data, query, desired, phase, query_eval, rgsw_ct, masked, final_result, best>>

\* schedule(dynamic): an idle thread takes the next iteration.
Take(w) ==
  /\ phase \in Loops /\ task[w] = Idle /\ next < Iterations(phase)
  /\ task' = [task EXCEPT ![w] = [phase |-> phase, idx |-> next]]
  /\ next' = next + 1
  /\ UNCHANGED <<cluster_data, query, desired, phase, query_eval, rgsw_ct, masked, final_result, best>>

EndLoop ==
  /\ phase \in Loops /\ next = Iterations(phase)
  /\ phase' = After(phase)
  /\ next' = 0
  /\ UNCHANGED <<cluster_data, query, desired, task, query_eval, rgsw_ct, masked, final_result, best>>

\* Mutant: nowait.
Barrier_NoWait == EndLoop

\* The loop's implicit barrier.
Barrier == EndLoop /\ \A w \in Workers : task[w] = Idle

----------------------------------------------------------------------------
(* The iterations. *)

Running(w, p) == task[w] # Idle /\ task[w].phase = p

Finish(w) ==
  /\ task' = [task EXCEPT ![w] = Idle]
  /\ UNCHANGED <<cluster_data, query, desired, phase, next, final_result, best>>

SwitchEmbedding(w) ==
  /\ Running(w, "rlwe")
  /\ query_eval' = [query_eval EXCEPT ![task[w].idx] = query[task[w].idx] % PlaintextModulus]
  /\ Finish(w)
  /\ UNCHANGED <<rgsw_ct, masked>>

SwitchSelector(w) ==
  /\ Running(w, "rgsw")
  /\ rgsw_ct' = [rgsw_ct EXCEPT ![task[w].idx] = IF task[w].idx = desired THEN 1 ELSE 0]
  /\ Finish(w)
  /\ UNCHANGED <<query_eval, masked>>

\* Mutant: the cluster is the quotient by the number of clusters.
Pair_WrongDivisor(idx) == [cluster |-> idx \div NumClusters, split |-> idx % SplitsPerCluster]

Pair(idx) == [cluster |-> idx \div SplitsPerCluster, split |-> idx % SplitsPerCluster]

\* build_split: documents past the cluster's end are 0.
BuildSplit(c, s) ==
  [j \in Components |-> [i \in Coefficients |->
    LET embedding_idx == s * N + i IN
    IF embedding_idx < ClusterSize THEN cluster_data[c][embedding_idx][j] ELSE 0]]

SplitScore(db_split) ==
  [i \in Coefficients |->
     Total([j \in Components |-> query_eval[j] * db_split[j][i]], EmbeddingLength) % PlaintextModulus]

\* Mutant: the selector bit of the next cluster.
SelectorBit_Next(c) == rgsw_ct[(c + 1) % NumClusters]

SelectorBit(c) == rgsw_ct[c]

ScorePair(w) ==
  /\ Running(w, "pairs")
  /\ LET pair == Pair(task[w].idx)
         score == SplitScore(BuildSplit(pair.cluster, pair.split))
     IN  masked' = [masked EXCEPT ![pair.split][pair.cluster] =
                      [i \in Coefficients |-> SelectorBit(pair.cluster) * score[i]]]
  /\ Finish(w)
  /\ UNCHANGED <<query_eval, rgsw_ct>>

\* The sequential reduction over the clusters.
Reduce ==
  /\ phase = "reduce"
  /\ final_result' = [s \in Splits |-> [i \in Coefficients |->
       Total([c \in Clusters |-> masked[s][c][i]], NumClusters) % PlaintextModulus]]
  /\ phase' = "response"
  /\ UNCHANGED <<cluster_data, query, desired, next, task, query_eval, rgsw_ct, masked, best>>

----------------------------------------------------------------------------
(* The client: decrypt_and_find_best. *)

CenteredResidue(value) == centered_residue(value, PlaintextModulus)

\* The decoded score at a position counted over all splits.
Decoded(k) == CenteredResidue(final_result[k \div N][k % N])

Positions == 0 .. SplitsPerCluster * N - 1

\* Mutant: a split's last position is not looked at.
FirstBest_SkipsLast ==
  LET Seen == {k \in Positions : N = 1 \/ k % N # N - 1} IN
  Min({k \in Seen : \A l \in Seen : Decoded(l) <= Decoded(k)})

\* The strict comparison keeps the first of equal scores.
FirstBest == Min({k \in Positions : \A l \in Positions : Decoded(l) <= Decoded(k)})

DecryptAndFindBest ==
  /\ phase = "response"
  /\ best' = FirstBest
  /\ phase' = "done"
  /\ UNCHANGED <<cluster_data, query, desired, next, task, query_eval, rgsw_ct, masked, final_result>>

Step(w) == Take(w) \/ SwitchEmbedding(w) \/ SwitchSelector(w) \/ ScorePair(w)

Sequential == Barrier \/ Reduce \/ DecryptAndFindBest

Next == (\E w \in Workers : Step(w)) \/ Sequential

Spec == Init /\ [][Next]_vars

\* OpenMP runs every thread of the team to the end of the loop.
FairSpec == Spec /\ WF_vars(Sequential) /\ \A w \in Workers : WF_vars(Step(w))

----------------------------------------------------------------------------
(* Properties. *)

\* Every variable keeps its type.
\* (Checked as a part of InputsReady.)
TypeOK ==
  /\ cluster_data \in [Clusters -> ClusterData]
  /\ phase \in Loops \cup {"reduce", "response", "done"}
  /\ next \in Nat
  /\ \A w \in Workers : task[w] = Idle \/ (Running(w, phase) /\ task[w].idx < next)
  /\ query_eval \in [Components -> 0 .. PlaintextModulus - 1 \cup {Null}]
  /\ rgsw_ct \in [Clusters -> {0, 1, Null}]
  /\ \A s \in Splits, c \in Clusters :
       masked[s][c] = Null \/ masked[s][c] \in [Coefficients -> 0 .. PlaintextModulus - 1]
  /\ final_result \in [Splits -> [Coefficients -> 0 .. PlaintextModulus - 1]]
  /\ best \in Positions \cup {Null}

\* No iteration reads a pointer another loop has still to fill.
InputsReady ==
  /\ TypeOK
  /\ (\E w \in Workers : Running(w, "pairs")) =>
       /\ \A j \in Components : query_eval[j] # Null
       /\ \A c \in Clusters : rgsw_ct[c] # Null
  /\ phase = "reduce" => \A s \in Splits, c \in Clusters : masked[s][c] # Null

\* No two threads write the same slot of masked, and none writes one again.
OneWriterPerSlot ==
  \A v, w \in Workers : Running(v, "pairs") /\ Running(w, "pairs") =>
    LET pair == Pair(task[v].idx) IN
    /\ v # w => pair # Pair(task[w].idx)
    /\ masked[pair.split][pair.cluster] = Null

Score(document) == DotProduct(query, cluster_data[desired], document)

\* The response decodes to the exact scores of the desired cluster's documents,
\* in their order, whichever threads computed them.
ScoresOfDesiredCluster ==
  phase \in {"response", "done"} =>
    \A k \in Positions : Decoded(k) = IF k \in Documents THEN Score(k) ELSE 0

IsFirstBest(k) ==
  k \in Documents /\ \A e \in Documents :
    Score(e) <= Score(k) /\ (e < k => Score(e) < Score(k))

\* The client's result is the first document of the best score, ties with a
\* padded position included. Only when all documents score below 0 and the last
\* split is padded does it name no document, but the first position of the
\* padding.
BestDocumentFound ==
  phase = "done" =>
    /\ Positions = Documents \/ (\E d \in Documents : Score(d) >= 0) => IsFirstBest(best)
    /\ Positions # Documents /\ (\A d \in Documents : Score(d) < 0) => best = ClusterSize

\* Every query is answered.
QueryEnds == <>(phase = "done")
=============================================================================
