------------------------- MODULE ServerStartupProofs -------------------------
(***************************************************************************)
(* For any parameter files, arguments, databases and sessions: parameters  *)
(* in use are consistent, a server that started serves the database that   *)
(* was written, and no query ends it while the cluster counts agree.       *)
(***************************************************************************)
EXTENDS ServerStartup, SequenceTheorems, WellFoundedInduction, FiniteSetTheorems, TLAPS

(* Induction over the natural numbers, for sets of them. *)

LEMMA LessIsWellFounded == IsWellFoundedOn({p \in Nat \X Nat : p[1] < p[2]}, Nat)
BY NatLessThanWellFounded DEF OpToRel

\* Numbers have a least one.
LEMMA LeastNumber ==
  ASSUME NEW T, T \subseteq Nat, T # {}
  PROVE  \E x \in T : \A y \in T : x <= y
<1>1. PICK x \in T : \A y \in T : ~ (<<y, x>> \in {p \in Nat \X Nat : p[1] < p[2]})
  BY LessIsWellFounded, WFMin
<1>2. \A y \in T : ~ (y < x)
  BY <1>1
<1>3. QED
  BY <1>2

\* A set that holds 0 and, below n, the successor of what it holds.
LEMMA Induction ==
  ASSUME NEW n \in Nat, NEW T, 0 \in T, \A k \in 0 .. n - 1 : k \in T => k + 1 \in T
  PROVE  \A k \in 0 .. n : k \in T
<1> SUFFICES ASSUME NEW m \in 0 .. n, m \notin T PROVE FALSE
  OBVIOUS
<1> DEFINE Missing == {k \in 0 .. n : k \notin T}
<1>1. PICK k \in Missing : \A j \in Missing : k <= j
  <2>1. Missing \subseteq Nat /\ Missing # {}
    OBVIOUS
  <2>2. QED
    BY <2>1, LeastNumber
<1>2. k - 1 \in 0 .. n - 1 /\ k - 1 \notin Missing
  BY <1>1
<1>3. k - 1 \in T
  BY <1>2
<1>4. (k - 1) + 1 \in T
  BY <1>2, <1>3
<1>5. QED
  BY <1>1, <1>4

----------------------------------------------------------------------------
(* Arithmetic. *)

\* c is the least number of b's that cover a.
Covers(c, b, a) ==
  /\ c \in Int /\ b * c >= a /\ (c - 1) * b < a
  /\ a >= 0 => c >= 0
  /\ a >= 1 => c \in 1 .. a

LEMMA CeilCovers == ASSUME NEW a \in Int, NEW b \in Nat \ {0} PROVE Covers(Ceil(a, b), b, a)
<1> DEFINE c == (a + b - 1) \div b
<1>1. c \in Int /\ a + b - 1 = b * c + ((a + b - 1) % b) /\ (a + b - 1) % b \in 0 .. b - 1
  OBVIOUS
<1> HIDE DEF c
<1>2. b * c >= a /\ (c - 1) * b < a
  <2>1. (c - 1) * b = b * c - b
    BY <1>1
  <2>2. QED
    BY <1>1, <2>1
<1>3. ASSUME a >= 0 PROVE c >= 0
  <2> SUFFICES ASSUME c <= -1 PROVE FALSE
    BY <1>1, <1>3
  <2>1. (c - 1) * b <= -2 * b
    BY <1>1
  <2>2. b * c <= -b
    BY <1>1
  <2>3. QED
    BY <1>1, <1>2, <1>3, <2>1, <2>2
<1>4. ASSUME a >= 1 PROVE c \in 1 .. a
  <2>1. c >= 1
    <3> SUFFICES ASSUME c <= 0 PROVE FALSE
      BY <1>1
    <3>1. b * c <= 0
      BY <1>1
    <3>2. QED
      BY <1>1, <1>2, <1>4, <3>1
  <2>2. (c - 1) * b >= c - 1
    <3>1. (c - 1) * (b - 1) >= 0 /\ (c - 1) * b = (c - 1) * (b - 1) + (c - 1)
      BY <1>1, <2>1
    <3>2. QED
      BY <1>1, <3>1
  <2>3. QED
    BY <1>1, <1>2, <2>1, <2>2
<1>5. Ceil(a, b) = c
  BY DEF Ceil, c
<1>6. QED
  BY <1>1, <1>2, <1>3, <1>4, <1>5 DEF Covers

\* A power of two is positive: it counts the subsets of a set.
LEMMA PowerIsPositive == ASSUME NEW k \in Nat PROVE 2 ^ k \in Nat \ {0}
<1>1. IsFiniteSet(1 .. k) /\ Cardinality(1 .. k) = k
  BY FS_Interval
<1>2. IsFiniteSet(SUBSET (1 .. k)) /\ Cardinality(SUBSET (1 .. k)) = 2 ^ k
  BY <1>1, FS_SUBSET
<1>3. SUBSET (1 .. k) # {}
  OBVIOUS
<1>4. Cardinality(SUBSET (1 .. k)) \in Nat /\ Cardinality(SUBSET (1 .. k)) # 0
  BY <1>2, <1>3, FS_EmptySet, FS_CardinalityType
<1>5. QED
  BY <1>2, <1>4

\* A value less than half the modulus away from 0 survives the residues.
LEMMA CenteredResidue ==
  ASSUME NEW m \in Int, NEW w \in Nat, w < (m + 1) \div 2
  PROVE  \A v \in {w, -w} : centered_residue(reduce_mod(v, m), m) = v
<1>1. m >= 1 /\ w < m /\ w <= m \div 2 /\ m - w > m \div 2
  OBVIOUS
<1>2. w % m = w
  BY <1>1
<1>3. Remainder(w, m) = w /\ Remainder(-w, m) = -w
  BY <1>1, <1>2 DEF Remainder
<1>4. reduce_mod(w, m) = w /\ reduce_mod(-w, m) = IF w = 0 THEN 0 ELSE m - w
  BY <1>1, <1>3 DEF reduce_mod
<1>5. centered_residue(w, m) = w
  BY <1>1 DEF centered_residue
<1>6. CASE w = 0
  BY <1>4, <1>5, <1>6
<1>7. CASE w > 0
  <2>1. centered_residue(m - w, m) = -w
    BY <1>1 DEF centered_residue
  <2>2. QED
    BY <1>4, <1>5, <1>7, <2>1
<1>8. QED
  BY <1>6, <1>7

----------------------------------------------------------------------------
(* Parameters. *)

Fields ==
  {"n", "q", "plaintext_modulus", "decomposition_base_ksk", "decomposition_base_prime",
   "database_size", "embedding_length", "embedding_precision", "num_clusters", "num_servers",
   "desired_cluster_index", "num_component_rings", "comp_ring_modulus", "cluster_size",
   "splits_per_cluster", "clusters_per_server", "combined_component_ring_modulus"}

\* The primary fields have values.
Primary(p) ==
  /\ DOMAIN p = Fields
  /\ p.n \in Int /\ p.plaintext_modulus \in Int /\ p.num_clusters \in Int /\ p.num_servers \in Int
  /\ p.num_component_rings \in Int /\ p.comp_ring_modulus \in Int
  /\ p.database_size \in Nat /\ p.embedding_length \in Nat /\ p.embedding_precision \in Nat \ {0}

\* They have been checked and the others computed from them.
Consistent(p) ==
  /\ Primary(p)
  /\ p.n > 0 /\ p.num_clusters > 0 /\ p.num_servers > 0 /\ p.num_component_rings \in {1, 2}
  /\ p.num_component_rings = 2 =>
       /\ p.comp_ring_modulus >= 2
       /\ crt_combined_modulus(p.comp_ring_modulus) >= p.plaintext_modulus
       /\ p.combined_component_ring_modulus = crt_combined_modulus(p.comp_ring_modulus)
  /\ p.cluster_size = Ceil(p.database_size, p.num_clusters)
  /\ p.splits_per_cluster = Ceil(p.cluster_size, p.n)
  /\ p.clusters_per_server = Ceil(p.num_clusters, p.num_servers)

\* The worst dot product of a hard-coded set is small, also when a test pins it.
Small(p) ==
  /\ p.embedding_precision \in Nat
  /\ ~ dot_product_can_overflow(p)
  /\ program = "test" => p.embedding_precision = 2 /\ p.plaintext_modulus >= 71

ParamsInv ==
  /\ step \in {"start", "ready", "failed", "shared"} /\ built_in \in BOOLEAN
  /\ program \in {"test", "single", "distributed", "server"}
  /\ DOMAIN params = Fields
  /\ step = "start" => ~ built_in
  /\ InUse => Consistent(params)
  /\ InUse /\ built_in => Small(params)
  /\ step = "shared" => shares = Shares(params)

LEMMA FreshFacts ==
  /\ DOMAIN Fresh = Fields /\ Fresh.num_component_rings = 1 /\ Fresh.comp_ring_modulus = 0
BY DEF Fresh, Set, Fields

LEMMA DerivedFacts ==
  ASSUME NEW p, DOMAIN p = Fields
  PROVE  /\ DOMAIN Derived(p) = Fields
         /\ \A field \in Fields \ {"cluster_size", "splits_per_cluster", "clusters_per_server",
                                   "combined_component_ring_modulus"} : Derived(p)[field] = p[field]
         /\ Derived(p).cluster_size = Ceil(p.database_size, p.num_clusters)
         /\ Derived(p).splits_per_cluster = Ceil(Derived(p).cluster_size, p.n)
         /\ Derived(p).clusters_per_server = Ceil(p.num_clusters, p.num_servers)
         /\ Derived(p).combined_component_ring_modulus =
              IF p.num_component_rings = 2 THEN crt_combined_modulus(p.comp_ring_modulus) ELSE 0
BY DEF Derived, Dependent, Fields

LEMMA DerivedIsConsistent ==
  ASSUME NEW p, Primary(p), ~ Rejected(p)
  PROVE  Consistent(Derived(p))
<1> DEFINE d == Derived(p)
<1>1. DOMAIN p = Fields
  BY DEF Primary
<1>2. /\ d.n = p.n /\ d.plaintext_modulus = p.plaintext_modulus /\ d.num_clusters = p.num_clusters
      /\ d.num_servers = p.num_servers /\ d.num_component_rings = p.num_component_rings
      /\ d.comp_ring_modulus = p.comp_ring_modulus /\ d.database_size = p.database_size
      /\ d.embedding_length = p.embedding_length /\ d.embedding_precision = p.embedding_precision
  BY <1>1, DerivedFacts DEF Fields
<1>3. /\ DOMAIN d = Fields
      /\ d.cluster_size = Ceil(p.database_size, p.num_clusters)
      /\ d.splits_per_cluster = Ceil(d.cluster_size, p.n)
      /\ d.clusters_per_server = Ceil(p.num_clusters, p.num_servers)
      /\ d.combined_component_ring_modulus =
           IF p.num_component_rings = 2 THEN crt_combined_modulus(p.comp_ring_modulus) ELSE 0
  BY <1>1, DerivedFacts
<1> HIDE DEF d
<1>4. Primary(d)
  BY <1>2, <1>3 DEF Primary
<1>5. /\ p.n > 0 /\ p.num_clusters > 0 /\ p.num_servers > 0 /\ p.num_component_rings \in {1, 2}
      /\ p.num_component_rings = 2 => p.comp_ring_modulus >= 2
  BY DEF Primary, Rejected, BadShape
<1>6. p.num_component_rings = 2 => crt_combined_modulus(p.comp_ring_modulus) >= p.plaintext_modulus
  <2>1. crt_combined_modulus(p.comp_ring_modulus) \in Int
    BY DEF Primary, crt_combined_modulus
  <2>2. QED
    BY <2>1 DEF Primary, Rejected, TooSmall
<1>7. QED
  BY <1>2, <1>3, <1>4, <1>5, <1>6 DEF Consistent, d

\* What derive does with primary fields keeps the invariant.
LEMMA UseInv ==
  ASSUME ParamsInv, NEW p, Primary(p), Use(p), step \in {"start", "ready"},
         program' = program, built_in' \in BOOLEAN, built_in' => Small(p)
  PROVE  ParamsInv'
<1>1. CASE Rejected(p)
  BY <1>1 DEF Use, ParamsInv, InUse
<1>2. CASE ~ Rejected(p)
  <2>1. step' = "ready" /\ params' = Derived(p)
    BY <1>2 DEF Use
  <2>2. Consistent(Derived(p))
    BY <1>2, DerivedIsConsistent
  <2>3. DOMAIN Derived(p) = Fields
    BY <2>2 DEF Consistent, Primary
  <2>4. built_in' => Small(Derived(p))'
    <3>1. DOMAIN p = Fields
      BY DEF Primary
    <3>2. /\ Derived(p).plaintext_modulus = p.plaintext_modulus
          /\ Derived(p).embedding_length = p.embedding_length
          /\ Derived(p).embedding_precision = p.embedding_precision
      BY <3>1, DerivedFacts DEF Fields
    <3>3. QED
      BY <3>2 DEF Small, dot_product_can_overflow, WorstDotProduct, max_abs_embedding_value,
                  min_embedding_value
  <2>5. QED
    BY <2>1, <2>2, <2>3, <2>4 DEF ParamsInv, InUse, Small
<1>3. QED
  BY <1>1, <1>2

LEMMA FailInv ==
  ASSUME ParamsInv, Fail, program' = program, built_in' \in BOOLEAN PROVE ParamsInv'
BY DEF ParamsInv, Fail, InUse

\* A hard-coded set with its precision, plaintext modulus and embedding length.
Chosen(p, precision, modulus, length) ==
  /\ Primary(p)
  /\ p.embedding_precision = precision /\ p.plaintext_modulus = modulus
  /\ p.embedding_length = length

LEMMA BuiltInSets ==
  /\ Chosen(benchmark_params, 4, 100003, 64)
  /\ Chosen(test_params, 2, 71, 4)
  /\ Chosen(test_params_component_rings, 2, 71, 4)
  /\ Chosen(test_database_params, 2, 103, 10)
  /\ Chosen(test_database_params_with_splits, 2, 103, 10)
<1>1. Chosen(benchmark_params, 4, 100003, 64)
  BY DEF benchmark_params, Set, Chosen, Primary, Fields
<1>2. Chosen(test_params, 2, 71, 4)
  BY DEF test_params, Set, Chosen, Primary, Fields
<1>3. Chosen(test_params_component_rings, 2, 71, 4)
  BY <1>2 DEF test_params_component_rings, Chosen, Primary, Fields
<1>4. Chosen(test_database_params, 2, 103, 10)
  BY DEF test_database_params, Set, Chosen, Primary, Fields
<1>5. Chosen(test_database_params_with_splits, 2, 103, 10)
  <2> DEFINE d == Derived(test_database_params)
  <2>1. DOMAIN test_database_params = Fields
    BY <1>4 DEF Chosen, Primary
  <2>2. /\ DOMAIN d = Fields
        /\ \A field \in {"plaintext_modulus", "num_clusters", "num_servers", "num_component_rings",
             "comp_ring_modulus", "database_size", "embedding_length", "embedding_precision"} :
             d[field] = test_database_params[field]
    BY <2>1, DerivedFacts DEF Fields
  <2>3. test_database_params_with_splits = [d EXCEPT !.n = 2048]
    BY DEF test_database_params_with_splits
  <2> HIDE DEF d
  <2>4. QED
    BY <1>4, <2>2, <2>3 DEF Chosen, Primary, Fields
<1>6. QED
  BY <1>1, <1>2, <1>3, <1>4, <1>5

\* A worst dot product below half the plaintext modulus does not overflow.
LEMMA NoOverflow ==
  ASSUME NEW p, p.embedding_precision \in {2, 4}, p.embedding_length \in Nat,
         p.plaintext_modulus \in Int,
         LET worst == (IF p.embedding_precision = 2 THEN 4 ELSE 64) * p.embedding_length
         IN worst < (p.plaintext_modulus + 1) \div 2
  PROVE  ~ dot_product_can_overflow(p)
<1>1. CASE p.embedding_precision = 2
  <2>1. p.embedding_precision - 1 = 1
    BY <1>1
  <2>2. 2 ^ 1 = 2
    OBVIOUS
  <2>3. max_abs_embedding_value(p) = 2
    <3>1. 2 ^ (p.embedding_precision - 1) = 2
      BY <2>1, <2>2, Zenon
    <3>2. QED
      BY <3>1 DEF max_abs_embedding_value, min_embedding_value
  <2>4. WorstDotProduct(p) = 4 * p.embedding_length
    BY <2>3 DEF WorstDotProduct
  <2>5. QED
    BY <1>1, <2>4 DEF dot_product_can_overflow
<1>2. CASE p.embedding_precision = 4
  <2>1. p.embedding_precision - 1 = 3
    BY <1>2
  <2>2. 2 ^ 3 = 8
    OBVIOUS
  <2>3. max_abs_embedding_value(p) = 8
    <3>1. 2 ^ (p.embedding_precision - 1) = 8
      BY <2>1, <2>2, Zenon
    <3>2. QED
      BY <3>1 DEF max_abs_embedding_value, min_embedding_value
  <2>4. WorstDotProduct(p) = 64 * p.embedding_length
    BY <2>3 DEF WorstDotProduct
  <2>5. QED
    BY <1>2, <2>4 DEF dot_product_can_overflow
<1>3. QED
  BY <1>1, <1>2

\* No hard-coded set lets the worst dot product overflow.
LEMMA BuiltInIsSmall ==
  /\ Primary(benchmark_params) /\ (program # "test" => Small(benchmark_params))
  /\ \A p \in {test_params, test_params_component_rings, test_database_params,
               test_database_params_with_splits} : Primary(p) /\ Small(p)
<1>1. ASSUME NEW p, NEW length \in {4, 10}, NEW modulus \in {71, 103},
             Chosen(p, 2, modulus, length), length = 10 => modulus = 103
      PROVE  Primary(p) /\ Small(p)
  <2>1. 4 * length < (modulus + 1) \div 2
    BY <1>1
  <2>2. QED
    BY <1>1, <2>1, NoOverflow DEF Chosen, Small
<1>2. \A p \in {test_params, test_params_component_rings, test_database_params,
               test_database_params_with_splits} : Primary(p) /\ Small(p)
  BY <1>1, BuiltInSets
<1>3. Primary(benchmark_params) /\ (program # "test" => Small(benchmark_params))
  BY BuiltInSets, NoOverflow DEF Chosen, Small
<1>4. QED
  BY <1>2, <1>3

----------------------------------------------------------------------------
(* Steps of module Deployment. *)

LEMMA ParamsInit == Init => ParamsInv
BY FreshFacts DEF Init, ParamsInv, InUse

\* A file gives its fields, or the program ends.
LEMMA LoadInv ==
  ASSUME ParamsInv, step = "start", NEW file \in Files, NEW servers \in Int, NEW index,
         Load(file, servers, index), program' = program, built_in' = built_in
  PROVE  ParamsInv'
<1> DEFINE p == [field \in DOMAIN Fresh |->
              IF field \in Copied THEN file[field]
              ELSE CASE field = "comp_ring_modulus" ->
                          IF file.num_component_rings = 2 THEN file.comp_ring_modulus ELSE 0
                     [] field = "num_servers" -> servers
                     [] field = "desired_cluster_index" -> index
                     [] OTHER -> Fresh[field]]
<1>1. CASE Fail
  BY <1>1, FailInv DEF ParamsInv
<1>2. CASE Use(p)
  <2>1. /\ file.n \in Int /\ file.plaintext_modulus \in Int /\ file.num_clusters \in Int
        /\ file.num_component_rings \in Int /\ file.comp_ring_modulus \in Int
        /\ file.database_size \in Nat /\ file.embedding_length \in Nat
        /\ file.embedding_precision \in Nat \ {0}
    BY FilesAssumption
  <2>2. DOMAIN p = Fields
    BY FreshFacts
  <2>3. /\ p.n = file.n /\ p.plaintext_modulus = file.plaintext_modulus
        /\ p.num_clusters = file.num_clusters /\ p.num_component_rings = file.num_component_rings
        /\ p.database_size = file.database_size /\ p.embedding_length = file.embedding_length
        /\ p.embedding_precision = file.embedding_precision
    BY FreshFacts DEF Fields, Copied
  <2>4. /\ p.num_servers = servers
        /\ p.comp_ring_modulus = IF file.num_component_rings = 2 THEN file.comp_ring_modulus ELSE 0
    BY FreshFacts DEF Fields, Copied
  <2> HIDE DEF p
  <2>5. Primary(p)
    BY <2>1, <2>2, <2>3, <2>4 DEF Primary
  <2>6. QED
    BY <1>2, <2>5, UseInv DEF ParamsInv
<1>3. QED
  BY <1>1, <1>2 DEF Load

LEMMA ArgumentFacts ==
  ASSUME NEW args \in Arguments, NEW k \in {1, 2}, NEW default \in Int
  PROVE  Argument(args, k, default) \in Int \cup {NotANumber}
<1>1. args \in Seq(Int \cup {NotANumber})
  BY FilesAssumption
<1>2. CASE Len(args) >= k
  BY <1>1, <1>2 DEF Argument
<1>3. CASE ~ (Len(args) >= k)
  BY <1>3 DEF Argument
<1>4. QED
  BY <1>2, <1>3

LEMMA LoadFromArgsInv == ASSUME ParamsInv, LoadFromArgs PROVE ParamsInv'
<1>1. step = "start" /\ program # "test" /\ program' = program
  BY DEF LoadFromArgs
<1>2. CASE Use(benchmark_params) /\ built_in' = TRUE
  BY <1>1, <1>2, UseInv, BuiltInIsSmall
<1>3. ASSUME NEW file \in Files, NEW args \in Arguments, built_in' = built_in,
             LET given == ServersAndCluster(args)
             IN IF NotANumber \in {given[1], given[2]} THEN Fail ELSE Load(file, given[1], given[2])
      PROVE  ParamsInv'
  <2> DEFINE given == ServersAndCluster(args)
  <2>1. given[1] \in Int \cup {NotANumber}
    BY ArgumentFacts DEF ServersAndCluster
  <2>2. CASE NotANumber \in {given[1], given[2]}
    BY <1>1, <1>3, <2>2, FailInv DEF ParamsInv
  <2>3. CASE NotANumber \notin {given[1], given[2]}
    <3>1. given[1] \in Int /\ Load(file, given[1], given[2])
      BY <1>3, <2>1, <2>3
    <3> HIDE DEF given
    <3>2. QED
      BY <1>1, <1>3, <3>1, LoadInv
  <2>4. QED
    BY <2>2, <2>3
<1>4. QED
  BY <1>2, <1>3 DEF LoadFromArgs

LEMMA MakeTestParamsInv == ASSUME ParamsInv, MakeTestParams PROVE ParamsInv'
<1>1. step = "start" /\ program' = program
  BY DEF MakeTestParams
<1>2. ASSUME NEW p \in {test_params, test_params_component_rings, test_database_params,
                        test_database_params_with_splits},
             Use(p), built_in' = TRUE
      PROVE  ParamsInv'
  BY <1>1, <1>2, UseInv, BuiltInIsSmall
<1>3. ASSUME NEW file \in Files, Load(file, 1, 0), built_in' = built_in PROVE ParamsInv'
  BY <1>1, <1>3, LoadInv
<1>4. QED
  BY <1>2, <1>3 DEF MakeTestParams

LEMMA LoadForServerInv == ASSUME ParamsInv, LoadForServer PROVE ParamsInv'
<1>1. step = "start" /\ program' = program /\ built_in' = built_in
  BY DEF LoadForServer
<1>2. PICK file \in Files : Load(file, 1, 0)
  BY DEF LoadForServer
<1>3. QED
  BY <1>1, <1>2, LoadInv

\* A smaller database of the tests: its vectors stay short.
LEMMA PinInv == ASSUME ParamsInv, Pin PROVE ParamsInv'
<1>1. /\ step = "ready" /\ program = "test" /\ program' = program /\ built_in' = built_in
      /\ Consistent(params) /\ Primary(params) /\ DOMAIN params = Fields
      /\ built_in \in BOOLEAN
  BY DEF Pin, ParamsInv, InUse, Consistent
<1>2. built_in => Small(params)
  BY <1>1 DEF ParamsInv, InUse
<1>3. ASSUME NEW size \in {params.n, params.n * params.num_clusters},
             Use([params EXCEPT !.database_size = size])
      PROVE  ParamsInv'
  <2> DEFINE p == [params EXCEPT !.database_size = size]
  <2>1. size \in Nat
    <3>1. params.n \in Nat /\ params.num_clusters \in Nat
      BY <1>1 DEF Consistent, Primary
    <3>2. params.n * params.num_clusters \in Nat
      BY <3>1
    <3>3. QED
      BY <3>1, <3>2
  <2>2. Primary(p)
    BY <1>1, <2>1 DEF Primary, Fields
  <2>3. built_in => Small(p)
    <3>1. /\ p.embedding_precision = params.embedding_precision
          /\ p.embedding_length = params.embedding_length
          /\ p.plaintext_modulus = params.plaintext_modulus
      BY <1>1 DEF Fields
    <3> HIDE DEF p
    <3>2. QED
      BY <1>2, <3>1 DEF Small, dot_product_can_overflow, WorstDotProduct,
                        max_abs_embedding_value, min_embedding_value
  <2> HIDE DEF p
  <2>4. Use(p)
    BY <1>3 DEF p
  <2>5. QED
    BY <1>1, <2>2, <2>3, <2>4, UseInv
<1>4. ASSUME Use([params EXCEPT !.database_size = 8, !.num_clusters = 2, !.embedding_length = 2])
      PROVE  ParamsInv'
  <2> DEFINE p == [params EXCEPT !.database_size = 8, !.num_clusters = 2, !.embedding_length = 2]
  <2>1. Primary(p)
    BY <1>1 DEF Primary, Fields
  <2>2. built_in => Small(p)
    <3> SUFFICES ASSUME built_in PROVE Small(p)
      OBVIOUS
    <3>1. /\ p.embedding_precision = params.embedding_precision /\ p.embedding_length = 2
          /\ p.plaintext_modulus = params.plaintext_modulus
      BY <1>1 DEF Fields
    <3>2. p.embedding_precision = 2 /\ p.plaintext_modulus >= 71 /\ p.plaintext_modulus \in Int
      BY <1>1, <1>2, <3>1 DEF Small, Primary
    <3> HIDE DEF p
    <3>3. 8 < (p.plaintext_modulus + 1) \div 2
      BY <3>2
    <3>4. ~ dot_product_can_overflow(p)
      BY <3>1, <3>2, <3>3, NoOverflow
    <3>5. QED
      BY <3>2, <3>4 DEF Small
  <2> HIDE DEF p
  <2>3. Use(p)
    BY <1>4 DEF p
  <2>4. QED
    BY <1>1, <2>1, <2>2, <2>3, UseInv
<1>5. QED
  BY <1>3, <1>4 DEF Pin

LEMMA DivideWorkInv == ASSUME ParamsInv, DivideWork PROVE ParamsInv'
BY DEF ParamsInv, DivideWork, InUse, Small

----------------------------------------------------------------------------
(* Properties of module Deployment. *)

LEMMA ParamsGiveSlots == ParamsInv => EveryDocumentHasSlot
<1> SUFFICES ASSUME ParamsInv PROVE EveryDocumentHasSlot
  OBVIOUS
<1>1. TypeOK
  <2>1. CASE InUse
    BY <2>1, FreshFacts DEF ParamsInv, Consistent, Primary, TypeOK
  <2>2. CASE ~ InUse
    BY <2>2, FreshFacts DEF ParamsInv, TypeOK
  <2>3. QED
    BY <2>1, <2>2
<1>2. ASSUME InUse
      PROVE  /\ params.num_clusters * params.cluster_size >= params.database_size
             /\ params.splits_per_cluster * params.n >= params.cluster_size
             /\ (params.splits_per_cluster - 1) * params.n < params.cluster_size
             /\ params.num_servers * params.clusters_per_server >= params.num_clusters
  <2>1. /\ params.n \in Nat \ {0} /\ params.num_clusters \in Nat \ {0}
        /\ params.num_servers \in Nat \ {0} /\ params.database_size \in Nat
        /\ params.cluster_size = Ceil(params.database_size, params.num_clusters)
        /\ params.splits_per_cluster = Ceil(params.cluster_size, params.n)
        /\ params.clusters_per_server = Ceil(params.num_clusters, params.num_servers)
    BY <1>2 DEF ParamsInv, Consistent, Primary
  <2>2. /\ params.num_clusters * params.cluster_size >= params.database_size
        /\ params.cluster_size \in Int
    <3>1. Covers(params.cluster_size, params.num_clusters, params.database_size)
      BY <2>1, CeilCovers
    <3>2. QED
      BY <3>1 DEF Covers
  <2>3. /\ params.n * params.splits_per_cluster >= params.cluster_size
        /\ (params.splits_per_cluster - 1) * params.n < params.cluster_size
        /\ params.splits_per_cluster \in Int
    <3>1. Covers(params.splits_per_cluster, params.n, params.cluster_size)
      BY <2>1, <2>2, CeilCovers
    <3>2. QED
      BY <3>1 DEF Covers
  <2>4. params.num_servers * params.clusters_per_server >= params.num_clusters
    <3>1. Covers(params.clusters_per_server, params.num_servers, params.num_clusters)
      BY <2>1, CeilCovers
    <3>2. QED
      BY <3>1 DEF Covers
  <2>5. params.splits_per_cluster * params.n = params.n * params.splits_per_cluster
    BY <2>1, <2>3
  <2>6. QED
    BY <2>2, <2>3, <2>4, <2>5
<1>3. QED
  BY <1>1, <1>2 DEF EveryDocumentHasSlot

LEMMA ParamsFitMessages == ParamsInv => MessageSpaceHolds
<1> SUFFICES ASSUME ParamsInv, InUse, built_in \/ ~ dot_product_can_overflow(params)
             PROVE  LET modulus == IF params.num_component_rings = 1 THEN params.plaintext_modulus
                                   ELSE params.combined_component_ring_modulus
                    IN \A v \in {WorstDotProduct(params), -WorstDotProduct(params)} :
                         centered_residue(reduce_mod(v, modulus), modulus) = v
  BY DEF MessageSpaceHolds
<1> DEFINE w == WorstDotProduct(params)
           m == IF params.num_component_rings = 1 THEN params.plaintext_modulus
                ELSE params.combined_component_ring_modulus
<1>1. /\ params.plaintext_modulus \in Int /\ params.embedding_length \in Nat
      /\ params.embedding_precision \in Nat \ {0} /\ params.comp_ring_modulus \in Int
  BY DEF ParamsInv, Consistent, Primary
<1>2. w \in Nat
  <2>1. 2 ^ (params.embedding_precision - 1) \in Nat
    BY <1>1, PowerIsPositive
  <2>2. max_abs_embedding_value(params) \in Nat
    BY <2>1 DEF max_abs_embedding_value, min_embedding_value
  <2>3. max_abs_embedding_value(params) * max_abs_embedding_value(params) \in Nat
    BY <2>2
  <2>4. QED
    BY <1>1, <2>3 DEF WorstDotProduct
<1>3. ~ (w >= (params.plaintext_modulus + 1) \div 2)
  BY DEF ParamsInv, Small, dot_product_can_overflow
<1>4. m \in Int /\ m >= params.plaintext_modulus
  <2>1. crt_combined_modulus(params.comp_ring_modulus) \in Int
    BY <1>1 DEF crt_combined_modulus
  <2>2. QED
    BY <1>1, <2>1 DEF ParamsInv, Consistent
<1> HIDE DEF w, m
<1>5. w < (m + 1) \div 2
  BY <1>1, <1>2, <1>3, <1>4
<1>6. \A v \in {w, -w} : centered_residue(reduce_mod(v, m), m) = v
  BY <1>2, <1>4, <1>5, CenteredResidue
<1>7. QED
  BY <1>6 DEF w, m

LEMMA SharesAreEnough == ParamsInv => SharesCoverWork
<1> SUFFICES ASSUME ParamsInv, step = "shared" PROVE SharesCoverWork
  BY DEF SharesCoverWork
<1> DEFINE rings == params.num_component_rings
           length == params.embedding_length
           machines == Ceil(params.num_servers, rings)
           clusters == Ceil(params.num_clusters, machines)
           terms == Ceil(length, machines)
           total == rings * length
           timed == Least(rings * terms, total)
<1>1. /\ rings \in {1, 2} /\ params.num_servers \in Nat \ {0} /\ params.num_clusters \in Nat \ {0}
      /\ length \in Nat /\ shares = Shares(params)
  BY DEF ParamsInv, Consistent, Primary, InUse
<1>2. shares = [machines_per_ring |-> machines, clusters_per_machine |-> clusters,
                timed_query_terms |-> timed, total_query_terms |-> total]
  BY <1>1 DEF Shares, Divided, MachinesPerRing
<1>3. rings * machines >= params.num_servers /\ machines \in Nat \ {0}
  <2>1. Covers(machines, rings, params.num_servers)
    BY <1>1, CeilCovers
  <2> HIDE DEF machines, rings
  <2>2. QED
    BY <1>1, <2>1 DEF Covers
<1>4. machines * clusters >= params.num_clusters /\ clusters \in 1 .. params.num_clusters
  <2>1. Covers(clusters, machines, params.num_clusters)
    BY <1>1, <1>3, CeilCovers
  <2> HIDE DEF clusters, machines
  <2>2. QED
    BY <1>1, <1>3, <2>1 DEF Covers
<1>5. machines * terms >= length /\ terms \in Nat
  <2>1. Covers(terms, machines, length)
    BY <1>1, <1>3, CeilCovers
  <2> HIDE DEF terms, machines, length
  <2>2. QED
    BY <1>1, <1>3, <2>1 DEF Covers
<1> HIDE DEF rings, length, machines, clusters, terms
<1>6. total \in Nat /\ rings * terms \in Nat
  BY <1>1, <1>5
<1>7. machines * (rings * terms) >= total
  <2>1. machines * (rings * terms) = rings * (machines * terms) /\ machines * terms \in Nat
    BY <1>1, <1>3, <1>5
  <2>2. rings * (machines * terms) >= rings * length
    <3> DEFINE product == machines * terms
    <3>1. product \in Nat /\ product >= length
      BY <1>5, <2>1
    <3> HIDE DEF product
    <3>2. rings * product >= rings * length
      BY <1>1, <3>1
    <3>3. QED
      BY <3>2 DEF product
  <2>3. QED
    BY <2>1, <2>2
<1>8. machines * total >= total
  <2> HIDE DEF total
  <2>1. (machines - 1) * total >= 0 /\ machines * total = (machines - 1) * total + total
    BY <1>3, <1>6
  <2>2. QED
    BY <1>3, <1>6, <2>1
<1>9. timed <= total /\ machines * timed >= total
  <2> HIDE DEF total
  <2>1. QED
    BY <1>6, <1>7, <1>8 DEF Least
<1>10. machines * rings >= params.num_servers
  BY <1>1, <1>3
<1> HIDE DEF timed, total
<1>11. /\ shares.machines_per_ring = machines /\ shares.clusters_per_machine = clusters
       /\ shares.timed_query_terms = timed /\ shares.total_query_terms = total
  BY <1>2
<1>12. QED
  BY <1>4, <1>9, <1>10, <1>11 DEF SharesCoverWork, rings

----------------------------------------------------------------------------
(* Counting documents. *)

Sizes(sizes, n) == \A c \in 1 .. n : sizes[c] \in Nat

\* total lists the documents of the first clusters.
Counted(total, sizes, n) ==
  total \in [0 .. n -> Nat] /\ total[0] = 0 /\ \A c \in 1 .. n : total[c] = total[c - 1] + sizes[c]

LEMMA CountsExist ==
  ASSUME NEW sizes, NEW n \in Nat, Sizes(sizes, n)
  PROVE  \E total : Counted(total, sizes, n)
<1> DEFINE T == {m \in 0 .. n : \E total : Counted(total, sizes, m)}
<1>1. 0 \in T
  <2>1. Counted([c \in 0 .. 0 |-> 0], sizes, 0)
    BY DEF Counted
  <2>2. QED
    BY <2>1
<1>2. ASSUME NEW k \in 0 .. n - 1, k \in T PROVE k + 1 \in T
  <2>1. PICK f : Counted(f, sizes, k)
    BY <1>2
  <2> DEFINE g == [c \in 0 .. k + 1 |-> IF c = k + 1 THEN f[k] + sizes[k + 1] ELSE f[c]]
  <2>2. f[k] + sizes[k + 1] \in Nat /\ \A c \in 0 .. k : g[c] = f[c] /\ f[c] \in Nat
    BY <2>1 DEF Counted, Sizes
  <2>3. g \in [0 .. k + 1 -> Nat] /\ g[0] = 0 /\ g[k + 1] = g[k] + sizes[k + 1]
    BY <2>1, <2>2 DEF Counted
  <2> HIDE DEF g
  <2>4. \A c \in 1 .. k + 1 : g[c] = g[c - 1] + sizes[c]
    <3> SUFFICES ASSUME NEW c \in 1 .. k + 1 PROVE g[c] = g[c - 1] + sizes[c]
      OBVIOUS
    <3>1. CASE c = k + 1
      BY <2>3, <3>1
    <3>2. CASE c # k + 1
      <4>1. c \in 1 .. k /\ c \in 0 .. k /\ c - 1 \in 0 .. k
        BY <3>2
      <4>2. QED
        BY <2>1, <2>2, <4>1 DEF Counted
    <3>3. QED
      BY <3>1, <3>2
  <2>5. Counted(g, sizes, k + 1)
    BY <2>3, <2>4 DEF Counted
  <2>6. QED
    BY <2>5
<1> HIDE DEF T
<1>3. n \in T
  BY <1>1, <1>2, Induction
<1>4. QED
  BY <1>3 DEF T

LEMMA DocumentsAreCounted ==
  ASSUME NEW sizes, NEW n \in Nat, NEW total, Counted(total, sizes, n)
  PROVE  Documents(sizes, n) = total[n]
<1> DEFINE Def(g) == g = [c \in 0 .. n |-> IF c = 0 THEN 0 ELSE g[c - 1] + sizes[c]]
           g == CHOOSE g : Def(g)
           T == {c \in 0 .. n : g[c] = total[c]}
<1>1. Def(total)
  BY DEF Counted
<1>2. Def(g)
  BY <1>1
<1>3. Documents(sizes, n) = g[n]
  BY DEF Documents
<1> HIDE DEF g
<1>4. 0 \in T
  BY <1>2 DEF Counted
<1>5. ASSUME NEW k \in 0 .. n - 1, k \in T PROVE k + 1 \in T
  <2>1. g[k + 1] = g[k] + sizes[k + 1]
    BY <1>2
  <2>2. total[k + 1] = total[k] + sizes[k + 1]
    BY DEF Counted
  <2>3. QED
    BY <1>5, <2>1, <2>2
<1> HIDE DEF T
<1>6. n \in T
  BY <1>4, <1>5, Induction
<1>7. QED
  BY <1>3, <1>6 DEF T

LEMMA DocumentsSteps ==
  ASSUME NEW sizes, NEW n \in Nat, Sizes(sizes, n)
  PROVE  Counted([c \in 0 .. n |-> Documents(sizes, c)], sizes, n)
<1>1. PICK f : Counted(f, sizes, n)
  BY CountsExist
<1>2. \A k \in 0 .. n : Documents(sizes, k) = f[k]
  <2> SUFFICES ASSUME NEW k \in 0 .. n PROVE Documents(sizes, k) = f[k]
    OBVIOUS
  <2> DEFINE g == [c \in 0 .. k |-> f[c]]
  <2>1. Counted(g, sizes, k)
    BY <1>1 DEF Counted
  <2>2. Documents(sizes, k) = g[k]
    BY <2>1, DocumentsAreCounted
  <2>3. QED
    BY <2>2
<1>3. [c \in 0 .. n |-> Documents(sizes, c)] = f
  BY <1>1, <1>2 DEF Counted
<1>4. QED
  BY <1>1, <1>3

----------------------------------------------------------------------------
(* Flattening. *)

\* Where the elements of two sequences are in their concatenation u.
Holds(u, s, t) ==
  /\ Len(u) = Len(s) + Len(t)
  /\ \A i \in 1 .. Len(s) : u[i] = s[i]
  /\ \A i \in 1 .. Len(t) : u[Len(s) + i] = t[i]

LEMMA ConcatHolds == ASSUME NEW S, NEW s \in Seq(S), NEW t \in Seq(S) PROVE Holds(s \o t, s, t)
<1>1. /\ Len(s \o t) = Len(s) + Len(t) /\ Len(s) \in Nat /\ Len(t) \in Nat
      /\ \A i \in 1 .. Len(s) + Len(t) : (s \o t)[i] = IF i <= Len(s) THEN s[i] ELSE t[i - Len(s)]
  BY ConcatProperties
<1>2. ASSUME NEW i \in 1 .. Len(t) PROVE (s \o t)[Len(s) + i] = t[i]
  <2>1. Len(s) + i \in 1 .. Len(s) + Len(t) /\ ~ (Len(s) + i <= Len(s)) /\ (Len(s) + i) - Len(s) = i
    BY <1>1
  <2>2. QED
    BY <1>1, <2>1
<1>3. ASSUME NEW i \in 1 .. Len(s) PROVE (s \o t)[i] = s[i]
  <2>1. i \in 1 .. Len(s) + Len(t) /\ i <= Len(s)
    BY <1>1
  <2>2. QED
    BY <1>1, <2>1
<1>4. QED
  BY <1>1, <1>2, <1>3 DEF Holds

\* offset lists where in the flattened sequence each sequence begins.
Offsets(offset, seqs, n) ==
  offset \in [0 .. n -> Nat] /\ offset[0] = 0
  /\ \A c \in 1 .. n : offset[c] = offset[c - 1] + Len(seqs[c])

\* s holds the first k of the sequences, one after the other.
Laid(s, seqs, offset, k) ==
  /\ Len(s) = offset[k]
  /\ \A c \in 1 .. k : \A i \in 1 .. Len(seqs[c]) :
       offset[c - 1] + i \in 1 .. Len(s) /\ s[offset[c - 1] + i] = seqs[c][i]

\* joined lists the concatenations FlattenSeq computes.
Joined(joined, seqs, n) ==
  joined \in [1 .. n -> Seq(Int)]
  /\ \A i \in 1 .. n : joined[i] = IF i = 1 THEN seqs[i] ELSE joined[i - 1] \o seqs[i]

Sequences(seqs, n) == \A c \in 1 .. n : seqs[c] \in Seq(Int) /\ Len(seqs[c]) \in Nat

LEMMA JoinedExist ==
  ASSUME NEW n \in Nat, NEW seqs, Sequences(seqs, n)
  PROVE  \E joined : Joined(joined, seqs, n)
<1> DEFINE T == {m \in 0 .. n : \E joined : Joined(joined, seqs, m)}
<1>1. 0 \in T
  <2>1. Joined([i \in 1 .. 0 |-> <<>>], seqs, 0)
    BY DEF Joined
  <2>2. QED
    BY <2>1
<1>2. ASSUME NEW k \in 0 .. n - 1, k \in T PROVE k + 1 \in T
  <2>1. PICK f : Joined(f, seqs, k)
    BY <1>2
  <2> DEFINE last == IF k = 0 THEN seqs[1] ELSE f[k] \o seqs[k + 1]
             g == [i \in 1 .. k + 1 |-> IF i = k + 1 THEN last ELSE f[i]]
  <2>2. last \in Seq(Int)
    <3>1. CASE k = 0
      BY <3>1 DEF Sequences
    <3>2. CASE k # 0
      <4>1. f[k] \in Seq(Int) /\ seqs[k + 1] \in Seq(Int)
        BY <2>1, <3>2 DEF Joined, Sequences
      <4>2. f[k] \o seqs[k + 1] \in Seq(Int)
        BY <4>1
      <4>3. QED
        BY <3>2, <4>2
    <3>3. QED
      BY <3>1, <3>2
  <2>3. k = 0 => last = seqs[1]
    OBVIOUS
  <2>4. k # 0 => last = f[k] \o seqs[k + 1]
    OBVIOUS
  <2> HIDE DEF last
  <2>5. /\ \A i \in 1 .. k : g[i] = f[i] /\ f[i] \in Seq(Int)
        /\ g[k + 1] = last /\ g \in [1 .. k + 1 -> Seq(Int)]
    BY <2>1, <2>2 DEF Joined
  <2> HIDE DEF g
  <2>6. ASSUME NEW i \in 1 .. k + 1
        PROVE  g[i] = IF i = 1 THEN seqs[i] ELSE g[i - 1] \o seqs[i]
    <3>1. CASE i = k + 1 /\ k = 0
      BY <2>3, <2>5, <3>1
    <3>2. CASE i = k + 1 /\ k # 0
      <4>1. g[i - 1] = f[k] /\ i # 1 /\ g[i] = last
        BY <2>5, <3>2
      <4>2. QED
        BY <2>4, <3>2, <4>1
    <3>3. CASE i # k + 1
      <4>1. i \in 1 .. k /\ (i # 1 => i - 1 \in 1 .. k)
        BY <3>3
      <4>2. QED
        BY <2>1, <2>5, <4>1 DEF Joined
    <3>4. QED
      BY <3>1, <3>2, <3>3
  <2>7. Joined(g, seqs, k + 1)
    BY <2>5, <2>6 DEF Joined
  <2>8. QED
    BY <2>7
<1> HIDE DEF T
<1>3. n \in T
  BY <1>1, <1>2, Induction
<1>4. QED
  BY <1>3 DEF T

LEMMA FlattenIsJoined ==
  ASSUME NEW seqs, NEW n \in Nat, n # 0, Len(seqs) = n, NEW joined, Joined(joined, seqs, n)
  PROVE  FlattenSeq(seqs) = joined[n]
<1> DEFINE Def(g) == g = [i \in 1 .. n |-> IF i = 1 THEN seqs[i] ELSE g[i - 1] \o seqs[i]]
           g == CHOOSE g : Def(g)
           T == {i \in 0 .. n : i = 0 \/ g[i] = joined[i]}
<1>1. Def(joined)
  BY DEF Joined
<1>2. Def(g)
  BY <1>1
<1>3. FlattenSeq(seqs) = g[n]
  BY DEF FlattenSeq
<1> HIDE DEF g
<1>4. 0 \in T
  OBVIOUS
<1>5. ASSUME NEW k \in 0 .. n - 1, k \in T PROVE k + 1 \in T
  <2>0. k + 1 \in 1 .. n
    OBVIOUS
  <2>1. g[k + 1] = IF k + 1 = 1 THEN seqs[k + 1] ELSE g[(k + 1) - 1] \o seqs[k + 1]
    BY <1>2, <2>0
  <2>2. joined[k + 1] = IF k + 1 = 1 THEN seqs[k + 1] ELSE joined[(k + 1) - 1] \o seqs[k + 1]
    BY <2>0 DEF Joined
  <2>3. k # 0 => g[(k + 1) - 1] = joined[(k + 1) - 1]
    BY <1>5
  <2>4. g[k + 1] = joined[k + 1]
    BY <2>1, <2>2, <2>3
  <2>5. QED
    BY <2>4
<1> HIDE DEF T
<1>6. n \in T
  <2>1. \A k \in 0 .. n : k \in T
    BY <1>4, <1>5, Induction
  <2>2. QED
    BY <2>1
<1>7. QED
  BY <1>3, <1>6 DEF T

\* The flattened sequence holds every element where its offset says.
LEMMA FlattenIsLaid ==
  ASSUME NEW seqs \in Seq(Seq(Int)), NEW n \in Nat, Len(seqs) = n,
         NEW offset, Offsets(offset, seqs, n)
  PROVE  FlattenSeq(seqs) \in Seq(Int) /\ Laid(FlattenSeq(seqs), seqs, offset, n)
<1>1. Sequences(seqs, n)
  BY DEF Sequences
<1>2. CASE n = 0
  <2>1. FlattenSeq(seqs) = seqs /\ seqs = <<>>
    BY <1>2 DEF FlattenSeq
  <2>2. <<>> \in Seq(Int) /\ Len(<<>>) = 0
    OBVIOUS
  <2>3. offset[0] = 0
    BY DEF Offsets
  <2>4. QED
    BY <1>2, <2>1, <2>2, <2>3 DEF Laid
<1>3. CASE n # 0
  <2>1. PICK f : Joined(f, seqs, n)
    BY <1>1, JoinedExist
  <2> DEFINE T == {k \in 0 .. n : k = 0 \/ Laid(f[k], seqs, offset, k)}
  <2>2. 0 \in T
    BY <1>1
  <2>3. ASSUME NEW k \in 0 .. n - 1, k \in T PROVE k + 1 \in T
    <3>1. /\ k + 1 \in 1 .. n /\ seqs[k + 1] \in Seq(Int) /\ offset[k] \in Nat
          /\ offset[k + 1] = offset[k] + Len(seqs[k + 1]) /\ Len(seqs[k + 1]) \in Nat
      BY <1>1 DEF Offsets, Sequences
    <3>2. CASE k = 0
      <4>1. f[1] = seqs[1] /\ offset[0] = 0
        BY <2>1, <3>1, <3>2 DEF Joined, Offsets
      <4>2. Laid(f[1], seqs, offset, 1)
        BY <3>1, <3>2, <4>1 DEF Laid
      <4>3. QED
        BY <3>1, <3>2, <4>2
    <3>3. CASE k # 0
      <4>1. f[k] \in Seq(Int) /\ Laid(f[k], seqs, offset, k) /\ f[k + 1] = f[k] \o seqs[k + 1]
        <5>1. k \in 1 .. n /\ (k + 1) - 1 = k /\ k + 1 # 1
          BY <3>1, <3>3
        <5>2. QED
          BY <2>1, <2>3, <3>1, <3>3, <5>1 DEF Joined
      <4> DEFINE s == f[k]
                 t == seqs[k + 1]
      <4>2. s \in Seq(Int) /\ t \in Seq(Int) /\ Len(s) = offset[k] /\ Len(t) \in Nat
        BY <3>1, <4>1 DEF Laid
      <4> HIDE DEF s, t
      <4>3. /\ Len(s \o t) = Len(s) + Len(t)
            /\ \A i \in 1 .. Len(s) : (s \o t)[i] = s[i]
            /\ \A i \in 1 .. Len(t) : (s \o t)[Len(s) + i] = t[i]
        <5>1. Holds(s \o t, s, t)
          BY <4>2, ConcatHolds
        <5>2. QED
          BY <5>1 DEF Holds
      <4>4. Len(f[k + 1]) = offset[k + 1]
        BY <3>1, <4>1, <4>2, <4>3 DEF s, t
      <4>5. ASSUME NEW c \in 1 .. k + 1, NEW i \in 1 .. Len(seqs[c])
            PROVE  /\ offset[c - 1] + i \in 1 .. Len(f[k + 1])
                   /\ f[k + 1][offset[c - 1] + i] = seqs[c][i]
        <5>1. CASE c = k + 1
          <6>1. c - 1 = k /\ i \in 1 .. Len(t) /\ Len(s) = offset[c - 1]
            BY <4>2, <5>1 DEF t
          <6>2. f[k + 1][offset[c - 1] + i] = t[i]
            BY <4>1, <4>3, <6>1 DEF s, t
          <6>3. offset[c - 1] + i \in 1 .. Len(f[k + 1])
            BY <3>1, <4>2, <4>4, <6>1 DEF t
          <6>4. QED
            BY <5>1, <6>2, <6>3 DEF t
        <5>2. CASE c # k + 1
          <6>1. c \in 1 .. k
            BY <5>2
          <6>2. offset[c - 1] + i \in 1 .. Len(s) /\ s[offset[c - 1] + i] = seqs[c][i]
            BY <4>1, <6>1 DEF Laid, s
          <6>3. f[k + 1][offset[c - 1] + i] = s[offset[c - 1] + i]
            BY <4>1, <4>3, <6>2 DEF s, t
          <6>4. offset[c - 1] + i \in 1 .. Len(f[k + 1])
            <7>1. Len(s) \in Nat /\ Len(f[k + 1]) \in Nat /\ Len(s) <= Len(f[k + 1])
              BY <3>1, <4>2, <4>4
            <7> DEFINE at == offset[c - 1] + i
            <7>2. at \in 1 .. Len(s)
              BY <6>2
            <7> HIDE DEF at
            <7>3. at \in 1 .. Len(f[k + 1])
              BY <7>1, <7>2
            <7>4. QED
              BY <7>3 DEF at
          <6>5. QED
            BY <6>2, <6>3, <6>4
        <5>3. QED
          BY <5>1, <5>2
      <4>6. Laid(f[k + 1], seqs, offset, k + 1)
        BY <4>4, <4>5 DEF Laid
      <4>7. QED
        BY <3>1, <4>6
    <3>4. QED
      BY <3>2, <3>3
  <2> HIDE DEF T
  <2>4. n \in T
    <3>1. \A k \in 0 .. n : k \in T
      BY <2>2, <2>3, Induction
    <3>2. QED
      BY <3>1
  <2>5. f[n] \in Seq(Int) /\ Laid(f[n], seqs, offset, n)
    BY <1>1, <1>3, <2>1, <2>4 DEF T, Joined
  <2>6. FlattenSeq(seqs) = f[n]
    BY <1>1, <1>3, <2>1, FlattenIsJoined
  <2>7. QED
    BY <2>5, <2>6
<1>4. QED
  BY <1>2, <1>3

----------------------------------------------------------------------------
(* The file and what load_from_file makes of it. *)

Cells == Int \cup {"MDB1"}
Clusters(d) == Len(d.cluster_sizes)

\* Where the values of the clusters begin after the sizes.
Beginnings(d) == [c \in 0 .. Clusters(d) |-> d.embedding_length * Documents(d.cluster_sizes, c)]

\* A database the converter may have written.
Proper(d) ==
  /\ d = [embedding_length |-> d.embedding_length, cluster_sizes |-> d.cluster_sizes,
          values |-> d.values]
  /\ d.embedding_length \in Nat /\ d.cluster_sizes \in Seq(Nat) /\ d.values \in Seq(Seq(Int))
  /\ Len(d.values) = Clusters(d)
  /\ \A c \in 1 .. Clusters(d) : Len(d.values[c]) = d.embedding_length * d.cluster_sizes[c]

LEMMA DatabasesAreProper == ASSUME NEW d \in Databases PROVE Proper(d)
<1>1. /\ d \in [embedding_length : Nat, cluster_sizes : Seq(Nat), values : Seq(Seq(Int))]
      /\ Len(d.values) = Len(d.cluster_sizes)
      /\ \A c \in DOMAIN d.values : Len(d.values[c]) = d.embedding_length * d.cluster_sizes[c]
  BY DatabasesAssumption
<1>2. DOMAIN d.values = 1 .. Len(d.values)
  BY <1>1
<1>3. QED
  BY <1>1, <1>2 DEF Proper, Clusters

LEMMA ValuesBegin ==
  ASSUME NEW d, Proper(d)
  PROVE  /\ Clusters(d) \in Nat /\ Offsets(Beginnings(d), d.values, Clusters(d))
         /\ \A c \in 0 .. Clusters(d) :
              Beginnings(d)[c] = d.embedding_length * Documents(d.cluster_sizes, c)
<1> DEFINE n == Clusters(d)
           l == d.embedding_length
           sizes == d.cluster_sizes
           total == [c \in 0 .. n |-> Documents(sizes, c)]
<1>1. n \in Nat /\ Sizes(sizes, n) /\ l \in Nat
  BY DEF Proper, Clusters, Sizes
<1>2. \A c \in 1 .. n : Len(d.values[c]) = l * sizes[c] /\ sizes[c] \in Nat
  BY <1>1 DEF Proper, Sizes
<1> HIDE DEF n, l, sizes
<1>3. Counted(total, sizes, n)
  BY <1>1, DocumentsSteps
<1>4. \A c \in 0 .. n : Beginnings(d)[c] = l * Documents(sizes, c)
  BY DEF Beginnings, n, l, sizes
<1>5. \A c \in 0 .. n : Beginnings(d)[c] = l * total[c]
  BY <1>4
<1> HIDE DEF total
<1>6. Beginnings(d) \in [0 .. n -> Nat] /\ Beginnings(d)[0] = 0
  <2>1. \A c \in 0 .. n : total[c] \in Nat /\ Beginnings(d)[c] \in Nat
    BY <1>1, <1>3, <1>5 DEF Counted
  <2>2. Beginnings(d)[0] = l * 0
    BY <1>1, <1>3, <1>5 DEF Counted
  <2>3. QED
    BY <1>1, <2>1, <2>2 DEF Beginnings, n
<1>7. ASSUME NEW c \in 1 .. n
      PROVE  Beginnings(d)[c] = Beginnings(d)[c - 1] + Len(d.values[c])
  <2>1. c \in 0 .. n /\ c - 1 \in 0 .. n
    BY <1>1
  <2>2. total[c] = total[c - 1] + sizes[c] /\ total[c - 1] \in Nat /\ sizes[c] \in Nat
    BY <1>2, <1>3, <2>1 DEF Counted
  <2>3. l * (total[c - 1] + sizes[c]) = l * total[c - 1] + l * sizes[c]
    BY <1>1, <2>2
  <2>4. QED
    BY <1>2, <1>5, <2>1, <2>2, <2>3
<1>8. QED
  BY <1>1, <1>4, <1>6, <1>7 DEF Offsets, n, l, sizes

\* What the cells of a database's file are.
Layout(file, d) ==
  /\ file[1] = "MDB1" /\ file[2] = Clusters(d) /\ file[3] = d.embedding_length
  /\ \A c \in 1 .. Clusters(d) : file[3 + c] = d.cluster_sizes[c]
  /\ \A c \in 1 .. Clusters(d) : \A i \in 1 .. Len(d.values[c]) :
       /\ Beginnings(d)[c - 1] + i \in 1 .. Beginnings(d)[Clusters(d)]
       /\ file[(3 + Clusters(d)) + (Beginnings(d)[c - 1] + i)] = d.values[c][i]

LEMMA FileLayout ==
  ASSUME NEW d, Proper(d)
  PROVE  /\ FileOf(d) \in Seq(Cells) /\ Layout(FileOf(d), d)
         /\ Len(FileOf(d)) = (3 + Clusters(d)) + Beginnings(d)[Clusters(d)]
<1> DEFINE n == Clusters(d)
           head == <<"MDB1", n, d.embedding_length>>
           sizes == d.cluster_sizes
           flat == FlattenSeq(d.values)
           front == head \o sizes
           offset == Beginnings(d)
<1>1. n \in Nat /\ Offsets(offset, d.values, n)
  BY ValuesBegin
<1>2. flat \in Seq(Int) /\ Laid(flat, d.values, offset, n)
  BY <1>1, FlattenIsLaid DEF Proper
<1>3. FileOf(d) = front \o flat
  BY DEF FileOf, Clusters
<1>4. /\ head \in Seq(Cells) /\ Len(head) = 3
      /\ head[1] = "MDB1" /\ head[2] = n /\ head[3] = d.embedding_length
  BY <1>1 DEF Proper, Cells
<1>5. sizes \in Seq(Cells) /\ Len(sizes) = n
  <2>1. sizes \in Seq(Nat) /\ Nat \subseteq Cells
    BY DEF Proper, Cells
  <2>2. QED
    BY <2>1, SeqMonotonic DEF Clusters
<1>6. flat \in Seq(Cells)
  <2>1. Int \subseteq Cells
    BY DEF Cells
  <2>2. QED
    BY <1>2, <2>1, SeqMonotonic
<1> HIDE DEF head, sizes, flat, offset
<1>7. front \in Seq(Cells) /\ Holds(front, head, sizes)
  BY <1>4, <1>5, ConcatHolds, ConcatProperties
<1> HIDE DEF front
<1>8. FileOf(d) \in Seq(Cells) /\ Holds(FileOf(d), front, flat)
  BY <1>3, <1>6, <1>7, ConcatHolds, ConcatProperties
<1>9. Len(front) = 3 + n
  BY <1>1, <1>4, <1>5, <1>7 DEF Holds
<1>10. Len(FileOf(d)) = (3 + n) + offset[n]
  BY <1>2, <1>8, <1>9 DEF Holds, Laid
<1>11. FileOf(d)[1] = "MDB1" /\ FileOf(d)[2] = n /\ FileOf(d)[3] = d.embedding_length
  <2>1. front[1] = "MDB1" /\ front[2] = n /\ front[3] = d.embedding_length
    BY <1>4, <1>7 DEF Holds
  <2>2. \A i \in 1 .. 3 + n : FileOf(d)[i] = front[i]
    BY <1>8, <1>9 DEF Holds
  <2>3. 1 \in 1 .. 3 + n /\ 2 \in 1 .. 3 + n /\ 3 \in 1 .. 3 + n
    BY <1>1
  <2>4. QED
    BY <2>1, <2>2, <2>3
<1>12. ASSUME NEW c \in 1 .. n PROVE FileOf(d)[3 + c] = sizes[c]
  <2>1. front[3 + c] = sizes[c]
    BY <1>4, <1>5, <1>7 DEF Holds
  <2>2. 3 + c \in 1 .. 3 + n
    BY <1>1
  <2>3. QED
    BY <1>8, <1>9, <2>1, <2>2 DEF Holds
<1>13. ASSUME NEW c \in 1 .. n, NEW i \in 1 .. Len(d.values[c])
       PROVE  /\ offset[c - 1] + i \in 1 .. offset[n]
              /\ FileOf(d)[(3 + n) + (offset[c - 1] + i)] = d.values[c][i]
  <2>1. /\ offset[c - 1] + i \in 1 .. Len(flat) /\ Len(flat) = offset[n]
        /\ flat[offset[c - 1] + i] = d.values[c][i]
    BY <1>2 DEF Laid
  <2>2. FileOf(d)[Len(front) + (offset[c - 1] + i)] = flat[offset[c - 1] + i]
    BY <1>8, <2>1 DEF Holds
  <2>3. QED
    BY <1>9, <2>1, <2>2
<1>14. Layout(FileOf(d), d)
  BY <1>11, <1>12, <1>13 DEF Layout, n, sizes, offset
<1>15. QED
  BY <1>8, <1>10, <1>14 DEF n, offset

\* The file begins with the first k cells of d's.
Begins(file, d, k) == \A i \in 1 .. k : file[i] = FileOf(d)[i]

LEMMA HeaderIsRead ==
  ASSUME NEW d, Proper(d), NEW file, NEW k \in Nat, Begins(file, d, k)
  PROVE  /\ k >= 3 => Counts(file) = <<Clusters(d), d.embedding_length>> /\ file[1] = "MDB1"
         /\ k >= 3 + Clusters(d) => SizesRead(file) = d.cluster_sizes
<1> DEFINE n == Clusters(d)
<1>1. n \in Nat /\ Layout(FileOf(d), d)
  BY ValuesBegin, FileLayout
<1>2. ASSUME k >= 3 PROVE Counts(file) = <<n, d.embedding_length>> /\ file[1] = "MDB1"
  <2>1. 1 \in 1 .. k /\ 2 \in 1 .. k /\ 3 \in 1 .. k
    BY <1>2
  <2>2. QED
    BY <1>1, <2>1 DEF Begins, Layout, Counts
<1>3. ASSUME k >= 3 + n PROVE SizesRead(file) = d.cluster_sizes
  <2>1. Counts(file)[1] = n
    BY <1>1, <1>2, <1>3
  <2>2. SizesRead(file) = SubSeq(file, 4, 3 + n)
    BY <2>1 DEF SizesRead
  <2>3. d.cluster_sizes \in Seq(Nat) /\ Len(d.cluster_sizes) = n
    BY DEF Proper, Clusters
  <2>4. \A c \in 1 .. n : file[3 + c] = d.cluster_sizes[c]
    <3> SUFFICES ASSUME NEW c \in 1 .. n PROVE file[3 + c] = d.cluster_sizes[c]
      OBVIOUS
    <3>1. 3 + c \in 1 .. k
      BY <1>1, <1>3
    <3>2. FileOf(d)[3 + c] = d.cluster_sizes[c]
      BY <1>1 DEF Layout
    <3>3. QED
      BY <3>1, <3>2 DEF Begins
  <2> HIDE DEF n
  <2>5. \A i \in 4 .. 3 + n : file[i] \in Nat
    <3> SUFFICES ASSUME NEW i \in 4 .. 3 + n PROVE file[i] \in Nat
      OBVIOUS
    <3>1. i - 3 \in 1 .. n /\ 3 + (i - 3) = i
      BY <1>1
    <3>2. QED
      BY <2>3, <2>4, <3>1
  <2>6. /\ SubSeq(file, 4, 3 + n) \in Seq(Nat) /\ Len(SubSeq(file, 4, 3 + n)) = n
        /\ \A i \in 1 .. n : SubSeq(file, 4, 3 + n)[i] = file[3 + i]
    <3>1. /\ SubSeq(file, 4, 3 + n) \in Seq(Nat)
          /\ Len(SubSeq(file, 4, 3 + n)) = IF 4 <= 3 + n THEN (3 + n) - 4 + 1 ELSE 0
          /\ \A i \in 1 .. (3 + n) - 4 + 1 : SubSeq(file, 4, 3 + n)[i] = file[4 + i - 1]
      BY <1>1, <2>5, SubSeqProperties
    <3>2. (3 + n) - 4 + 1 = n /\ (~ (4 <= 3 + n) => n = 0)
      BY <1>1
    <3>3. \A i \in 1 .. n : 4 + i - 1 = 3 + i
      BY <1>1
    <3>4. QED
      BY <3>1, <3>2, <3>3
  <2>7. SubSeq(file, 4, 3 + n) = d.cluster_sizes
    BY <2>3, <2>4, <2>6, SeqEqual
  <2>8. QED
    BY <2>2, <2>7
<1>4. QED
  BY <1>2, <1>3

\* A file that was cut anywhere is not read.
LEMMA CutIsRefused ==
  ASSUME NEW d, Proper(d), NEW k \in 0 .. Len(FileOf(d)) - 1
  PROVE  ~ Readable(SubSeq(FileOf(d), 1, k))
<1> DEFINE file == SubSeq(FileOf(d), 1, k)
           n == Clusters(d)
<1>1. /\ FileOf(d) \in Seq(Cells) /\ n \in Nat
      /\ Len(FileOf(d)) = (3 + n) + d.embedding_length * Documents(d.cluster_sizes, n)
      /\ d.embedding_length * Documents(d.cluster_sizes, n) \in Nat
  BY FileLayout, ValuesBegin DEF Offsets
<1>2. Len(file) = k /\ Begins(file, d, k)
  BY <1>1 DEF Begins
<1> HIDE DEF file, n
<1>3. SUFFICES ASSUME Readable(file) PROVE FALSE
  BY DEF file
<1>4. k >= 3 /\ Counts(file) = <<n, d.embedding_length>>
  BY <1>2, <1>3, HeaderIsRead DEF Readable, n
<1>5. k >= 3 + n
  BY <1>2, <1>3, <1>4 DEF Readable
<1>6. SizesRead(file) = d.cluster_sizes
  BY <1>2, <1>5, HeaderIsRead DEF n
<1>7. k >= (3 + n) + d.embedding_length * Documents(d.cluster_sizes, n)
  BY <1>2, <1>3, <1>4, <1>6 DEF Readable
<1>8. QED
  BY <1>1, <1>7

\* A file that begins with the whole of d's is read as d.
LEMMA LoadedIsWritten ==
  ASSUME NEW d, Proper(d), NEW file, Begins(file, d, Len(FileOf(d)))
  PROVE  Loaded(file) = d
<1> DEFINE n == Clusters(d)
           l == d.embedding_length
           sizes == d.cluster_sizes
           start(c) == 3 + Len(sizes) + l * Documents(sizes, c - 1)
           cut(c) == SubSeq(file, start(c) + 1, start(c) + l * sizes[c])
<1>1. /\ n \in Nat /\ Offsets(Beginnings(d), d.values, n) /\ Layout(FileOf(d), d)
      /\ Len(FileOf(d)) = (3 + n) + Beginnings(d)[n]
      /\ \A c \in 0 .. n : Beginnings(d)[c] = l * Documents(sizes, c)
  BY FileLayout, ValuesBegin
<1>2. Beginnings(d)[n] \in Nat /\ Len(FileOf(d)) \in Nat /\ Len(FileOf(d)) >= 3 + n
  <2>1. Beginnings(d)[n] \in Nat
    BY <1>1 DEF Offsets
  <2>2. QED
    BY <1>1, <2>1
<1>3. Counts(file) = <<n, l>> /\ SizesRead(file) = sizes
  BY <1>1, <1>2, HeaderIsRead
<1>4. Loaded(file) = [embedding_length |-> l, cluster_sizes |-> sizes,
                      values |-> [c \in DOMAIN sizes |-> cut(c)]]
  BY <1>3 DEF Loaded
<1>5. /\ sizes \in Seq(Nat) /\ Len(sizes) = n /\ DOMAIN sizes = 1 .. n /\ l \in Nat
      /\ d.values \in Seq(Seq(Int)) /\ Len(d.values) = n
      /\ \A c \in 1 .. n : Len(d.values[c]) = l * sizes[c]
  BY DEF Proper, Clusters
<1>6. ASSUME NEW c \in 1 .. n PROVE cut(c) = d.values[c]
  <2> DEFINE v == d.values[c]
             s == start(c)
             m == l * sizes[c]
  <2>1. v \in Seq(Int) /\ Len(v) = m /\ m \in Nat
    BY <1>5
  <2>2. c - 1 \in 0 .. n /\ Beginnings(d)[c - 1] \in Nat /\ s = (3 + n) + Beginnings(d)[c - 1] /\ s \in Nat
    <3>1. c - 1 \in 0 .. n
      BY <1>1
    <3>2. Beginnings(d)[c - 1] = l * Documents(sizes, c - 1)
      BY <1>1, <3>1
    <3>3. Beginnings(d)[c - 1] \in Nat
      BY <1>1, <3>1 DEF Offsets
    <3>4. s = (3 + n) + Beginnings(d)[c - 1]
      BY <1>5, <3>2
    <3> HIDE DEF s
    <3>5. QED
      BY <1>1, <3>1, <3>3, <3>4
  <2>3. ASSUME NEW i \in 1 .. m PROVE file[s + i] = v[i]
    <3>1. /\ Beginnings(d)[c - 1] + i \in 1 .. Beginnings(d)[n]
          /\ FileOf(d)[(3 + n) + (Beginnings(d)[c - 1] + i)] = v[i]
      BY <1>1, <2>1 DEF Layout
    <3> HIDE DEF s
    <3>2. s + i = (3 + n) + (Beginnings(d)[c - 1] + i)
      BY <1>1, <2>1, <2>2
    <3>3. s + i \in 1 .. Len(FileOf(d))
      <4> DEFINE at == Beginnings(d)[c - 1] + i
                 end == Beginnings(d)[n]
      <4>1. at \in 1 .. end /\ end \in Nat /\ n \in Nat
        BY <1>1, <1>2, <3>1
      <4>2. s + i = (3 + n) + at /\ Len(FileOf(d)) = (3 + n) + end
        BY <1>1, <3>2
      <4> HIDE DEF at, end, n
      <4>3. (3 + n) + at \in 1 .. (3 + n) + end
        BY <4>1
      <4>4. QED
        BY <4>2, <4>3
    <3>4. QED
      BY <3>1, <3>2, <3>3 DEF Begins
  <2>4. cut(c) = SubSeq(file, s + 1, s + m)
    OBVIOUS
  <2> HIDE DEF v, s, m, cut
  <2>5. \A i \in s + 1 .. s + m : file[i] \in Int
    <3> SUFFICES ASSUME NEW i \in s + 1 .. s + m PROVE file[i] \in Int
      OBVIOUS
    <3>1. i - s \in 1 .. m /\ s + (i - s) = i
      BY <2>1, <2>2
    <3>2. file[i] = v[i - s] /\ v[i - s] \in Int
      BY <2>1, <2>3, <3>1
    <3>3. QED
      BY <3>2
  <2>6. /\ cut(c) \in Seq(Int) /\ Len(cut(c)) = m
        /\ \A i \in 1 .. m : cut(c)[i] = file[s + i]
    <3>1. /\ SubSeq(file, s + 1, s + m) \in Seq(Int)
          /\ Len(SubSeq(file, s + 1, s + m))
               = IF s + 1 <= s + m THEN (s + m) - (s + 1) + 1 ELSE 0
          /\ \A i \in 1 .. (s + m) - (s + 1) + 1 :
               SubSeq(file, s + 1, s + m)[i] = file[(s + 1) + i - 1]
      <4>1. s + 1 \in Int /\ s + m \in Int
        BY <2>1, <2>2
      <4>2. QED
        BY <2>5, <4>1, SubSeqProperties
    <3>2. (s + m) - (s + 1) + 1 = m /\ (~ (s + 1 <= s + m) => m = 0)
      BY <2>1, <2>2
    <3>3. \A i \in 1 .. m : (s + 1) + i - 1 = s + i
      BY <2>1, <2>2
    <3>4. QED
      BY <2>4, <3>1, <3>2, <3>3
  <2>7. cut(c) = v
    BY <2>1, <2>3, <2>6, SeqEqual
  <2>8. QED
    BY <2>7 DEF v
<1>7. [c \in DOMAIN sizes |-> cut(c)] = d.values
  <2> HIDE DEF cut, n
  <2>1. d.values = [c \in 1 .. n |-> d.values[c]]
    BY <1>5
  <2>2. [c \in DOMAIN sizes |-> cut(c)] = [c \in 1 .. n |-> d.values[c]]
    BY <1>5, <1>6
  <2>3. QED
    BY <2>1, <2>2
<1>8. QED
  BY <1>4, <1>7 DEF Proper

----------------------------------------------------------------------------
(* The inductive invariant of the server. *)

Started == phase \in {"accept", "query", "misfit", "dead", "killed"}

ServerTypes ==
  /\ phase \in {"start", "stopped", "accept", "query", "misfit", "dead", "killed"}
  /\ damage \in {"none", "magic", "longer", "cut"} /\ sessions \subseteq Sessions
  /\ reply[2] \in {"none", "Error", "RegistrationAck", "QueryResponse"}

\* Parameters stay once the server has looked at its database.
PhaseInv == phase # "start" => program = "server" /\ step = "ready"

DatabaseInv ==
  Started => /\ written \in Databases /\ db = written /\ Valid(db)
             /\ damage \in {"none", "longer"}

\* What the scoring loop keeps of a split.
Computed(pair) ==
  [j \in 1 .. params.embedding_length |->
     [i \in 0 .. params.n - 1 |-> Coefficient(pair[1], j, pair[2] * params.n + i)]]

SplitsInv ==
  /\ ~ Started => splits = <<>>
  /\ \A pair \in DOMAIN splits :
       pair \in Pairs /\ pair[1] <= Len(db.values) /\ splits[pair] = Computed(pair)

DeadInv == phase = "dead" => ~ SameClusters
QueryInv == phase \in {"query", "misfit"} => reply[1] \in sessions

IInv ==
  ParamsInv /\ ServerTypes /\ PhaseInv /\ DatabaseInv /\ SplitsInv /\ DeadInv /\ QueryInv

LEMMA ServerInitInv == ServerInit => IInv
<1> SUFFICES ASSUME ServerInit PROVE IInv
  OBVIOUS
<1>1. ParamsInv
  BY ParamsInit DEF ServerInit
<1>2. DOMAIN splits = {}
  BY DEF ServerInit
<1>3. QED
  BY <1>1, <1>2 DEF ServerInit, IInv, ServerTypes, PhaseInv, DatabaseInv, Started, SplitsInv,
                    DeadInv, QueryInv

\* What derive and the factories do happens before.
LEMMA ParametersStep == ASSUME IInv, Next, UNCHANGED server PROVE IInv'
<1>1. phase = "start"
  BY DEF IInv, PhaseInv, Next, LoadFromArgs, MakeTestParams, LoadForServer, Pin, DivideWork
<1>2. ParamsInv'
  BY LoadFromArgsInv, MakeTestParamsInv, LoadForServerInv, PinInv, DivideWorkInv DEF IInv, Next
<1>3. splits = <<>> /\ DOMAIN splits = {}
  BY <1>1 DEF IInv, SplitsInv, Started
<1>4. QED
  BY <1>1, <1>2, <1>3 DEF IInv, ServerTypes, PhaseInv, DatabaseInv, Started, SplitsInv, DeadInv,
                          QueryInv, server

\* Nothing but a step of derive or a factory changes the parameters.
LEMMA ParamsStay == ASSUME ParamsInv, UNCHANGED vars PROVE ParamsInv'
BY DEF ParamsInv, vars, InUse, Small

LEMMA StartInv == ASSUME IInv, Start PROVE IInv'
<1>0. PICK d \in Databases : \E found \in Found(d) :
        /\ written' = d /\ damage' = found[1]
        /\ IF Readable(found[2]) /\ Valid(Loaded(found[2]))
           THEN phase' = "accept" /\ db' = Loaded(found[2])
           ELSE phase' = "stopped" /\ UNCHANGED db
  BY DEF Start
<1>1. PICK found \in Found(d) :
        /\ written' = d /\ damage' = found[1]
        /\ IF Readable(found[2]) /\ Valid(Loaded(found[2]))
           THEN phase' = "accept" /\ db' = Loaded(found[2])
           ELSE phase' = "stopped" /\ UNCHANGED db
  BY <1>0
<1>2. /\ phase = "start" /\ program = "server" /\ step = "ready" /\ UNCHANGED vars
      /\ UNCHANGED <<sessions, splits, reply>>
  BY DEF Start
<1>3. Proper(d)
  BY DatabasesAreProper
<1>4. FileOf(d) \in Seq(Cells) /\ Len(FileOf(d)) \in Nat /\ Len(FileOf(d)) >= 1
  <2>1. /\ FileOf(d) \in Seq(Cells) /\ Clusters(d) \in Nat
        /\ Beginnings(d)[Clusters(d)] \in Nat
        /\ Len(FileOf(d)) = (3 + Clusters(d)) + Beginnings(d)[Clusters(d)]
    BY <1>3, FileLayout, ValuesBegin DEF Offsets
  <2>2. QED
    BY <2>1
<1>5. found[1] \in {"none", "magic", "longer", "cut"}
  BY DEF Found
<1>6. ASSUME Readable(found[2])
      PROVE  found[1] \in {"none", "longer"} /\ Loaded(found[2]) = d
  <2>1. CASE found = <<"none", FileOf(d)>>
    <3>1. Begins(found[2], d, Len(FileOf(d)))
      BY <2>1 DEF Begins
    <3>2. QED
      BY <1>3, <2>1, <3>1, LoadedIsWritten
  <2>2. CASE found = <<"magic", [FileOf(d) EXCEPT ![1] = "MDB2"]>>
    <3>1. DOMAIN FileOf(d) = 1 .. Len(FileOf(d)) /\ 1 \in 1 .. Len(FileOf(d))
      BY <1>4
    <3>2. found[2][1] = "MDB2"
      BY <2>2, <3>1
    <3>3. QED
      BY <1>6, <3>2 DEF Readable
  <2>3. CASE found = <<"longer", FileOf(d) \o <<0, 1>>>>
    <3>1. <<0, 1>> \in Seq(Cells)
      BY DEF Cells
    <3>2. Holds(FileOf(d) \o <<0, 1>>, FileOf(d), <<0, 1>>)
      BY <1>4, <3>1, ConcatHolds
    <3>3. Begins(found[2], d, Len(FileOf(d)))
      BY <2>3, <3>2 DEF Begins, Holds
    <3>4. QED
      BY <1>3, <2>3, <3>3, LoadedIsWritten
  <2>4. ASSUME NEW k \in 0 .. Len(FileOf(d)) - 1, found = <<"cut", SubSeq(FileOf(d), 1, k)>>
        PROVE  FALSE
    BY <1>3, <1>6, <2>4, CutIsRefused
  <2>5. QED
    BY <2>1, <2>2, <2>3, <2>4 DEF Found
<1>7. ParamsInv'
  BY <1>2, ParamsStay DEF IInv
<1>8. params' = params /\ program' = program /\ step' = step
  BY <1>2 DEF vars
<1>9. splits = <<>> /\ DOMAIN splits = {}
  BY <1>2 DEF IInv, SplitsInv, Started
<1>10. ServerTypes' /\ PhaseInv' /\ SplitsInv' /\ DeadInv' /\ QueryInv'
  BY <1>1, <1>2, <1>5, <1>8, <1>9 DEF IInv, ServerTypes, PhaseInv, SplitsInv, Started, DeadInv,
                                      QueryInv
<1>11. DatabaseInv'
  <2> SUFFICES ASSUME Started' PROVE DatabaseInv'
    BY DEF DatabaseInv
  <2>1. Readable(found[2]) /\ Valid(Loaded(found[2])) /\ db' = Loaded(found[2])
    BY <1>1 DEF Started
  <2>2. db' = d /\ Valid(d) /\ damage' \in {"none", "longer"}
    BY <1>1, <1>6, <2>1
  <2>3. Valid(db)'
    BY <1>8, <2>2 DEF Valid, InRange, UniformSizes, SignedValues, min_embedding_value,
                      max_embedding_value
  <2>4. QED
    BY <1>1, <2>2, <2>3 DEF DatabaseInv
<1>12. QED
  BY <1>7, <1>10, <1>11 DEF IInv

\* The parts a request that changes neither database nor splits can disturb.
LEMMA RequestInv ==
  ASSUME IInv, UNCHANGED <<vars, written, damage, db>>, Started, Started',
         ServerTypes', phase' # "dead", QueryInv', splits' \in {splits, <<>>}
  PROVE  IInv'
<1>1. ParamsInv' /\ params' = params /\ program' = program /\ step' = step
  BY ParamsStay DEF IInv, vars
<1>2. DatabaseInv'
  BY <1>1 DEF IInv, DatabaseInv, Valid, InRange, UniformSizes, SignedValues, min_embedding_value,
              max_embedding_value
<1>3. PhaseInv' /\ DeadInv'
  BY <1>1 DEF IInv, PhaseInv, DeadInv, Started
<1>4. SplitsInv'
  <2>1. ASSUME NEW pair \in DOMAIN splits' PROVE pair \in DOMAIN splits /\ splits'[pair] = splits[pair]
    <3>1. DOMAIN <<>> = {}
      OBVIOUS
    <3>2. splits' # <<>>
      BY <2>1, <3>1
    <3>3. QED
      BY <2>1, <3>2
  <2>2. \A pair \in Pairs : Computed(pair)' = Computed(pair)
    BY <1>1 DEF Computed, Coefficient
  <2>3. Pairs' = Pairs
    BY <1>1 DEF Pairs
  <2>4. QED
    BY <2>1, <2>2, <2>3 DEF IInv, SplitsInv
<1>5. QED
  BY <1>1, <1>2, <1>3, <1>4 DEF IInv

LEMMA AcceptInv == ASSUME IInv, Accept PROVE IInv'
<1>1. phase = "accept" /\ UNCHANGED <<vars, written, damage, db>>
  BY DEF Accept
<1>2. ASSUME NEW request, NEW message \in {"Error", "RegistrationAck"}, Reply(request, message)
      PROVE  phase' \in {"accept", "killed"} /\ reply'[2] \in {"none", "Error", "RegistrationAck"}
  BY <1>2 DEF Reply
<1>3. ASSUME NEW id \in Sessions, NEW keys \in {"good", "bad"}, HandleRegistration(id, keys),
             UNCHANGED splits
      PROVE  IInv'
  <2>1. sessions' \subseteq Sessions
    BY <1>3 DEF HandleRegistration, IInv, ServerTypes
  <2>2. phase' \in {"accept", "killed"} /\ reply'[2] \in {"none", "Error", "RegistrationAck"}
    BY <1>2, <1>3 DEF HandleRegistration
  <2>3. QED
    BY <1>1, <1>3, <2>1, <2>2, RequestInv DEF IInv, ServerTypes, Started, QueryInv
<1>4. ASSUME NEW id \in Sessions, HandleQuery(id), UNCHANGED sessions PROVE IInv'
  <2>1. CASE Reply(id, "Error") /\ UNCHANGED splits
    <3>1. phase' \in {"accept", "killed"} /\ reply'[2] \in {"none", "Error", "RegistrationAck"}
      BY <1>2, <2>1
    <3>2. QED
      BY <1>1, <1>4, <2>1, <3>1, RequestInv DEF IInv, ServerTypes, Started, QueryInv
  <2>2. CASE /\ id \in sessions /\ splits' = <<>>
             /\ phase' \in {"query", "misfit"} /\ reply' = <<id, "none">>
    BY <1>1, <1>4, <2>2, RequestInv DEF IInv, ServerTypes, Started, QueryInv
  <2>3. QED
    BY <1>4, <2>1, <2>2 DEF HandleQuery
<1>5. ASSUME Reply("none", "Error"), UNCHANGED <<sessions, splits>> PROVE IInv'
  <2>1. phase' \in {"accept", "killed"} /\ reply'[2] \in {"none", "Error", "RegistrationAck"}
    BY <1>2, <1>5
  <2>2. QED
    BY <1>1, <1>5, <2>1, RequestInv DEF IInv, ServerTypes, Started, QueryInv
<1>6. QED
  BY <1>3, <1>4, <1>5 DEF Accept

LEMMA ExpireInv == ASSUME IInv, Expire PROVE IInv'
<1>1. phase = "accept" /\ UNCHANGED <<vars, phase, written, damage, db, splits, reply>>
      /\ sessions' \subseteq sessions
  BY DEF Expire
<1>2. QED
  BY <1>1, RequestInv DEF IInv, ServerTypes, Started, QueryInv

LEMMA RespondInv == ASSUME IInv, Respond PROVE IInv'
<1>1. phase \in {"query", "misfit"} /\ UNCHANGED <<vars, written, damage, db, sessions, splits>>
  BY DEF Respond, Processing
<1>2. phase' \in {"accept", "killed"} /\ reply'[2] \in {"none", "QueryResponse"}
  BY DEF Respond, Reply
<1>3. QED
  BY <1>1, <1>2, RequestInv DEF IInv, ServerTypes, Started, QueryInv

\* No split is missing while the cluster counts agree.
LEMMA BuildSplitInv ==
  ASSUME IInv, NEW c \in 1 .. params.num_clusters, NEW s \in 0 .. params.splits_per_cluster - 1,
         BuildSplit(c, s)
  PROVE  IInv'
<1>1. /\ phase \in {"query", "misfit"} /\ <<c, s>> \in Pairs /\ <<c, s>> \notin DOMAIN splits
      /\ UNCHANGED <<vars, written, damage, db, sessions, reply>>
  BY DEF BuildSplit, Processing
<1>2. ParamsInv' /\ params' = params /\ program' = program /\ step' = step
  BY <1>1, ParamsStay DEF IInv, vars
<1>3. /\ written \in Databases /\ db = written /\ Proper(db)
      /\ db.embedding_length = params.embedding_length
  BY <1>1, DatabasesAreProper DEF IInv, DatabaseInv, Started, Valid
<1>4. phase' \in {"query", "misfit", "dead", "killed"}
  BY <1>1 DEF BuildSplit
<1>5. ServerTypes' /\ PhaseInv' /\ QueryInv'
  BY <1>1, <1>2, <1>4 DEF IInv, ServerTypes, PhaseInv, QueryInv
<1>6. DatabaseInv'
  BY <1>1, <1>2, <1>4 DEF IInv, DatabaseInv, Started, Valid, InRange, UniformSizes, SignedValues,
                          min_embedding_value, max_embedding_value
<1>7. DeadInv'
  <2> SUFFICES ASSUME phase' = "dead" PROVE ~ SameClusters'
    BY DEF DeadInv
  <2>1. c > Len(db.values)
    BY <1>1, <1>3 DEF BuildSplit
  <2>2. Len(db.values) = Len(db.cluster_sizes) /\ Len(db.cluster_sizes) \in Nat
    BY <1>3 DEF Proper, Clusters
  <2>3. params.num_clusters \in Int /\ c <= params.num_clusters
    BY <1>1 DEF IInv, PhaseInv, ParamsInv, InUse, Consistent, Primary
  <2>4. Len(db.cluster_sizes) # params.num_clusters
    BY <2>1, <2>2, <2>3
  <2>5. QED
    BY <1>1, <1>2, <1>3, <2>4 DEF SameClusters
<1>8. SplitsInv'
  <2>1. Started'
    BY <1>4 DEF Started
  <2>2. (\A pair \in Pairs : Computed(pair)' = Computed(pair)) /\ Pairs' = Pairs /\ db' = db
    BY <1>1, <1>2 DEF Computed, Coefficient, Pairs
  <2>3. CASE UNCHANGED splits
    BY <2>1, <2>2, <2>3 DEF IInv, SplitsInv
  <2>4. CASE ~ UNCHANGED splits
    <3>1. /\ ~ (c > Len(db.values))
          /\ splits' = [pair \in DOMAIN splits \cup {<<c, s>>} |->
               IF pair # <<c, s>> THEN splits[pair]
               ELSE [j \in 1 .. params.embedding_length |->
                       [i \in 0 .. params.n - 1 |-> Coefficient(c, j, s * params.n + i)]]]
      BY <1>1, <2>4 DEF BuildSplit
    <3>2. Computed(<<c, s>>) = [j \in 1 .. params.embedding_length |->
                       [i \in 0 .. params.n - 1 |-> Coefficient(c, j, s * params.n + i)]]
      BY DEF Computed
    <3>3. DOMAIN splits' = DOMAIN splits \cup {<<c, s>>}
      BY <3>1
    <3>4. splits'[<<c, s>>] = Computed(<<c, s>>)
      BY <3>1, <3>2
    <3>5. \A pair \in DOMAIN splits : splits'[pair] = splits[pair]
      BY <1>1, <3>1
    <3>6. c <= Len(db.values)
      <4>1. Len(db.values) \in Nat
        BY <1>3 DEF Proper
      <4>2. QED
        BY <3>1, <4>1
    <3>7. <<c, s>>[1] = c
      OBVIOUS
    <3>8. ASSUME NEW pair \in DOMAIN splits'
          PROVE  pair \in Pairs /\ pair[1] <= Len(db.values) /\ splits'[pair] = Computed(pair)
      BY <1>1, <3>3, <3>4, <3>5, <3>6, <3>7 DEF IInv, SplitsInv
    <3>9. QED
      BY <2>1, <2>2, <3>8 DEF SplitsInv
  <2>5. QED
    BY <2>3, <2>4
<1>9. QED
  BY <1>2, <1>5, <1>6, <1>7, <1>8 DEF IInv

LEMMA ServerStutterInv == ASSUME IInv, UNCHANGED <<vars, server>> PROVE IInv'
<1>1. ParamsInv'
  BY ParamsStay DEF IInv
<1>2. QED
  BY <1>1 DEF IInv, ServerTypes, PhaseInv, DatabaseInv, Started, SplitsInv, DeadInv, QueryInv, vars,
              server, Valid, InRange, UniformSizes, SignedValues, min_embedding_value,
              max_embedding_value, Pairs, Computed, Coefficient, SameClusters

LEMMA ServerNextInv == IInv /\ [ServerNext]_<<vars, server>> => IInv'
BY ParametersStep, StartInv, AcceptInv, ExpireInv, RespondInv, BuildSplitInv, ServerStutterInv
   DEF ServerNext

LEMMA InvariantHolds == ServerSpec => []IInv
<1>1. QED
  BY ServerInitInv, ServerNextInv, PTL DEF ServerSpec

----------------------------------------------------------------------------
(* The properties. *)

\* derive_dependent_parameters: whatever the file, the arguments and the changes
\* a test makes, every document has a cluster, a coefficient of a split and a
\* server, and no split is empty.
THEOREM DocumentsHaveSlots == ServerSpec => []EveryDocumentHasSlot
<1>1. IInv => EveryDocumentHasSlot
  BY ParamsGiveSlots DEF IInv
<1>2. QED
  BY <1>1, InvariantHolds, PTL

\* dot_product_can_overflow, one ring or two: the worst dot product is decoded
\* from the message space when the check passed or the set is hard-coded.
THEOREM MessagesFit == ServerSpec => []MessageSpaceHolds
<1>1. IInv => MessageSpaceHolds
  BY ParamsFitMessages DEF IInv
<1>2. QED
  BY <1>1, InvariantHolds, PTL

\* run_one_query of the distributed benchmarks: the machines' shares cover the
\* clusters and the query terms however the divisions come out.
THEOREM SharesAreComplete == ServerSpec => []SharesCoverWork
<1>1. IInv => SharesCoverWork
  BY SharesAreEnough DEF IInv
<1>2. QED
  BY <1>1, InvariantHolds, PTL

\* The index of a coefficient of a split in its cluster's values.
LEMMA ValueIndex ==
  ASSUME NEW e \in Nat, NEW l \in Nat, NEW size \in Nat, e < size, NEW j \in 1 .. l
  PROVE  e * l + j \in 1 .. l * size
<1>1. e * l \in Nat /\ size - (e + 1) \in Nat
  OBVIOUS
<1>2. l * (size - (e + 1)) \in Nat
  BY <1>1
<1>3. l * size = l * (size - (e + 1)) + e * l + l
  BY <1>1
<1>4. QED
  BY <1>1, <1>2, <1>3

LEMMA CoefficientRange ==
  ASSUME IInv, Started, NEW pair \in Pairs, pair[1] <= Len(db.values),
         NEW j \in 1 .. params.embedding_length, NEW i \in 0 .. params.n - 1
  PROVE  /\ Coefficient(pair[1], j, pair[2] * params.n + i) \in SignedValues(params)
         /\ db.cluster_sizes[pair[1]] = params.cluster_size
<1> DEFINE c == pair[1]
           e == pair[2] * params.n + i
           l == params.embedding_length
           size == db.cluster_sizes[c]
           v == db.values[c]
<1>1. /\ Proper(db) /\ db.embedding_length = l /\ InRange(db) /\ UniformSizes(db)
  BY DatabasesAreProper DEF IInv, DatabaseInv, Valid
<1>2. params.n \in Nat /\ l \in Nat /\ params.embedding_precision \in Nat \ {0}
  BY DEF IInv, PhaseInv, Started, ParamsInv, InUse, Consistent, Primary
<1>3. c \in 1 .. params.num_clusters /\ pair[2] \in 0 .. params.splits_per_cluster - 1
  BY DEF Pairs
<1>4. e \in Nat
  <2>1. pair[2] \in Nat
    BY <1>3
  <2>2. pair[2] * params.n \in Nat
    BY <1>2, <2>1
  <2>3. QED
    BY <2>2
<1>5. /\ Len(db.values) = Len(db.cluster_sizes) /\ Len(db.values) \in Nat
      /\ db.cluster_sizes \in Seq(Nat) /\ db.values \in Seq(Seq(Int))
  BY <1>1 DEF Proper, Clusters
<1>6. c \in 1 .. Len(db.values)
  BY <1>3, <1>5
<1>7. size \in Nat /\ v \in Seq(Int) /\ Len(v) = l * size
  BY <1>1, <1>5, <1>6 DEF Proper, Clusters
<1>8. size = params.cluster_size
  <2>1. DOMAIN db.cluster_sizes = 1 .. Len(db.values)
    BY <1>5
  <2>2. size \in Range(db.cluster_sizes)
    BY <1>6, <2>1 DEF Range
  <2>3. QED
    BY <1>1, <2>2 DEF UniformSizes
<1>9. Range(v) \subseteq SignedValues(params)
  <2>1. DOMAIN db.values = 1 .. Len(db.values)
    BY <1>5
  <2>2. QED
    BY <1>1, <1>6, <2>1 DEF InRange
<1>10. Coefficient(c, j, e) \in SignedValues(params)
  <2>1. CASE e < size
    <3>1. Coefficient(c, j, e) = v[e * l + j]
      BY <1>1, <2>1 DEF Coefficient
    <3> HIDE DEF e, l, size, v
    <3>2. e * l + j \in 1 .. l * size
      <4>1. j \in 1 .. l
        BY DEF l
      <4>2. QED
        BY <1>2, <1>4, <1>7, <2>1, <4>1, ValueIndex
    <3>3. e * l + j \in DOMAIN v
      BY <1>7, <3>2
    <3>4. v[e * l + j] \in Range(v)
      BY <3>3 DEF Range
    <3>5. QED
      BY <1>9, <3>1, <3>4
  <2>2. CASE ~ (e < size)
    <3>1. Coefficient(c, j, e) = 0
      BY <2>2 DEF Coefficient
    <3>2. 2 ^ (params.embedding_precision - 1) \in Nat \ {0}
      BY <1>2, PowerIsPositive
    <3>3. 0 \in SignedValues(params)
      BY <3>2 DEF SignedValues, min_embedding_value, max_embedding_value
    <3>4. QED
      BY <3>1, <3>3
  <2>3. QED
    BY <2>1, <2>2
<1>11. QED
  BY <1>8, <1>10

\* Startup and build_split: no file that was cut or is of another kind is served,
\* and a computed query has read every value where the client expects it.
THEOREM WrittenIsServed == ServerSpec => []ServesWhatWasWritten
<1>1. IInv => ServesWhatWasWritten
  <2> SUFFICES ASSUME IInv PROVE ServesWhatWasWritten
    OBVIOUS
  <2>1. ASSUME NEW pair \in DOMAIN splits
        PROVE  /\ pair \in Pairs /\ pair[1] <= Len(db.values) /\ Started
               /\ splits[pair] = Computed(pair)
    BY <2>1 DEF IInv, SplitsInv
  <2>2. ServerTypeOK
    <3>1. ASSUME NEW pair \in DOMAIN splits
          PROVE  splits[pair] \in
                   [1 .. params.embedding_length -> [0 .. params.n - 1 -> SignedValues(params)]]
      <4>1. \A j \in 1 .. params.embedding_length, i \in 0 .. params.n - 1 :
              Coefficient(pair[1], j, pair[2] * params.n + i) \in SignedValues(params)
        BY <2>1, CoefficientRange
      <4>2. QED
        BY <2>1, <4>1 DEF Computed
    <3>2. DOMAIN splits \subseteq Pairs
      BY <2>1
    <3>3. QED
      BY <3>1, <3>2 DEF ServerTypeOK, IInv, ServerTypes
  <2>3. Serving => damage \in {"none", "longer"} /\ db = written
    BY DEF IInv, DatabaseInv, Started, Serving, Processing
  <2>4. ASSUME Serving, SameClusters, DOMAIN splits = Pairs, NEW pair \in Pairs,
               NEW j \in 1 .. params.embedding_length, NEW i \in 0 .. params.n - 1
        PROVE  LET document == pair[2] * params.n + i
               IN splits[pair][j][i] =
                    IF document < params.cluster_size
                    THEN written.values[pair[1]][document * written.embedding_length + j] ELSE 0
    <3>1. splits[pair][j][i] = Coefficient(pair[1], j, pair[2] * params.n + i)
      <4>1. splits[pair] = Computed(pair)
        BY <2>1, <2>4
      <4>2. Computed(pair)[j][i] = Coefficient(pair[1], j, pair[2] * params.n + i)
        BY DEF Computed
      <4>3. QED
        BY <4>1, <4>2
    <3>2. db.cluster_sizes[pair[1]] = params.cluster_size
      BY <2>1, <2>4, CoefficientRange
    <3>3. QED
      BY <2>3, <2>4, <3>1, <3>2 DEF Coefficient
  <2>5. QED
    BY <2>2, <2>3, <2>4 DEF ServesWhatWasWritten
<1>2. QED
  BY <1>1, InvariantHolds, PTL

\* process_query: what startup has checked keeps the exceptions of build_split out
\* of the parallel region, for any query on a server that has as many clusters as
\* its parameters say.
THEOREM ExceptionsStayInside == ServerSpec => []NoExceptionEscapes
<1>1. IInv => NoExceptionEscapes
  BY DEF IInv, DeadInv, NoExceptionEscapes
<1>2. QED
  BY <1>1, InvariantHolds, PTL

\* The dispatcher: a session appears only with its acknowledgement, a response
\* only for a session that is stored and with all its splits.
THEOREM RepliesAreFitting == ServerSpec => RepliesFit
<1> DEFINE Fit ==
      /\ sessions' \ sessions # {} => reply'[2] \in {"none", "RegistrationAck"}
      /\ reply'[2] = "QueryResponse" /\ reply' # reply =>
           reply'[1] \in sessions /\ DOMAIN splits' = Pairs
<1>1. ASSUME IInv, [ServerNext]_<<vars, server>> PROVE Fit \/ UNCHANGED <<vars, server>>
  <2>1. CASE UNCHANGED server
    BY <2>1 DEF server
  <2>2. CASE Start
    BY <2>2 DEF Start
  <2>3. CASE Accept
    <3>1. ASSUME NEW id \in Sessions, NEW keys \in {"good", "bad"}, HandleRegistration(id, keys)
          PROVE  Fit
      <4>1. CASE keys = "good"
        BY <3>1, <4>1 DEF HandleRegistration, Reply
      <4>2. CASE keys # "good"
        BY <3>1, <4>2 DEF HandleRegistration, Reply
      <4>3. QED
        BY <4>1, <4>2
    <3>2. ASSUME NEW id \in Sessions, HandleQuery(id), UNCHANGED sessions PROVE Fit
      <4>1. reply'[2] \in {"none", "Error"}
        BY <3>2 DEF HandleQuery, Reply
      <4>2. QED
        BY <3>2, <4>1
    <3>3. ASSUME Reply("none", "Error"), UNCHANGED sessions PROVE Fit
      BY <3>3 DEF Reply
    <3>4. QED
      BY <2>3, <3>1, <3>2, <3>3 DEF Accept
  <2>4. CASE Expire
    BY <2>4 DEF Expire
  <2>5. CASE Respond
    <3>1. reply'[1] = reply[1]
      BY <2>5 DEF Respond, Reply
    <3>2. QED
      BY <1>1, <2>5, <3>1 DEF Respond, Processing, IInv, QueryInv
  <2>6. ASSUME NEW c \in 1 .. params.num_clusters, NEW s \in 0 .. params.splits_per_cluster - 1,
               BuildSplit(c, s)
        PROVE  Fit
    BY <2>6 DEF BuildSplit
  <2>7. CASE UNCHANGED <<vars, server>>
    BY <2>7
  <2>8. QED
    BY <1>1, <2>1, <2>2, <2>3, <2>4, <2>5, <2>6, <2>7 DEF ServerNext
<1>2. IInv /\ [ServerNext]_<<vars, server>> => [Fit]_<<vars, server>>
  BY <1>1
<1>3. QED
  BY <1>2, InvariantHolds, PTL DEF ServerSpec, RepliesFit
=============================================================================
