--------------------------- MODULE SeededEvalKeys ---------------------------
(***************************************************************************)
(* Evaluation keys: the client generates them under one seeded stream and  *)
(* sends the seed and the b polynomials; the server draws the a            *)
(* polynomials again, in the order in which the client consumed them.      *)
(*                                                                         *)
(* The order of generation is FHE-Deck's (automorphism keys level by       *)
(* level, digit by digit, then the digits of RLWE'(sk^2)); the order of    *)
(* reconstruction is that of the loops over the received vectors.          *)
(* A mask is the place of a drawn value: <<distribution, position>>.       *)
(***************************************************************************)
EXTENDS Integers, Sequences

CONSTANTS
  Levels,       \* automorphism keys: log2 n
  KskDigits,    \* digits to decomposition_base_ksk
  PrimeDigits,  \* digits to decomposition_base_prime
  N,            \* coefficients of a polynomial
  Seeds,        \* what generate_fresh_seed returns, each once
  Original,     \* the secret key's own distribution
  CanFail       \* whether the library may throw while it generates

ASSUME KeysAssumption ==
  /\ {Levels, KskDigits, PrimeDigits, N} \subseteq Nat \ {0}
  /\ Original \notin Seeds /\ CanFail \in BOOLEAN

VARIABLES
  building,  \* "no", or the key being generated: "ksk", "rgsw"
  dist,      \* the distribution installed in rlwe_sk
  original,  \* build_seeded_public_material's original_dist
  drawn,     \* values drawn so far from every distribution
  pub,       \* the rows generated
  wire,      \* SeededClientPublicMaterial as sent
  rebuilt,   \* the server's ClientPublicMaterial
  stream,    \* values drawn from the server's a_stream
  used       \* history: the masks of every row generated, sent or not

client_vars == <<building, dist, original, drawn, pub, wire, used>>
server_vars == <<rebuilt, stream>>
vars == <<client_vars, server_vars>>

Distributions == Seeds \cup {Original}
NoRows == [ksk |-> <<>>, rgsw |-> <<>>]
NoWire == [eval_key_seed |-> Original, rows |-> NoRows]

Init ==
  /\ building = "no" /\ dist = Original /\ original = Original
  /\ drawn = [d \in Distributions |-> 0]
  /\ pub = NoRows /\ wire = NoWire /\ used = {}
  /\ rebuilt = NoRows /\ stream = 0

----------------------------------------------------------------------------
(* The client. *)

BeginBuildWith(seed) ==
  /\ building = "no"
  /\ original' = dist /\ dist' = seed
  /\ building' = "ksk" /\ pub' = NoRows
  /\ UNCHANGED <<drawn, wire, used, server_vars>>

Unused(seed) == drawn[seed] = 0 /\ seed # dist

\* Mutant: a seed may be taken again, and its new stream starts at 0.
BeginBuild_SeedAgain ==
  \E seed \in Seeds :
    /\ building = "no"
    /\ original' = dist /\ dist' = seed
    /\ building' = "ksk" /\ pub' = NoRows
    /\ drawn' = [drawn EXCEPT ![seed] = 0]
    /\ UNCHANGED <<wire, used, server_vars>>

BeginBuild == \E seed \in Seeds : Unused(seed) /\ BeginBuildWith(seed)

\* The masks of a polynomial when done values have been drawn before it.
Masks(d, done) == [j \in 1 .. N |-> <<d, done + j>>]
NextMasks == Masks(dist, drawn[dist])

\* One more polynomial is drawn from the installed distribution.
DrawMasks ==
  /\ drawn' = [drawn EXCEPT ![dist] = @ + N]
  /\ used' = used \cup {NextMasks[j] : j \in 1 .. N}

\* b polynomials of one digit after another: a new level starts once the last
\* one has KskDigits.
AppendDigit(levels, row) ==
  IF levels = <<>> \/ Len(levels[Len(levels)]) = KskDigits
  THEN Append(levels, <<row>>)
  ELSE [levels EXCEPT ![Len(levels)] = Append(@, row)]

Level(levels) == IF levels = <<>> \/ Len(levels[Len(levels)]) = KskDigits
                 THEN Len(levels) + 1 ELSE Len(levels)

KskComplete(levels) == Len(levels) = Levels /\ Len(levels[Levels]) = KskDigits

\* An encryption: what the row holds, under the masks just drawn.
GenerateKsk ==
  /\ building = "ksk"
  /\ LET row == [of |-> <<"ksk", Level(pub.ksk)>>, under |-> NextMasks]
         ksk == AppendDigit(pub.ksk, row)
     IN /\ pub' = [pub EXCEPT !.ksk = ksk]
        /\ building' = IF KskComplete(ksk) THEN "rgsw" ELSE "ksk"
  /\ DrawMasks
  /\ UNCHANGED <<dist, original, wire, server_vars>>

GenerateRgsw ==
  /\ building = "rgsw" /\ Len(pub.rgsw) < PrimeDigits
  /\ pub' = [pub EXCEPT !.rgsw = Append(@, [of |-> <<"rgsw", 1>>, under |-> NextMasks])]
  /\ DrawMasks
  /\ UNCHANGED <<building, dist, original, wire, server_vars>>

\* The distribution is restored, the b values are extracted and sent.
FinishBuild ==
  /\ building = "rgsw" /\ Len(pub.rgsw) = PrimeDigits
  /\ dist' = original /\ building' = "no"
  /\ wire' = [eval_key_seed |-> dist, rows |-> pub]
  /\ rebuilt' = NoRows /\ stream' = 0
  /\ UNCHANGED <<original, drawn, pub, used>>

\* An exception leaves build_seeded_public_material: nothing is sent, and no
\* destructor restores the distribution.
BuildFails ==
  /\ CanFail /\ building # "no"
  /\ building' = "no" /\ pub' = NoRows
  /\ UNCHANGED <<dist, original, drawn, wire, used, server_vars>>

----------------------------------------------------------------------------
(* The server: reconstruct_public_material. *)

\* A polynomial drawn from a_stream beside the b polynomial received.
Ciphertext(b, done) == [a |-> Masks(wire.eval_key_seed, done), b |-> b]

Received == wire.rows
KskRebuilt ==
  /\ Len(rebuilt.ksk) = Len(Received.ksk)
  /\ \A l \in DOMAIN rebuilt.ksk : Len(rebuilt.ksk[l]) = Len(Received.ksk[l])
Rebuilt == wire # NoWire /\ KskRebuilt /\ Len(rebuilt.rgsw) = Len(Received.rgsw)

RebuildKskAs(l, d) ==
  /\ wire # NoWire /\ ~KskRebuilt
  /\ rebuilt' = [rebuilt EXCEPT !.ksk = AppendDigit(@, Ciphertext(Received.ksk[l][d], stream))]
  /\ stream' = stream + N
  /\ UNCHANGED client_vars

NextDigit == IF rebuilt.ksk = <<>> THEN 1 ELSE (Len(rebuilt.ksk[Len(rebuilt.ksk)]) % KskDigits) + 1

\* Mutant: the digits of a level are taken from the last to the first.
RebuildKsk_Reversed == RebuildKskAs(Level(rebuilt.ksk), KskDigits + 1 - NextDigit)

RebuildKsk == RebuildKskAs(Level(rebuilt.ksk), NextDigit)

RebuildRgswFrom(first, digits) ==
  /\ wire # NoWire /\ KskRebuilt /\ Len(rebuilt.rgsw) < digits
  /\ rebuilt' = [rebuilt EXCEPT !.rgsw = Append(@, Ciphertext(Received.rgsw[Len(@) + 1], first))]
  /\ stream' = first + N
  /\ UNCHANGED client_vars

\* Mutant: the last digit is left out.
RebuildRgsw_OneLess == RebuildRgswFrom(stream, Len(Received.rgsw) - 1)

RebuildRgsw == RebuildRgswFrom(stream, Len(Received.rgsw))

Next ==
  \/ BeginBuild \/ GenerateKsk \/ GenerateRgsw \/ FinishBuild \/ BuildFails
  \/ RebuildKsk \/ RebuildRgsw

Spec == Init /\ [][Next]_vars

\* Both ends go on with what they have begun.
FairSpec == Spec /\ WF_vars(RebuildKsk \/ RebuildRgsw)

----------------------------------------------------------------------------
(* Properties. *)

\* Every variable keeps its type.
\* (Checked as a part of CiphertextsMatch.)
TypeOK ==
  /\ building \in {"no", "ksk", "rgsw"}
  /\ {dist, original, wire.eval_key_seed} \subseteq Distributions
  /\ drawn \in [Distributions -> Nat] /\ stream \in Nat
  /\ \A keys \in {pub, wire.rows, rebuilt} :
       /\ Len(keys.ksk) <= Levels /\ Len(keys.rgsw) <= PrimeDigits
       /\ \A l \in DOMAIN keys.ksk : Len(keys.ksk[l]) \in 1 .. KskDigits

\* Every ciphertext the server holds pairs a b polynomial with the masks it was
\* made under, and stands where the client's stood, whatever builds failed or
\* were repeated before; when it has them all it stops exactly where the client's
\* stream stopped.
CiphertextsMatch ==
  /\ TypeOK
  /\ \A l \in DOMAIN rebuilt.ksk : \A d \in DOMAIN rebuilt.ksk[l] :
       LET ct == rebuilt.ksk[l][d] IN ct.b = Received.ksk[l][d] /\ ct.a = ct.b.under
  /\ \A d \in DOMAIN rebuilt.rgsw :
       LET ct == rebuilt.rgsw[d] IN ct.b = Received.rgsw[d] /\ ct.a = ct.b.under
  /\ Rebuilt => stream = drawn[wire.eval_key_seed]

Rows(keys) == {keys.ksk[i][d] : i \in DOMAIN keys.ksk, d \in 1 .. KskDigits}
               \cup {keys.rgsw[d] : d \in DOMAIN keys.rgsw}

\* No mask serves two ciphertexts: neither two rows of one key, nor the keys of
\* two builds, nor a row made by a build that failed and one of a later build:
\* what a build is about to draw was drawn for no row before.
NoMaskReuse ==
  /\ \A r1, r2 \in Rows(wire.rows) : \A i, j \in 1 .. N :
       r1.under[i] = r2.under[j] => r1 = r2 /\ i = j
  /\ building # "no" => \A j \in 1 .. N : NextMasks[j] \notin used

\* Keys sent are keys rebuilt, unless others are sent in their place.
KeysAreRebuilt ==
  \A s \in Seeds : wire.eval_key_seed = s ~>
    (wire.eval_key_seed # s \/ Rebuilt)
=============================================================================
