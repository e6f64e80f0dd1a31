--------------------------- MODULE MCWireProtocol ---------------------------
(* Vectors of every shape up to two levels of two, with values that fit in   *)
(* the low half of an int64_t, that need the high half, and negative ones.   *)
EXTENDS WireProtocol

SeqUpTo(S, len) == UNION {[1 .. l -> S] : l \in 0 .. len}

Vecs == {<<>>, <<-4>>, <<1, 3>>}
VecVecs == SeqUpTo(Vecs, 2)
VecVecVecs == SeqUpTo({<<>>, <<<<2>>>>, <<<<-1, 4>>, <<>>>>}, 2)
Ids == {<<1>>, <<2>>}
Seedss == {<<<<1>>>>, <<<<1>>, <<2>>>>}
Queries == Seedss \X VecVecs \X VecVecs
Keys == Ids \X VecVecVecs \X VecVecs
Polynomials(n) == [1 .. n -> {-4, 1}]
Responses(n) == {<<cts>> : cts \in SeqUpTo([a : Polynomials(n), b : Polynomials(n)], 2)}

MCMessages(k, n) ==
  CASE k = "query" -> Queries
    [] k = "keys" -> Keys
    [] k = "response" -> Responses(n)
    [] k = "query_message" -> {<<<<2>>>> \o m : m \in {q \in Queries : Len(q[1]) = 2}}
    [] k = "registration" -> {<<<<2>>>> \o m : m \in {q \in Keys : q[1] = <<1>>}}

MCBuffers == SeqUpTo(0 .. 2, 6)
=============================================================================
