----------------------------- MODULE MCSharder -----------------------------
(***************************************************************************)
(* Sharder for TLC: three or four requests over two partition keys, two or *)
(* three of them with the same key, and one or two queue consumers.        *)
(***************************************************************************)
EXTENDS Sharder

CONSTANTS q1, q2, r1, r2, r3, r4, k1, k2

MCRequests == {r1, r2, r3}
MCKeys     == {k1, k2}
MCKeyOf    == (r1 :> k1) @@ (r2 :> k1) @@ (r3 :> k2)

OneConsumer  == {q1}
TwoConsumers == {q1, q2}

MCRequestsFour == {r1, r2, r3, r4}
MCKeyOfFour    == MCKeyOf @@ (r4 :> k1)

ConsumerSymmetry == Permutations(TwoConsumers)
=============================================================================
