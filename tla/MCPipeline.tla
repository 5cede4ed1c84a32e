----------------------------- MODULE MCPipeline -----------------------------
(***************************************************************************)
(* Pipeline for TLC: two producers, two consumers, three requests of one   *)
(* item each over two partition keys, a queue of two items.                *)
(***************************************************************************)
EXTENDS Pipeline

CONSTANTS p1, p2, q1, q2, r1, r2, r3, k1, k2

MCRequests   == {r1, r2, r3}
MCKeys       == {k1, k2}
MCKeyOf      == (r1 :> k1) @@ (r2 :> k1) @@ (r3 :> k2)
MCItemsCount == (r1 :> 1) @@ (r2 :> 1) @@ (r3 :> 1)
TwoProducers == {p1, p2}
TwoConsumers == {q1, q2}
=============================================================================
