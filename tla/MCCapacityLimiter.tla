------------------------- MODULE MCCapacityLimiter -------------------------
(* Values of the constants of CapacityLimiter for model checking. *)
EXTENDS CapacityLimiter, TLC

CONSTANTS c1, c2, e0, e1, e2, e3, e4

\* Requests of 0, 1, 2, 2 and 3 items: an empty one, one that fills the
\* capacity alone, and 8 items in all against a capacity of 3 to 5, so that the
\* limiter is full in most runs and two racing claims can both be large.
MCElements   == {e0, e1, e2, e3, e4}
MCItemsCount == (e0 :> 0) @@ (e1 :> 1) @@ (e2 :> 2) @@ (e3 :> 2) @@ (e4 :> 3)

OneClaimer  == {c1}
TwoClaimers == {c1, c2}

ClaimerSymmetry == Permutations(TwoClaimers)
=============================================================================
