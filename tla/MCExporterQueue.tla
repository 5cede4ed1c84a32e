-------------------------- MODULE MCExporterQueue --------------------------
(* Values of the constants of ExporterQueue for model checking. *)
EXTENDS ExporterQueue

CONSTANTS p1, p2, e0, e1, e2, e3, storage

\* Requests of 0, 1, 2 and 2 items against a capacity of 2 items: the queue
\* is full after one or two requests, two racing offers overshoot, and all
\* four together are more than any overshoot of two producers.
MCElements   == {e0, e1, e2, e3}
MCItemsCount == (e0 :> 0) @@ (e1 :> 1) @@ (e2 :> 2) @@ (e3 :> 2)

TwoProducers == {p1, p2}

\* The factories are given a nil storage ID or a real one.
BothStorageIDs == {NoStorage, storage}
=============================================================================
