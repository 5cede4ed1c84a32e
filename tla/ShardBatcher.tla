---------------------------- MODULE ShardBatcher ----------------------------
(***************************************************************************)
(* One batching lane.  The shard batcher's source is not among the files   *)
(* of src/; this module follows section 4.5 of spec.md and keeps only what *)
(* the sharder relies on: a shard is created, started, accumulates         *)
(* requests, flushes under a permit of the shared worker pool, reports the *)
(* outcome to every request of the batch, and flushes once more when it    *)
(* is shut down.                                                           *)
(*                                                                         *)
(* The module has no Init and Next of its own: Sharder extends it and      *)
(* composes these actions with its own.                                    *)
(***************************************************************************)
EXTENDS Naturals, Sequences, FiniteSets, Functions

CONSTANTS
    MaxShards,     \* bound on the shard batchers ever created
    Requests,      \* the requests handed to Consume
    MaxBatch,      \* requests per batch that trigger a flush
    TimerEnabled,  \* the flush timeout is not zero
    MaxWorkers     \* size of the worker pool, 0 for no limit

Shards    == 1..MaxShards
Unlimited == MaxWorkers = 0     \* workerPool == nil

VARIABLES
    life,     \* life[s]: "unborn", "new", "started", "stopping", "stopped"
    phase,    \* phase[s]: "idle", "accumulating", "flushing", "sending"
    batch,    \* batch[s]: the pending requests of s, in arrival order
    pool,     \* permits lying in the workerPool channel
    outcome   \* outcome[r]: what done was called with, "none" before

shardVars == <<life, phase, batch, pool, outcome>>

Created(l, s) == [l EXCEPT ![s] = "new"]         \* newShardBatcher
Started(l, s) == [l EXCEPT ![s] = "started"]     \* start

\* Consume: merge r into the pending batch; a full batch is flushed.
Accumulate(s, r) ==
    /\ life[s] \in {"new", "started"}
    /\ phase[s] \in {"idle", "accumulating"}
    /\ batch' = [batch EXCEPT ![s] = Append(@, r)]
    /\ phase' = [phase EXCEPT ![s] = IF Len(batch[s]) + 1 >= MaxBatch
                                     THEN "flushing" ELSE "accumulating"]
    /\ UNCHANGED <<life, pool, outcome>>

\* The flush timer, armed by start at the first accumulation, elapses.
TimerFires(s) ==
    /\ TimerEnabled
    /\ life[s] = "started"
    /\ phase[s] = "accumulating"
    /\ phase' = [phase EXCEPT ![s] = "flushing"]
    /\ UNCHANGED <<life, batch, pool, outcome>>

\* A flush takes a permit before the send, and blocks while there is none.
AcquirePermit(s) ==
    /\ phase[s] = "flushing"
    /\ Unlimited \/ pool > 0
    /\ pool' = IF Unlimited THEN pool ELSE pool - 1
    /\ phase' = [phase EXCEPT ![s] = "sending"]
    /\ UNCHANGED <<life, batch, outcome>>

\* The send returns: done for every request of the batch, with the batch's
\* result, the permit goes back, the accumulation is reset.
ExportDone(s, result) ==
    /\ phase[s] = "sending"
    /\ outcome' = [r \in Requests |->
                     IF r \in Range(batch[s]) THEN result ELSE outcome[r]]
    /\ batch' = [batch EXCEPT ![s] = <<>>]
    /\ pool' = IF Unlimited THEN pool ELSE pool + 1
    /\ phase' = [phase EXCEPT ![s] = "idle"]
    /\ UNCHANGED life

\* shutdown: no more timer; what is pending is flushed as part of the stop.
BeginShutdown(s) ==
    /\ life[s] = "started"
    /\ life' = [life EXCEPT ![s] = "stopping"]
    /\ phase' = [phase EXCEPT ![s] = IF @ = "accumulating" THEN "flushing" ELSE @]
    /\ UNCHANGED <<batch, pool, outcome>>

\* Faulty variant: shutdown returns while the last flush is still under way.
EndShutdownEarly(s) ==
    /\ life[s] = "stopping"
    /\ life' = [life EXCEPT ![s] = "stopped"]
    /\ UNCHANGED <<phase, batch, pool, outcome>>

\* shutdown returns once the last flush is over.
EndShutdown(s) ==
    /\ life[s] = "stopping"
    /\ phase[s] = "idle"
    /\ life' = [life EXCEPT ![s] = "stopped"]
    /\ UNCHANGED <<phase, batch, pool, outcome>>

\* What a shard does by itself, whatever the sharder does.
ShardRuns(s) ==
    \/ TimerFires(s)
    \/ AcquirePermit(s)
    \/ \E result \in {"ok", "failed"} : ExportDone(s, result)

ShardTypeOK ==
    /\ life \in [Shards -> {"unborn", "new", "started", "stopping", "stopped"}]
    /\ phase \in [Shards -> {"idle", "accumulating", "flushing", "sending"}]
    /\ batch \in [Shards -> Seq(Requests)]
    /\ pool \in 0..MaxWorkers
    /\ outcome \in [Requests -> {"none", "ok", "failed"}]
=============================================================================
