------------------------------ MODULE Pipeline ------------------------------
(***************************************************************************)
(* The sending path as a whole: producers offer requests to a memory       *)
(* queue behind the capacity limiter, queue consumers hand each request to *)
(* multiBatcher.Consume together with its done callback, the sharder finds *)
(* or creates the shard, the shard batches and sends, and done gives the   *)
(* capacity back.                                                          *)
(*                                                                         *)
(* The limiter is CapacityLimiter and the batching side is Sharder, both   *)
(* unchanged.  What joins them follows spec.md: Offer and Consume of       *)
(* section 4.2, and the done of section 4.5, which is called for every     *)
(* request of a batch when its send has returned.  A consumer is free for  *)
(* the next request as soon as Consume has returned; the capacity of a     *)
(* request stays claimed until its done has run.  The queue is closed and  *)
(* drained before the batcher is shut down.                                *)
(***************************************************************************)
EXTENDS Sharder

CONSTANTS
    Claimers,    \* goroutines that call Offer
    ItemsCount,  \* ItemsCount[r] is what r.ItemsCount() returns
    Unit,        \* "item" or "request"
    Capacity,    \* the size of the queue
    WordBits     \* width of uint64 and int

VARIABLES
    used, inClaim, queued, ret,  \* the limiter, as in CapacityLimiter
    buffer,  \* the requests waiting in the queue, oldest first
    open,    \* the queue takes requests
    acked    \* requests whose done has run

limVars   == <<used, inClaim, queued, ret>>
queueVars == <<buffer, open, acked>>
pipeVars  == <<vars, limVars, queueVars>>

L == INSTANCE CapacityLimiter WITH Elements <- Requests, NoElement <- NoRequest

PipelineInit ==
    /\ Init
    /\ L!Init
    /\ buffer = <<>> /\ open = TRUE /\ acked = {}

\* What a step of the batching side alone leaves as it is.
queueSide == <<limVars, queueVars>>

-----------------------------------------------------------------------------
(* Offer *)

Offering(r) == host = "started" /\ open /\ r \in todo

OfferClaim(t, r) ==
    /\ Offering(r)
    /\ L!ClaimCheck(t, r)
    /\ UNCHANGED <<vars, queueVars>>

OfferFull(t, r) ==
    /\ Offering(r)
    /\ L!ClaimReject(t, r)
    /\ UNCHANGED <<vars, queueVars>>

OfferClosed(t) ==
    /\ ~ open /\ L!Idle(t)
    /\ UNCHANGED pipeVars

Enqueue(t) ==
    /\ L!ClaimAdd(t)
    /\ buffer' = Append(buffer, inClaim[t])
    /\ UNCHANGED <<vars, open, acked>>

-----------------------------------------------------------------------------
(* Consume and done *)

\* A consumer takes the oldest request and enters multiBatcher.Consume.
Hand(c) ==
    /\ buffer # <<>>
    /\ \/ GetSingleShard(c, Head(buffer))
       \/ GetShardHit(c, Head(buffer))
       \/ GetShardMiss(c, Head(buffer))
    /\ buffer' = Tail(buffer)
    /\ UNCHANGED <<limVars, open, acked>>

\* done, called by the shard for a request of the batch it has sent.
Done(r) ==
    /\ outcome[r] # "none" /\ r \notin acked
    /\ L!Release(r)
    /\ acked' = acked \cup {r}
    /\ UNCHANGED <<vars, buffer, open>>

-----------------------------------------------------------------------------
(* Shutdown: the queue first, then the batcher *)

CloseQueue ==
    /\ host = "started" /\ open
    /\ \A t \in Claimers : L!Idle(t)
    /\ open' = FALSE
    /\ UNCHANGED <<vars, limVars, buffer, acked>>

ShutdownBatcher ==
    /\ host = "started" => ~ open /\ buffer = <<>>
    /\ Shutdown /\ UNCHANGED queueSide

PipelineNext ==
    \/ Start /\ UNCHANGED queueSide
    \/ \E t \in Claimers, r \in Requests : OfferClaim(t, r) \/ OfferFull(t, r)
    \/ \E t \in Claimers : OfferClosed(t) \/ Enqueue(t)
    \/ \E c \in Consumers : Hand(c)
    \/ \E c \in Consumers :
          (GetShardStart(c) \/ GetShardStore(c) \/ Consume(c)) /\ UNCHANGED queueSide
    \/ \E s \in Shards : ShardRuns(s) /\ UNCHANGED <<sharderVars, queueSide>>
    \/ \E r \in Requests : Done(r)
    \/ CloseQueue
    \/ ShutdownBatcher

\* The fairness of Sharder, and: consumers take what is in the queue and
\* go through Consume, the flush timer of a started shard fires, and done
\* is called when a send has returned.
PipelineFairness ==
    /\ Fairness
    /\ \A c \in Consumers :
          /\ WF_pipeVars(Hand(c))
          /\ WF_vars(GetShardStart(c))
          /\ WF_vars(GetShardStore(c))
          /\ WF_vars(Consume(c))
    /\ \A s \in Shards : WF_vars(TimerFires(s) /\ UNCHANGED sharderVars)
    /\ \A r \in Requests : WF_pipeVars(Done(r))

PipelineSpec     == PipelineInit /\ [][PipelineNext]_pipeVars
FairPipelineSpec == PipelineSpec /\ PipelineFairness

-----------------------------------------------------------------------------
\* The requests between Offer and done: in the queue, with a consumer, in
\* the batch of a shard, or sent and waiting for done.
InQueue   == Range(buffer)
InConsume == {consumer[c].req : c \in Consumers} \ {NoRequest}
InBatch   == UNION {Range(batch[s]) : s \in Shards}
Sent      == {r \in Requests : outcome[r] # "none"} \ acked

\* Size() counts exactly the requests that are between Offer and done,
\* wherever they are: a request counts once while it moves from the queue
\* through a consumer into a batch, requests of different producers that
\* were sent as one batch are released one by one, and a shard that lost
\* the Store race gives back what it took like any other.
SizeIsInPipeline ==
    L!Size = MapThenSumSet(L!SizeOf, InQueue \cup InConsume \cup InBatch \cup Sent)

\* Every request the queue accepted has its done called and its capacity
\* released, without waiting for Shutdown: getShard starts every shard it
\* hands out and Start starts the single one, so the timer of the shard
\* flushes a batch that never fills, and the flush gets a permit.
AcceptedIsReleased ==
    \A r \in Requests : (r \in queued) ~> (r \in acked /\ r \notin queued)
=============================================================================
