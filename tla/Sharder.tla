------------------------------ MODULE Sharder ------------------------------
(***************************************************************************)
(* The sharder and the multiBatcher in front of it,                        *)
(* exporter/exporterhelper/internal/queuebatch/sharder.go and              *)
(* multi_batcher.go.                                                       *)
(*                                                                         *)
(* Queue consumers call multiBatcher.Consume concurrently.  getShard       *)
(* returns the single shard, or looks the partition key up in a sync.Map   *)
(* and, on a miss, creates a shard batcher, starts it and stores it: the   *)
(* Load and the Store are two atomic operations of the map, and the start  *)
(* is a step of its own between them.  Shutdown                            *)
(* stops the single shard, then ranges over the map, stops every shard it  *)
(* finds in a goroutine of its own and waits for all of them.              *)
(*                                                                         *)
(* The host calls Start before the first Consume and Shutdown after the    *)
(* last Consume has returned.                                              *)
(***************************************************************************)
EXTENDS ShardBatcher, FiniteSetsExt, TLC

CONSTANTS
    Consumers,    \* goroutines that call multiBatcher.Consume
    Keys,         \* partition keys
    KeyOf,        \* KeyOf[r]: partitioner.GetKey(ctx, r)
    WithPartitioner,  \* the values of partitioner != nil given to newSharder
    NoRequest

NoShard == 0      \* a nil *shardBatcher

ASSUME /\ KeyOf \in [Requests -> Keys]
       /\ WithPartitioner \subseteq BOOLEAN /\ WithPartitioner # {}
       /\ MaxWorkers \in Nat /\ MaxBatch \in Nat \ {0}
       /\ NoRequest \notin Requests
       \* every request creates at most one shard, so the bound never bites
       /\ MaxShards > Cardinality(Requests)

VARIABLES
    singleShard,  \* sharder.singleShard
    shards,       \* sharder.shards: a function from the stored keys to shards
    consumer,     \* consumer[c]: where c is inside Consume, with what
    todo,         \* requests the queue has not handed to Consume yet
    host,         \* "created", "started", then Shutdown's own steps
    visited,      \* keys Range has called its function for
    stopWG        \* shards whose shutdown goroutine has not called Done

sharderVars == <<singleShard, shards, consumer, todo, host, visited, stopWG>>
vars == <<shardVars, sharderVars>>

IdleConsumer == [pc |-> "idle", req |-> NoRequest, sb |-> NoShard]
AllIdle      == \A c \in Consumers : consumer[c].pc = "idle"
NextShard    == Min({s \in Shards : life[s] = "unborn"})

-----------------------------------------------------------------------------
(* newSharder *)

\* Faulty variants: one permit too many, a pool that is never filled.
PermitsPlusOne == IF MaxWorkers # 0 THEN MaxWorkers + 1 ELSE 0
PermitsNone    == 0

\* make(chan struct{}, maxWorkers) filled with maxWorkers permits.
Permits == IF MaxWorkers # 0 THEN MaxWorkers ELSE 0

Init ==
    /\ pool = Permits
    /\ singleShard \in {IF partitioned THEN NoShard ELSE 1 :
                           partitioned \in WithPartitioner}
    /\ life = [s \in Shards |-> IF s = singleShard THEN "new" ELSE "unborn"]
    /\ phase = [s \in Shards |-> "idle"]
    /\ batch = [s \in Shards |-> <<>>]
    /\ outcome = [r \in Requests |-> "none"]
    /\ shards = <<>>
    /\ consumer = [c \in Consumers |-> IdleConsumer]
    /\ todo = Requests
    /\ host = "created"
    /\ visited = {}
    /\ stopWG = {}

-----------------------------------------------------------------------------
(* Start *)

SingleStarted(l) ==
    IF singleShard # NoShard THEN Started(l, singleShard) ELSE l

Start ==
    /\ host = "created"
    /\ host' = "started"
    /\ life' = SingleStarted(life)
    /\ UNCHANGED <<phase, batch, pool, outcome>>
    /\ UNCHANGED <<singleShard, shards, consumer, todo, visited, stopWG>>

-----------------------------------------------------------------------------
(* getShard, as the first half of multiBatcher.Consume *)

Enter(c, r, pc, sb) ==
    /\ host = "started"
    /\ consumer[c].pc = "idle"
    /\ r \in todo
    /\ todo' = todo \ {r}
    /\ consumer' = [consumer EXCEPT ![c] = [pc |-> pc, req |-> r, sb |-> sb]]
    /\ UNCHANGED <<singleShard, shards, host, visited, stopWG>>

GetSingleShard(c, r) ==
    /\ singleShard # NoShard
    /\ Enter(c, r, "consume", singleShard)
    /\ UNCHANGED shardVars

\* Faulty variant: every request gets the same key.
GetKeyConstant(r) == CHOOSE k \in Keys : TRUE

\* key := sh.partitioner.GetKey(ctx, req)
GetKey(r) == KeyOf[r]

\* Faulty variant: the lookup never finds anything.
LoadedNever(k) == FALSE

Loaded(k) == k \in DOMAIN shards

GetShardHit(c, r) ==
    /\ singleShard = NoShard
    /\ Loaded(GetKey(r))
    /\ Enter(c, r, "consume", shards[GetKey(r)])
    /\ UNCHANGED shardVars

\* Faulty variant: the new shard is stored first and started afterwards.
StoreBeforeStart == <<"store", "start", "consume">>

\* What getShard does with the shard it has created, in the order of lines
\* 52 and 53, and what multiBatcher.Consume does with the one it returns.
AfterMiss == <<"start", "store", "consume">>

Following(pc) == AfterMiss[1 + CHOOSE i \in DOMAIN AfterMiss : AfterMiss[i] = pc]

\* Load misses and newShardBatcher makes a shard only this consumer knows.
GetShardMiss(c, r) ==
    /\ singleShard = NoShard
    /\ ~ Loaded(GetKey(r))
    /\ Enter(c, r, Head(AfterMiss), NextShard)
    /\ life' = Created(life, NextShard)
    /\ UNCHANGED <<phase, batch, pool, outcome>>

\* Faulty variant: start is not called.
StartSkipped(l, s) == l

\* sb.start(ctx)
StartCalled(l, s) == Started(l, s)

GetShardStart(c) ==
    /\ consumer[c].pc = "start"
    /\ life' = StartCalled(life, consumer[c].sb)
    /\ consumer' = [consumer EXCEPT ![c].pc = Following("start")]
    /\ UNCHANGED <<singleShard, shards, todo, host, visited, stopWG>>
    /\ UNCHANGED <<phase, batch, pool, outcome>>

Stored(m, k, sb) == (k :> sb) @@ m

GetShardStore(c) ==
    /\ consumer[c].pc = "store"
    /\ shards' = Stored(shards, GetKey(consumer[c].req), consumer[c].sb)
    /\ consumer' = [consumer EXCEPT ![c].pc = Following("store")]
    /\ UNCHANGED <<singleShard, todo, host, visited, stopWG>>
    /\ UNCHANGED shardVars

(* multiBatcher.Consume: the shard's Consume on what getShard returned *)
Consume(c) ==
    /\ consumer[c].pc = "consume"
    /\ Accumulate(consumer[c].sb, consumer[c].req)
    /\ consumer' = [consumer EXCEPT ![c] = IdleConsumer]
    /\ UNCHANGED <<singleShard, shards, todo, host, visited, stopWG>>

-----------------------------------------------------------------------------
(* Shutdown *)

\* Faulty variant: Shutdown forgets the single shard.
ShutdownSkipsSingle ==
    /\ host = "started"
    /\ AllIdle
    /\ host' = "range"
    /\ UNCHANGED <<singleShard, shards, consumer, todo, visited, stopWG>>
    /\ UNCHANGED shardVars

ShutdownSingle ==
    /\ host = "started"
    /\ AllIdle
    /\ IF singleShard # NoShard
       THEN BeginShutdown(singleShard) /\ host' = "single"
       ELSE UNCHANGED shardVars /\ host' = "range"
    /\ UNCHANGED <<singleShard, shards, consumer, todo, visited, stopWG>>

SingleStopped ==
    /\ host = "single"
    /\ EndShutdown(singleShard)
    /\ host' = "range"
    /\ UNCHANGED <<singleShard, shards, consumer, todo, visited, stopWG>>

\* One call of Range's function: Add(1) and a new goroutine.
RangeVisit(k) ==
    /\ host = "range"
    /\ k \in DOMAIN shards \ visited
    /\ visited' = visited \cup {k}
    /\ stopWG' = stopWG \cup {shards[k]}
    /\ UNCHANGED <<singleShard, shards, consumer, todo, host>>
    /\ UNCHANGED shardVars

\* The goroutine calls the shard's shutdown.
StopperRuns(s) ==
    /\ s \in stopWG
    /\ BeginShutdown(s)
    /\ UNCHANGED sharderVars

RangeDone ==
    /\ host = "range"
    /\ visited = DOMAIN shards
    /\ host' = "wait"
    /\ UNCHANGED <<singleShard, shards, consumer, todo, visited, stopWG>>
    /\ UNCHANGED shardVars

\* shutdown returns and the goroutine calls Done.
StopperDone(s) ==
    /\ s \in stopWG
    /\ EndShutdown(s)
    /\ stopWG' = stopWG \ {s}
    /\ UNCHANGED <<singleShard, shards, consumer, todo, host, visited>>

\* Faulty variant: Shutdown returns without waiting.
ReturnsWithoutWait ==
    /\ host = "wait"
    /\ host' = "returned"
    /\ UNCHANGED <<singleShard, shards, consumer, todo, visited, stopWG>>
    /\ UNCHANGED shardVars

WaitReturns ==
    /\ host = "wait"
    /\ stopWG = {}
    /\ host' = "returned"
    /\ UNCHANGED <<singleShard, shards, consumer, todo, visited, stopWG>>
    /\ UNCHANGED shardVars

-----------------------------------------------------------------------------
Shutdown ==
    \/ ShutdownSingle
    \/ SingleStopped
    \/ \E k \in Keys : RangeVisit(k)
    \/ RangeDone
    \/ \E s \in Shards : StopperRuns(s) \/ StopperDone(s)
    \/ WaitReturns

\* After Shutdown has returned and the last shard has gone quiet there is
\* nothing left to do.
Finished ==
    /\ host = "returned"
    /\ UNCHANGED vars

Next ==
    \/ Start
    \/ \E c \in Consumers, r \in Requests :
          GetSingleShard(c, r) \/ GetShardHit(c, r) \/ GetShardMiss(c, r)
    \/ \E c \in Consumers : GetShardStart(c) \/ GetShardStore(c) \/ Consume(c)
    \/ \E s \in Shards : ShardRuns(s) /\ UNCHANGED sharderVars
    \/ Shutdown
    \/ Finished

\* Goroutines that can run do run, and a send returns.  Nothing obliges
\* the queue to hand over requests, the timer to fire before a batch is
\* full, or the host to call Shutdown.
Fairness ==
    /\ \A s \in Shards :
          /\ WF_vars(AcquirePermit(s) /\ UNCHANGED sharderVars)
          /\ WF_vars((\E result \in {"ok", "failed"} : ExportDone(s, result))
                        /\ UNCHANGED sharderVars)
          /\ WF_vars(StopperRuns(s))
          /\ WF_vars(StopperDone(s))
    /\ WF_vars(SingleStopped)
    /\ WF_vars(\E k \in Keys : RangeVisit(k))
    /\ WF_vars(RangeDone)
    /\ WF_vars(WaitReturns)

Spec     == Init /\ [][Next]_vars
FairSpec == Spec /\ Fairness

-----------------------------------------------------------------------------
TypeOK ==
    /\ ShardTypeOK
    /\ singleShard \in Shards \cup {NoShard}
    /\ DOMAIN shards \subseteq Keys
    /\ \A k \in DOMAIN shards : shards[k] \in Shards
    /\ consumer \in [Consumers -> [pc : {"idle", "start", "store", "consume"},
                                   req : Requests \cup {NoRequest},
                                   sb : Shards \cup {NoShard}]]
    /\ todo \subseteq Requests
    /\ host \in {"created", "started", "single", "range", "wait", "returned"}
    /\ visited \subseteq Keys
    /\ stopWG \subseteq Shards

Sending == {s \in Shards : phase[s] = "sending"}

\* Shard isolation (spec.md 8): requests of different partition keys never
\* meet in one batch.  Every request getShard has returned a shard for, and
\* every request in that shard's accumulation, has the key the shard was
\* created for, also in a shard that lost the race of two Stores.
ShardIsolation ==
    LET Bound(s) == Range(batch[s]) \cup
                    {consumer[c].req : c \in {d \in Consumers : consumer[d].sb = s}}
    IN  singleShard = NoShard =>
            \A s \in Shards : \A ra, rb \in Bound(s) : KeyOf[ra] = KeyOf[rb]

\* The refinement mapping to KeyedShards: a key is retained from the moment
\* getShard has started the shard it created, in the map or in the Store
\* that is due; the single shard is under no key and is left out.
StoreDue == {c \in Consumers : consumer[c].pc = "store"}
Retained ==
    shards @@ [k \in {GetKey(consumer[c].req) : c \in StoreDue} |->
                  consumer[CHOOSE c \in StoreDue : GetKey(consumer[c].req) = k].sb]
GetOrCreate == INSTANCE KeyedShards
                   WITH retained <- Retained,
                        running <- {s \in Shards \ {singleShard} :
                                       life[s] = "started"}

\* With one consumer inside getShard the sharder is the get-or-create map
\* of spec.md 4.6 and 9: the Load, newShardBatcher, start and Store of
\* sharder.go lines 48 to 53 together are one get-or-create that takes
\* effect at the start, so a key never gets a second shard and an entry is
\* never replaced or dropped, no shard is reachable before it runs, and the
\* goroutines of Shutdown stop only shards retained under a key.  With two
\* consumers it does not hold (see ShutdownLeavesNothing).
RefinesGetOrCreate == GetOrCreate!Spec

\* A request is merged only into a shard that has been started.  getShard
\* calls start (line 52) before the Store (line 53) that lets other
\* consumers Load the shard: were the shard stored first, a second consumer
\* could find it and Consume into it while its flush timer is not armed,
\* and the request would wait for a timer nobody has set.
AccumulatesInStartedShard ==
    \A s \in Shards : batch[s] # <<>> => life[s] # "new"

\* newSharder puts maxWorkers permits in the pool and hands the same pool to
\* every shard it creates, the single one, the mapped ones and those that
\* lost a race: the sends in progress over all of them never exceed
\* maxWorkers, and every permit is either in the pool or with a send.
WorkersBounded ==
    ~ Unlimited => pool + Cardinality(Sending) = MaxWorkers

\* When Shutdown has returned, every request that was handed to Consume has
\* had its done called and no shard batcher is left running: nothing
\* accumulated is dropped and no timer outlives the sharder.
ShutdownLeavesNothing ==
    host = "returned" =>
        /\ \A r \in Requests \ todo : outcome[r] # "none"
        /\ \A s \in Shards : life[s] \in {"unborn", "stopped"}

\* Without a partitioner getShard returns the shard newSharder created and
\* never touches the map, so the consumers cannot race on it: however their
\* calls of Consume interleave, Shutdown's first step stops the one shard
\* that holds every request.
SingleShardLeavesNothing ==
    singleShard # NoShard => ShutdownLeavesNothing

\* Shutdown returns: stopWG.Wait() is not left waiting for a shard whose
\* last flush cannot get a permit.
ShutdownReturns ==
    (host \in {"single", "range", "wait"}) ~> (host = "returned")
=============================================================================
