# TLA+ models of the exporter queue/batch layer and the pdata containers

This directory holds the TLA+ specifications kept beside the code of this
repository, the TLC configurations that check them, and `PROJECT.json`, which
lists components, runs, the source lines each definition models, findings and
hazards. Every definition is translated from the Go source under `src/`;
where the repository's own code is not part of `src/` (the shard batcher, the
queues) the model follows `spec.md` and is marked `spec_modelled` in the map.

## 1. Inventory

### The system

The repository is the admission-controlled queueing and batching layer between
a pipeline stage and an exporter, plus the pdata value containers that requests
are made of. Data flow:

    producer -> Queue.Offer -> CapacityLimiter.Claim -> buffer
             -> consumer goroutines -> multiBatcher.Consume -> sharder.getShard
             -> shardBatcher.Consume -> flush under the worker pool -> export
             -> done callbacks -> CapacityLimiter.Release

| Component | Source | State | Operations | Hard behaviour |
|---|---|---|---|---|
| CapacityLimiter | `exporter/exporterhelper/internal/queue_capacity.go` | `cap` (const uint64), `used` (atomic uint64) | `claim` (Load, compare, Add), `release` (Add of two's complement), `Size`, `Capacity`, `SizeOf` for the item and the request unit | `claim` is two atomic operations, not one; `release` relies on uint64 wrap-around; `Size` converts uint64 to int |
| sharder | `exporter/exporterhelper/internal/queuebatch/sharder.go` | `workerPool` (channel of permits or nil), `singleShard`, `shards` (`sync.Map` key -> shard batcher) | `newSharder`, `getShard` (Load, on miss create + start + Store), `Start`, `Shutdown` (Range, one goroutine per shard, Wait) | `getShard` is Load-then-Store; `Range` runs while others may Store; `Shutdown` waits on every shard |
| multiBatcher | `.../queuebatch/multi_batcher.go` | none (embeds the sharder) | `Consume` = `getShard(...).Consume(...)` | called by several queue consumers at once |
| shardBatcher | not in `src/` (spec.md 4.5) | lifecycle, pending batch, flush timer, permit held | `start`, `Consume`, timer flush, export under a permit, `shutdown` with a last flush | permits shared by all shards; done broadcast to every merged request |
| Queue configuration and factories | `exporter/exporterhelper/queue.go`, `exporter/exporterqueue/queue.go`, `exporter/exporterqueue/config_test.go` | `QueueConfig` fields | `Validate`, `NewMemoryQueueFactory`, `NewPersistentQueueFactory` (falls back to memory when no storage) | zero and negative sizes; disabled config skips validation |
| MemoryQueue | not in `src/` (spec.md 4.2) | channel of requests, limiter | `Offer`, `Consume`, `Shutdown` | producers race in `Claim`; drain on shutdown |
| PersistentQueue | not in `src/` (spec.md 4.3) | storage, read/write index, in-flight set, limiter | `Offer`, `Consume`, ack, recovery | crash between write and index update; redelivery |
| ScopeEntitiesSlice | `pdata/pentity/generated_scopeentitiesslice.go` | `*orig` (Go slice of pointers: backing array, len, cap), shared `state` | `EnsureCapacity`, `AppendEmpty`, `MoveAndAppendTo`, `RemoveIf`, `CopyTo`, `Sort`, `At`, `Len` | slots between len and cap keep nil or stale pointers that `CopyTo` re-exposes; self-move; read-only state |
| ResourceEntities | `pdata/pentity/generated_resourceentities.go` | `*orig` struct, shared `state` | `MoveTo`, `CopyTo`, `SetSchemaUrl`, `ScopeEntities`, `Resource` | `MoveTo` onto itself; read-only state |
| ExportPartialSuccess | `pdata/pentity/pentityotlp/generated_exportpartialsuccess.go` | `*orig` struct, shared `state` | `MoveTo`, `CopyTo`, setters | `MoveTo` onto itself; read-only state |
| AttributeValue / AttributeMap | `model/pcommon/common.go`, `common_test.go` | a pointer to a value cell; a pointer to a list of key/value entries, which a cell of map type holds too | constructors, `Type`, `MapVal`, `SliceVal`, `CopyTo`, `Equal`; `Get`, `Insert`, `Update`, `Upsert`, `Sort`, `Range`, `CopyTo` | reference semantics: a value obtained with `Get` aliases the map entry, a stored or copied value must not; nesting; duplicate keys; the order of a Go map |
| TraceID / SpanID | `model/internal/pdata/traceid.go`, `model/ptrace/spanid.go` | 16 / 8 bytes | constructors, `Bytes`, `HexString`, `IsEmpty` | none (immutable values) |

### How the components interact

* The queues call `Claim` from producer goroutines and `Release` from consumer
  goroutines; the limiter's only protection is the atomicity of each single
  `Load` and `Add`.
* Queue consumers (`NumConsumers`, 10 by default) call `multiBatcher.Consume`
  concurrently; `getShard` is their only shared step before the shard's own
  `Consume`.
* All shards created by one sharder share one worker pool.
* The host calls `Start` once before any `Consume` and `Shutdown` once after
  the consumers have returned.

### What makes each component correct

* CapacityLimiter: `Size() <= Capacity()` always; `Size()` equals the units of
  the elements claimed and not released; seen from outside, `Claim` is one
  atomic check-and-add.
* sharder: one live shard batcher per partition key; a shard reachable through
  the map has been started; at most `maxWorkers` exports at a time over all
  shards; after `Shutdown` returns every shard that accepted a request has
  flushed it and stopped; `Shutdown` returns.
* shardBatcher: requests of one shard are exported in the order they were
  consumed; every consumed request gets exactly one `done`.
* Slices and structs of pdata: after `CopyTo` the destination equals the
  source and shares nothing with it; no operation makes two indices of one
  slice the same element; `MoveTo`/`MoveAndAppendTo` keep every element.
* Queues: no loss on orderly shutdown, at-least-once across a crash, capacity
  released on every completion, every accepted request completed.
* The whole path: `Size()` is what lies between `Offer` and `done`, and every
  accepted request reaches its `done`.

## 2. Plan

Modules in the order they were written:

1. `CapacityLimiter` (with `MCCapacityLimiter` for TLC): the admission gate,
   the one piece every queue depends on.
2. `ShardBatcher`, then `Sharder` which extends it (and `MCSharder`): lazy shard
   creation, the shared worker pool, start and shutdown; `KeyedShards` is the
   get-or-create map `getShard` is checked against.
3. `EntitiesSlice` (and `MCEntitiesSlice`): Go slices of pointers as (backing
   array, len, cap) over a heap; every operation of `ScopeEntitiesSlice`.
4. `EntitiesStruct`, which extends `EntitiesSlice` (`ResourceEntities` with the
   slice `ScopeEntities()` returns), and `PartialSuccess`
   (`ExportPartialSuccess`).
5. `ExporterQueue` (and `MCExporterQueue`), extending `CapacityLimiter`: the
   configuration, `Validate` and the factories of the two `queue.go` files,
   and behind them the memory queue and the persistent queue of spec.md 4.2
   and 4.3, with a crash between any two storage calls and recovery.
6. `Pipeline` (and `MCPipeline`): the limiter, a queue, the consumers, the
   sharder and its shards as one system, up to the `done` that releases.
7. `AttributeMap` (and `MCAttributeMap`): `AttributeValue` and
   `AttributeMap` of `model/pcommon` as pointers into a heap of key-value
   lists that nest, with the behaviour `common.go` and its tests state.

Open questions on modules that exist:

* `Sharder`: a `Consume` that is still inside `getShard` when `Shutdown` runs
  `Range` (the models assume the host waits for the consumers); `Shutdown`
  called twice or without `Start`. What the shard batcher does in those
  states is decided by code that is not in `src/`.
* `ShardBatcher`, and the queues inside `ExporterQueue`: to be replaced by
  models of the real code if its source becomes part of `src/`.
* `ExporterQueue`: the order in which entries are delivered again after a
  crash with several consumers, which spec.md leaves open; the model hands
  out every stored entry from the read index on and states nothing about the
  order.
* `AttributeMap`: a reference returned by `Get` that is used after the map
  was changed; `CopyTo` of a map into a map nested in it. Both are decided
  in `model/internal/pdata`.

## 3. Modules

### CapacityLimiter

| Model | Code (`queue_capacity.go`) |
|---|---|
| `used`, `cap` | `baseCapacityLimiter.used`, and `.cap` as line 36 sets it: `uint64(capacity)` |
| `ClaimCheck(t, e)` / `ClaimReject(t, e)` | `claim`: `used.Load()+claimed > cap`, the early `return false` |
| `ClaimAdd(t)` | `claim`: `used.Add(claimed); return true` |
| `Release(e)` | `release`: `used.Add(^(capacity - 1))` |
| `SizeOf`, `ItemsSizeOf`, `RequestsSizeOf` | `SizeOf` of the interface and of the two limiters (lines 82-84, 108-110), which is also the argument of their `claim` and `release` |
| `Size`, `GetCapacity` | `Size()`, `Capacity()` with the `int(...)` conversion |
| `inClaim[t]` | the program counter of goroutine `t` between line 50 and line 53 |
| `queued` | the elements the callers hold a claim for; callers release only those |

Two guards are the callers', not the limiter's: an element is offered once
(`e \notin Offered` in `ClaimCheck` and `ClaimReject`), and only what was
claimed is released.

uint64 arithmetic is kept: `Plus`, `Minus` and `Complement` work modulo
`2^WordBits`. TLC runs with `WordBits = 4`, which is enough for every value of
the runs to stay below `2^3` as the real values stay below `2^63`, while the
wrap-around of `release` happens at every step as it does in the build.

### ShardBatcher, Sharder, KeyedShards

`ShardBatcher` is written from spec.md 4.5 (its source is not in `src/`) and
holds only state and actions; `Sharder` extends it and adds the sharder, the
consumers and the host.

| Model | Code (`sharder.go`, `multi_batcher.go`) |
|---|---|
| `Init`, `Permits` | `newSharder`: the pool filled with `maxWorkers` permits, the single shard when there is no partitioner (`WithPartitioner` lists the cases a run covers) |
| `Start`, `SingleStarted` | `Start` |
| `GetSingleShard(c, r)` | `getShard`, lines 42-45 |
| `GetKey(r)` | line 47: the partitioner's key of the request, `KeyOf[r]` |
| `GetShardHit(c, r)`, `Loaded` | `getShard`, lines 47-50: `Load` finds the key |
| `GetShardMiss(c, r)` | lines 47-51: `Load` misses and `newShardBatcher` makes a shard only this consumer knows |
| `GetShardStart(c)`, `StartCalled` | line 52: `sb.start()` |
| `GetShardStore(c)`, `Stored` | line 53: `Store` and the return |
| `AfterMiss`, `Following` | the order of lines 52 and 53 and of the shard's `Consume` after them |
| `Consume(c)` | `multiBatcher.Consume`: the shard's `Consume` on what `getShard` returned |
| `ShutdownSingle`, `SingleStopped` | `Shutdown`, lines 65-67 |
| `RangeVisit(k)`, `RangeDone` | the `Range` loop: `stopWG.Add(1)` and `go func()` for each entry |
| `StopperRuns(s)`, `StopperDone(s)` | the goroutine: `shutdown()`, then `stopWG.Done()` |
| `WaitReturns` | `stopWG.Wait()` and the return |
| `consumer[c]` | where goroutine `c` is inside `Consume`, with its request and shard |
| `shards` | the `sync.Map` as a function from the stored keys to shards |
| `life`, `phase`, `batch`, `pool`, `outcome` | the shard batchers and the pool (spec.md 4.5) |

`Load`, `start` and `Store` are three steps because other goroutines run
between them: a shard is in the map only after it was started, and a second
consumer can miss the key while the first is between its `Load` and its
`Store`.

Assumption on the caller, from the component lifecycle: `Start` happens before
the first `Consume`, and `Shutdown` is called once, when no consumer is inside
`Consume` (the guards `host = "started"` and `AllIdle` of `ShutdownSingle`
and `RangeVisit`). The sharder enforces neither; they are what spec.md 4.2
says of the queue that calls it.

`KeyedShards` is what spec.md 4.6 and 9 ask of `getShard`: a map of running
shards with one step, `GetOrCreate(k, s)`, which creates, starts and retains
the shard of a key that has none, and `Stop(s)` for the shards `Shutdown`
finds. `RefinesGetOrCreate` instantiates it with `retained` as the `sync.Map`
together with the `Store` a consumer is about to make (`Retained`) and
`running` as the started shards other than the single one. The step that
implements `GetOrCreate` is `GetShardStart`, from which on the shard runs and
its `Store` is due; `GetShardMiss`, `GetShardStore`, `GetShardHit` and the
steps of the shard batchers leave both unchanged, and `StopperRuns` is
`Stop`. The refinement holds with one consumer; with two the second
`GetShardStart` for a key is no step of `KeyedShards`, which is the race
`sharder_race_shutdown` follows to its end.

### ExporterQueue

Extends `CapacityLimiter`: the producers calling `Offer` are its `Claimers`.

| Model | Code |
|---|---|
| `QueueConfigs`, `PersistentQueueConfigs`, `QueueCapacityUnits` | the types `QueueConfig`, `PersistentQueueConfig`, `QueueConfigs` of `exporterhelper/queue.go`, with sizes and consumer counts that are negative, zero, and the default |
| `NewDefaultQueueConfig` | `NewDefaultQueueConfig` |
| `Validate(qCfg)` | `QueueConfig.Validate`: nil when disabled, else the two checks in their order |
| `NewMemoryQueueFactory`, `NewPersistentQueueFactory(id)` | the factories of `exporterqueue/queue.go`: the persistent one falls back to the memory queue for a nil storage ID |
| `HelperMemoryQueueFactory`, `HelperPersistentQueueFactory(id)` | the same two in `exporterhelper/queue.go` |
| `QueueInit`, `Start` | any configuration and storage ID; `Start` validates, stops at an invalid or disabled configuration, otherwise asks the factory |
| `OfferClaim`, `OfferFull`, `OfferClosed`, `Enqueue` | `Offer` of the memory queue (spec.md 4.2) on `ClaimCheck`, `ClaimReject`, `ClaimAdd` |
| `BeginWrite`, `WriteEntry`, `WriteFails`, `AdvanceWrite` | `Offer` of the persistent queue (4.3): claim, the `Set` of the entry, the `Set` of the write index; a failed write gives the claim back |
| `Dequeue`, `Completed` | `Consume` and the completion callback of the memory queue |
| `ReadEntry`, `DropCorrupt`, `DeleteEntry`, `AdvanceRead` | `Consume` and the acknowledgment of the persistent queue: the `Delete` and the `Set` of the read index are two steps; a corrupt entry is skipped and released |
| `Shutdown`, `Closed` | stop accepting, drain, close |
| `CrashAndRecover` | the process stops at any point; the new one reloads the markers, takes the entries from the read index on as pending and sets `used` to what they take (4.3, recovery) |
| `disk` | the storage: `items` by index, and the markers `wi` and `ri` |
| `accepted`, `done`, `dropped` | the requests whose `Offer` returned nil, whose callback ran, and which were skipped as corrupt |

Assumptions: the host stops its producers before it calls `Shutdown`; a
request does not change between `Claim` and `Release`; a crash of a process
with a memory queue loses everything by design and is not a step of the
model; retries of a failed read or delete are left out.

### Pipeline

Extends `Sharder` and instantiates `CapacityLimiter` for the same requests.
Both are used as they are; `Pipeline` adds what joins them (spec.md, data
flow, 4.2 and 4.5):

| Model | System |
|---|---|
| `OfferClaim`, `OfferFull`, `Enqueue`, `OfferClosed` | `Offer`: `claim` in its two steps, then the request is in `buffer` |
| `Hand(c)` | a queue consumer takes the oldest request and enters `multiBatcher.Consume`: one of the three outcomes of `getShard` |
| `GetShardStart`, `GetShardStore`, `Consume`, `ShardRuns`, `Start`, `Shutdown` | the steps of `Sharder` and `ShardBatcher`, which leave the queue as it is |
| `Done(r)` | `done` for a request of a batch that was sent, with either result: `Release` |
| `CloseQueue`, `ShutdownBatcher` | the queue stops accepting when no `Offer` is under way; the batcher is shut down when the queue is closed and empty |

A consumer is free as soon as `Consume` has returned; the capacity of its
request stays claimed until the shard has sent the batch.

### EntitiesSlice

The slice is modelled as Go has it: `orig[s]` is `[nil, arr, len]` where `arr`
is the whole backing array, so the capacity is `Len(arr)` and the slots from
`len + 1` on are hidden but keep their content. Elements are addresses in
`Ptrs`, `val[p]` is the content of the element at `p`. `Appended` follows
`append` (in place when there is room, else a new array of `GrownCap`),
`Collected` drops what nothing refers to, so that `MaxObjects` bounds the
elements alive and not the allocations.

| Model | Code (`generated_scopeentitiesslice.go`) |
|---|---|
| `Init` | `NewScopeEntitiesSlice` (an empty slice) and a wrapper over a nil slice of a parent |
| `EnsureCapacity(es, newCap)` | `EnsureCapacity`: early return, else `make` and `copy` |
| `AppendEmpty(es)` | `AppendEmpty` |
| `MoveAndAppendTo(es, dest)`, `Cleared`, `BothMustBeMutable` | `MoveAndAppendTo`: both asserts, the take-over of an empty destination or the `append`, `*es.orig = nil` |
| `RemoveIf(es, R)`, `Compacted` | `RemoveIf`; `R` is the set of indices the predicate holds for |
| `CopyTo(es, dest)`, `Copied`, `FitsDest` | `CopyTo`: the reslice path and the allocation path, the element-wise copy with a nil dereference part-way |
| `Sort(es, ...)`, `Sorted` | `Sort`; `sort.SliceStable` is the library's and is modelled by what it promises, a stable sort by `less` |
| `SetElement`, `MarkReadOnly` | the callers: a setter through `At(i)`, the owner of the state word |
| `panic` | how the last call ended: `AssertMutable` panicked, a nil pointer was dereferenced, or it returned |

A panic is an outcome of a step: the state is what the call had written when
it panicked, and the caller goes on, as the tests do with `assert.Panics`.

### EntitiesStruct

Extends `EntitiesSlice`: a `ResourceEntities` is a struct whose slice field is
`orig[m]` of the slice module, plus `schemaUrl[m]` and `resource[m]`.
`ScopeEntities` is every step of `EntitiesSlice` on that field with the
struct's state word, which is how the code hands out the wrapper.
`CopyStructTo` copies the two fields and then runs the slice's `CopyTo`, in
the order of the code, so a panic in the slice leaves the fields copied.
`pcommon.Resource` is not in `src/`: the resource is one value set by the
caller.

### PartialSuccess

`orig[ms]` is the struct `[rejected, message]`, `state[ms]` its state word.
`MoveTo`, `CopyTo` and the two setters assert and write as the code does;
`RejectedEntities` is an int64 whose values in the runs are 0, 13 and -1.

`MCEntitiesStruct` puts both generated struct wrappers into one run: the
variable `wrapper` is chosen in the first state and says which of the two the
behaviour is about, so the states of the two add up and never multiply. The
properties of `PartialSuccess` are checked under the names `Partial...`.
Neither module has a type invariant among its properties: the fields are
model values a getter hands through, and a type says nothing the code could
get wrong.

### AttributeMap

Every method of `common.go` hands its arguments to the embedded type of
`model/internal/pdata`, which is not among the sources. The actions stand for
the methods of `common.go`; what they do to the lists (`Inserted`, `Updated`,
`Upserted`, `Stored`, `Sorted`, `Ranged`, `CopiedValue`, `CopiedTo`) is
written from what the comments of `common.go` and `common_test.go` say, is
marked as such in the map, and goes no further than they do:

| Model | Code | Where the behaviour is stated |
|---|---|---|
| `kvs[l]` | the list of entries a map points to | `NewAttributeMap`: `[]otlpcommon.KeyValue` |
| `av[a]`, `am[x]` | the `AttributeValue`s and `AttributeMap`s the caller holds: pointers | comment of `AttributeValue`: "internally it is just a pointer" |
| `NewAttributeValue`, `NewAttributeValueMap` | the constructors (not `Array`, `Bytes`) | `common.go` |
| `NewAttributeMap`, `NewAttributeMapFromMap` | the same; the entries come in any order of the keys | `range` over a Go map; `TestAttributeMap_InitFromMap` compares after `Sort` |
| `Type`, `MapVal` | the same; `MapVal` of a value that is no map reaches no list | comment of `MapVal` |
| `Get`, `SetThroughGet` | `Get`, and a setter called on what it returned | comment of `Get`: "not a copy, it is a reference"; `TestAttributeMap_Update` |
| `Insert`, `Update`, `Upsert` (`Inserted`, `Updated`, `Upserted`, `Stored`) | the same | their comments; "This should perform a deep copy" in `TestAttributeValueMap` |
| `Sort`, `Sorted` | `Sort`, by key | comment of `Sort` |
| `Ranged` | `Range` with an `f` that stops | `TestAttributeMap_Range` |
| `CopyTo`, `CopiedTo` | `AttributeMap.CopyTo` to an empty, a larger and an equal destination; the guard `Apart` leaves out a destination inside the source or around it, of which nothing is said | `TestAttributeMap_CopyTo` |
| `ValueCopyTo`, `CopiedValue` | `AttributeValue.CopyTo` | `TestAttributeValue_CopyTo` |

Lists nest: an entry's value of map type holds the number of another list.
`Maps` are the lists a call can be made on, those of the caller's maps and
every list `MapVal` reaches from them. A value is compared by `Deep`, its
content with every nested list unfolded, which is what `assert.EqualValues`
compares in the tests.

Which list has which number is no part of the program's state. Every action
ends in `Becomes`, which drops the lists nothing refers to any more and
numbers the others in the order a walk from the caller's variables meets
them, so that states that differ in the numbers only are one state.

A reference returned by `Get` is used in the step that takes it
(`SetThroughGet`, `ValueCopyTo`). How long it stays the map's entry when the
map changes in between depends on where the entries lie in memory, which
the sources do not show.

## 4. Runs

All runs are exhaustive for their bounds.

| Run | Module, cfg | Bounds | Checks | Result |
|---|---|---|---|---|
| `limiter_serial` | `MCCapacityLimiter`, `limiter_serial.cfg` | 1 claimer, 5 elements of 0 to 3 items, capacity 5 items | `TypeOK`, `CapacityRespected`, `AccountingExact` | holds |
| `queue_ops` | `MCExporterQueue`, `queue_ops.cfg` | every configuration, with and without storage, 2 producers, 2 consumers, 4 requests of 0, 1, 2, 2 items, capacity 2 items, 1 crash | `QueueTypeOK`, `SizeIsHeld`, `BoundedOvershoot`, `UnackedIsDurable`, `AcceptedIsDone` | holds |
| `limiter_race` | `MCCapacityLimiter`, `limiter_race.cfg` | 2 claimers, capacity 1 request | `CapacityRespected` | violated |
| `sharder_serial` | `MCSharder`, `sharder_serial.cfg` | 1 consumer, 4 requests on 2 keys, batch of 2, 1 worker, with and without partitioner | `TypeOK`, `ShutdownLeavesNothing`, `RefinesGetOrCreate`, `ShutdownReturns` | holds |
| `pipeline_ops` | `MCPipeline`, `pipeline_ops.cfg` | 2 producers, 2 consumers, 3 requests of 1 item on 2 keys, capacity 2 items, batch of 2, 1 worker, with and without partitioner | `WorkersBounded`, `SizeIsInPipeline`, `SingleShardLeavesNothing`, `ShardIsolation`, `AccumulatesInStartedShard`, `AcceptedIsReleased` | holds |
| `sharder_race_shutdown` | `sharder_race_shutdown.cfg` | 2 consumers, partitioner | `ShutdownLeavesNothing` | violated |
| `slice_ops` | `MCEntitiesSlice`, `slice_ops.cfg` | 2 slices, length and capacity up to 2, 4 elements, values 0 and 1 | `TypeOK`, `ElementsOwnedOnce`, `ReadOnlyUntouched`, `RemoveIfKeepsSurvivors`, `MoveAppendsToOther`, `CopyToEqualOnDistinct`, `SortIsStable` | holds |
| `slice_copy_nil` | `slice_copy_nil.cfg` | as above | `NoNilDereference` | violated |
| `slice_copy_stale` | `slice_copy_stale.cfg` | as above | `CopyToYieldsEqual` | violated |
| `slice_move_self` | `slice_move_self.cfg` | as above | `MoveKeepsElements` | violated |
| `struct_ops` | `MCEntitiesStruct`, `struct_ops.cfg` | either 2 `ResourceEntities` (length up to 2, 3 elements of one value, 2 URLs, 2 resources) or 2 `ExportPartialSuccess` (3 counts, 2 messages) | `StructsShareNothing`, `ReadOnlyStructUntouched`, `MoveToOtherMoves`, `PartialReadOnlyUntouched`, `PartialMoveToOtherMoves` | holds |
| `attributes_ops` | `MCAttributeMap`, `attributes_ops.cfg` | 1 value and 1 map of the caller, 2 keys, an empty and a string content, 4 lists | `TypeOK`, `KeysUnique`, `WritesStayLocal` | holds |

What the runs show:

* **The limiter is exact but not a gate under concurrency.** With one
  goroutine in `Claim` the limiter never exceeds its capacity
  (`CapacityRespected`), and the accounting is exact (`AccountingExact`: the wrapping `Add` of `release` takes back what
  `claim` added, for zero-item requests too). With several, `Size()` can
  exceed `Capacity()`: both goroutines load, both pass the comparison, both
  add (`limiter_race`). Inside the queues the overshoot is bounded by one
  maximal element for each further producer (`BoundedOvershoot`), and
  `Size()` is still exactly what the queue and its consumers hold
  (`SizeIsHeld`), through failed writes, corrupt entries and a restart.
* **A persistent queue loses nothing it accepted.** Every request whose
  `Offer` returned nil and whose callback has not run is in the storage
  (`UnackedIsDurable`), whenever the process stops: between the write of an
  entry and of the write index, between the delete and the read index.
  This holds because the factory falls back to the memory queue for a nil
  storage ID only. Every accepted request is completed or dropped as corrupt
  (`AcceptedIsDone`), which needs `Validate` to refuse an enabled queue
  without consumers.
* **The limiter counts what is in the pipeline.** From `Offer` to `done` a
  request is in the queue, with a consumer, in the batch of a shard, or sent:
  `Size()` is the sum over exactly those (`SizeIsInPipeline`), also for the
  requests of a shard that was replaced in the map. Every accepted request
  is released (`AcceptedIsReleased`) without waiting for `Shutdown`, because
  every shard `getShard` hands out was started and its timer flushes a batch
  that never fills. No consumer merges a request into a shard that was not
  started (`AccumulatesInStartedShard`), in any interleaving of two
  consumers: `start` comes before the `Store` that lets the other consumer
  find the shard. With the two lines swapped the second consumer's `Load`
  hits between them.
* **`getShard` can create two shards for one key.** With one consumer
  `getShard` implements the get-or-create map of spec.md 9
  (`RefinesGetOrCreate`): one started shard per key, no entry replaced, no
  shard reachable before it runs. With two,
  both can miss in `Load`, both create and start a shard, and the second
  `Store` replaces the first. Each consumer hands its request to the shard it
  created; `Shutdown` stops what `Range` finds, so it returns while the other
  shard is running with a request pending (`sharder_race_shutdown`), although
  spec.md 4.6 says one shard is retained and nothing unflushed is dropped.
  What holds in every interleaving: the permits are conserved over all
  shards including the replaced ones, requests of different keys never meet
  in one batch (`ShardIsolation`), also in a shard that was replaced in the
  map, and without a partitioner nothing is left behind (`pipeline_ops`).
* **`Shutdown` returns** (`ShutdownReturns`) under the fairness below: the
  last flush of every shard gets a permit because every send gives its permit
  back.
* **`CopyTo` trusts the hidden slots of the destination.** When the
  destination has the capacity it is resliced and written through the
  pointers in its slots. After `EnsureCapacity` those are nil and `CopyTo`
  panics (`slice_copy_nil`); after `RemoveIf` a hidden slot holds the same
  element as a visible one, both copies land in one element and the
  destination differs from the source (`slice_copy_stale`). When the slots
  written through hold distinct elements the copy is right
  (`CopyToEqualOnDistinct`).
* **Moving onto itself loses the data.** `MoveAndAppendTo(es, es)` appends
  and then sets the slice to nil (`slice_move_self`); `MoveTo` of the two
  structs copies and then resets in the same way. To any other destination
  the moves do what their comments say (`MoveAppendsToOther`,
  `MoveToOtherMoves`) and leave nothing shared (`ElementsOwnedOnce`,
  `StructsShareNothing`).
* **Read-only data stays as it is** through every operation, as source or as
  destination, including through a slice wrapper a struct handed out.
* **An attribute map owns what it stores.** With `Insert`, `Update` and
  `Upsert` storing a deep copy and both `CopyTo` copying nested lists, a call
  changes what one variable of the caller sees and nothing else
  (`WritesStayLocal`), at every depth the four lists allow: a map inserted
  into a map inserted into a map. Without the deep copy a setter called
  through `Get` on one map shows in the value it was inserted from. No
  sequence of calls puts a key twice into a list (`KeysUnique`). These are statements
  about the behaviour `common.go` and its tests describe; the run shows that
  the description is consistent and what it rules out, and cannot show that
  the internal package keeps to it.

### Bounds

* `WordBits = 4`: see above.
* Limiter: five elements of 0, 1, 2, 2 and 3 items, 8 in all, against
  capacities of 3 and 5 make claims pass, fail, and pass only because of a
  stale load; the zero-item element exercises `release` of 0, where
  `^(0 - 1)` is 0.
* Queue: requests of 0, 1, 2 and 2 items against a capacity of 2 fill the
  queue exactly, overshoot it when two producers race (4 items, the bound of
  `BoundedOvershoot`), and have a zero-size entry on disk. Two consumers give
  acknowledgments out of order, so that the read index has to pass over a
  hole. One crash (`MaxCrashes = 1`) can fall between any two steps; runs
  with a second crash are beyond these bounds.
* Pipeline: three requests of one item against a capacity of 2 make `Offer`
  fail until a batch was sent, and two producers overshoot; the sharder's
  bounds are those below.
* Sharder: three requests on two keys give a hit, a miss, and two concurrent
  misses of one key; `MaxBatch = 2` gives both a size flush and a timer or
  shutdown flush; `MaxWorkers = 1` makes shards wait for each other's permit.
  `sharder_serial` has a fourth request, the third of its key, so that
  `getShard` also finds a shard that has already sent a full batch and the
  shard begins a second batch, which the timer or `Shutdown` flushes.
  `MaxShards`
  (4, and 5 with four requests) is never reached: each request creates at
  most one shard.
* Slices: length 2 is the least that has a survivor moved down by `RemoveIf`,
  a hidden slot aliasing a visible one, and an order for `Sort` to keep;
  capacity 2 over length 0 or 1 gives the nil slots. `MaxObjects = 4` lets two
  slices of two elements exist at once. For `struct_ops` three elements and
  capacity 1 keep the run small: the slice's own questions are asked in
  `slice_ops`.
* Attributes: one value and one map of the caller with four lists give a map
  in a map in a map, a value of map type copied from inside the map it is
  stored into again, and `CopyTo` between a map and a list nested in another;
  two keys are the least with an order for `Sort` and a destination longer
  than its source; the contents `empty` and `string` are the least that tell
  a changed value from an unchanged one. An action that needs more lists
  than are free (`CanCopy`) is not taken: `MaxLists = 4` bounds the nesting
  the run reaches, as a memory limit would.

### Fairness

Three runs check liveness; none of them uses symmetry.

* `sharder_serial` (`Fairness`): weak fairness on the steps the Go scheduler
  and the exporter guarantee: a flush that can take a permit takes it, a send
  returns, the goroutines started by `Shutdown` run, and `Range` and `Wait`
  proceed. Nothing obliges the queue to deliver requests, the timer to fire,
  or the host to call `Shutdown`.
* `queue_ops` (`QueueFairness`): the consumer goroutines the queue starts
  run: a consumer that can take a request takes one, and a consumer that has
  one completes it and acknowledges it. Producers, the host and crashes are
  under no obligation.
* `pipeline_ops` (`PipelineFairness`): `Fairness`, and: a consumer takes
  what is in the queue and goes through `getShard` (`start`, `Store`) and
  `Consume`, the flush timer of a
  started shard fires, `done` is called once a send has returned.

Weak fairness is what the Go scheduler gives: a goroutine that stays
runnable runs. Nothing stronger is assumed where goroutines compete for a
request or a permit.

## 5. Not modelled

* Of `AttributeValue` and `AttributeMap`: values of array type and
  `SliceVal` (`AttributeValueSlice` is not in `src/`), `NewAttributeValueBytes`,
  `Equal` and `String`; `CopyTo` of a map into itself or into a map nested
  in it, and `NewAttributeMapFromMap` of values of map type, of which neither
  a comment nor a test says what it does; the setters and `Delete`, methods
  of the embedded type only, except a setter called on what `Get` returned;
  the lifetime of a reference returned by `Get`.
* `TraceID`, `SpanID`: immutable byte arrays whose methods delegate in the
  same way; nothing changes state.
* A capacity limiter built with a capacity that is zero or negative:
  `uint64(capacity)` of `queue_capacity.go` line 36 turns a negative capacity
  into a limit no claim reaches. The code that builds the limiter is not in
  `src/`; the models take the positive queue size `Validate` leaves.
* What is left of the files that are modelled is licence text, imports, type
  declarations and documentation comments: the map names every function of
  `queue_capacity.go`, `sharder.go`, `multi_batcher.go`, the two `queue.go`
  and the three generated files, and of `common.go` all but those listed
  above.
* The queues and the shard batcher beyond what spec.md says of them:
  serialization, the storage client, retries of storage calls, merging and
  splitting of requests by size, telemetry.
* A crash of a process with a memory queue, the content of entities,
  contexts, errors returned by `Start` and `Shutdown` of the sharder (always
  nil), and the test files except as the source of what the properties state.
