\* Two producers, two consumers, with and without a partitioner, one worker.
SPECIFICATION FairPipelineSpec
CONSTANTS
    p1 = p1
    p2 = p2
    q1 = q1
    q2 = q2
    r1 = r1
    r2 = r2
    r3 = r3
    k1 = k1
    k2 = k2
    NoRequest = NoRequest
    Requests <- MCRequests
    Keys <- MCKeys
    KeyOf <- MCKeyOf
    ItemsCount <- MCItemsCount
    Claimers <- TwoProducers
    Consumers <- TwoConsumers
    MaxShards = 4
    MaxBatch = 2
    TimerEnabled = TRUE
    WithPartitioner = {TRUE, FALSE}
    MaxWorkers = 1
    Unit = "item"
    Capacity = 2
    WordBits = 4
INVARIANT WorkersBounded
INVARIANT SizeIsInPipeline
INVARIANT SingleShardLeavesNothing
INVARIANT ShardIsolation
INVARIANT AccumulatesInStartedShard
PROPERTY AcceptedIsReleased
