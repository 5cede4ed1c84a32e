SPECIFICATION Spec
CONSTANTS
    q1 = q1
    q2 = q2
    r1 = r1
    r2 = r2
    r3 = r3
    r4 = r4
    k1 = k1
    k2 = k2
    NoRequest = NoRequest
    Requests <- MCRequests
    Keys <- MCKeys
    KeyOf <- MCKeyOf
    MaxShards = 4
    MaxBatch = 2
    TimerEnabled = TRUE
    Consumers <- TwoConsumers
    WithPartitioner = {TRUE}
    MaxWorkers = 1
INVARIANT ShutdownLeavesNothing
