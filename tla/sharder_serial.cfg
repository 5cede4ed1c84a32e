SPECIFICATION FairSpec
CONSTANTS
    q1 = q1
    q2 = q2
    r1 = r1
    r2 = r2
    r3 = r3
    r4 = r4
    k1 = k1
    k2 = k2
    NoRequest = NoRequest
    Requests <- MCRequestsFour
    Keys <- MCKeys
    KeyOf <- MCKeyOfFour
    MaxShards = 5
    MaxBatch = 2
    TimerEnabled = TRUE
    Consumers <- OneConsumer
    WithPartitioner = {TRUE, FALSE}
    MaxWorkers = 1
INVARIANT TypeOK
INVARIANT ShutdownLeavesNothing
PROPERTY RefinesGetOrCreate
PROPERTY ShutdownReturns
