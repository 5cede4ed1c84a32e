\* Two producers and up to two consumers, memory and persistent queue, one
\* crash of the process; capacity counted in items.
SPECIFICATION FairQueueSpec
CONSTANTS
    p1 = p1
    p2 = p2
    e0 = e0
    e1 = e1
    e2 = e2
    e3 = e3
    storage = storage
    NoStorage = NoStorage
    NoElement = NoElement
    Elements <- MCElements
    ItemsCount <- MCItemsCount
    Claimers <- TwoProducers
    StorageIDs <- BothStorageIDs
    WordBits = 4
    Unit = "item"
    Capacity = 2
    DefaultNumConsumers = 2
    MaxCrashes = 1
INVARIANT QueueTypeOK
INVARIANT SizeIsHeld
INVARIANT BoundedOvershoot
INVARIANT UnackedIsDurable
PROPERTY AcceptedIsDone
