\* Two goroutines claim one request each against a capacity of one request.
SPECIFICATION Spec
CONSTANTS
    c1 = c1  c2 = c2
    e0 = e0  e1 = e1  e2 = e2  e3 = e3  e4 = e4
    NoElement = NoElement
    Elements <- MCElements
    ItemsCount <- MCItemsCount
    WordBits = 4
    Claimers <- TwoClaimers
    Unit = "request"
    Capacity = 1
INVARIANT CapacityRespected
