\* One goroutine at a time inside Claim (the caller serialises Offer), any
\* interleaving of Release calls; capacity counted in items.
SPECIFICATION Spec
CONSTANTS
    c1 = c1  c2 = c2
    e0 = e0  e1 = e1  e2 = e2  e3 = e3  e4 = e4
    NoElement = NoElement
    Elements <- MCElements
    ItemsCount <- MCItemsCount
    WordBits = 4
    Claimers <- OneClaimer
    Unit = "item"
    Capacity = 5
INVARIANT TypeOK
INVARIANT CapacityRespected
INVARIANT AccountingExact
