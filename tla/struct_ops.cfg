SPECIFICATION BothSpec
CONSTANTS
    m1 = m1
    m2 = m2
    url = url
    EmptyUrl = EmptyUrl
    Slices <- TwoStructs
    Values <- OneValue
    Urls <- TwoUrls
    Resources <- TwoResources
    MaxObjects = 3
    MaxLen = 2
    MaxCap = 1
    p1 = p1
    p2 = p2
    msg = msg
    NoMessage = NoMessage
SYMMETRY StructSymmetry
INVARIANT StructsShareNothing
PROPERTY ReadOnlyStructUntouched
PROPERTY MoveToOtherMoves
PROPERTY PartialReadOnlyUntouched
PROPERTY PartialMoveToOtherMoves
