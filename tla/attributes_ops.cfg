SPECIFICATION Spec
CONSTANTS
    v1 = v1
    m1 = m1
    Keys <- TwoKeys
    Scalars <- TwoScalars
    ValueVars <- OneValue
    MapVars <- OneMap
    MaxLists = 4
INVARIANT TypeOK
INVARIANT KeysUnique
PROPERTY WritesStayLocal
