SPECIFICATION Spec
CONSTANTS
    s1 = s1
    s2 = s2
    Slices <- TwoSlices
    Values <- TwoValues
    MaxObjects = 4
    MaxLen = 2
    MaxCap = 2
SYMMETRY SliceSymmetry
INVARIANT NoNilDereference
