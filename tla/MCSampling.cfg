\* One field with up to five values, in every order.
CONSTANTS
    Half <- MCHalf
    Values <- MCValues
    Fields = {f1}
    None = None
    DistinctCap = 2
    LowCardMax = 1
    MaxValues = 5
    MaxSkipped = 1
SPECIFICATION Spec
INVARIANTS
    TypeOK
    RangeIsTight
    DistinctIsExact
    NarrowedHoldsInts
    NarrowedIsNarrowest
    LowCardinalityIsEarned
