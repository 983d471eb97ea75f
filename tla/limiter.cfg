SPECIFICATION Spec
CONSTANTS
    Key = {k1, k2}
    Handler = {h1, h2}
    Address = {a1, a2, a3}
    NoBucket = NoBucket
    KeyCapacity <- MCKeyCapacity
    KeyRate <- MCKeyRate
    GlobalCapacity <- MCGlobalCapacity
    GlobalRate <- MCGlobalRate
    Unit <- MCUnit
    MaxTime = 4
SYMMETRY LimiterSymmetry
INVARIANTS
    TypeOK
    ClientBound
    GlobalBound
    OneBucketPerKey
PROPERTIES
    ImplementsMetering
