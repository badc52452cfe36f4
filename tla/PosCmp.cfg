SPECIFICATION FairSpec
CONSTANTS
    A = A
    B = B
    NoSta = NoSta
    Names <- MCNames
    MaxSize = 3
    Dists <- MCDists
    Thresholds <- MCThresholds
INVARIANTS NearestFound
PROPERTIES VerdictOnPosition CallbackEnds
