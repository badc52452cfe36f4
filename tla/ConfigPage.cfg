SPECIFICATION PageSpec
CONSTANTS
    K1 = K1
    K2 = K2
    L1 = L1
    NoName = NoName
    CtrlName = CtrlName
    NoInfo = NoInfo
    NoTyped = NoTyped
    Names <- MCNames
    LongNames <- MCLongNames
    Clip <- MCClip
    Lines <- MCLines
    Like <- MCLike
    LongLines <- MCLines
    BUS_STA_MX_COUNT = 4
    Neighbours <- MCNeighbours
    Decs = {2}
    Seqs = {}
    Statuses = {}
    Options = {1, 2}
    MaxCalls = 2
INVARIANTS SetIsShown
VIEW PageView
