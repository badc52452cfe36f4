SPECIFICATION Spec
CONSTANTS
    K1 = K1
    K2 = K2
    L1 = L1
    L2 = L2
    NoName = NoName
    CtrlName = CtrlName
    NoInfo = NoInfo
    Names <- MCNames
    LongNames <- MCLongNames
    Clip <- MCClip
    Lines <- MCLines
    Like <- MCLike
    LongLines <- MCLines
    BUS_STA_MX_COUNT = 4
    Neighbours <- AnyNeighbour
    Decs <- MCDecs
    Seqs <- EdgeSeqs
    Statuses <- MCStatuses
INVARIANTS TypeOK StatusShown InfoIsCurrent
PROPERTIES ReportsLeaveLineAlone
