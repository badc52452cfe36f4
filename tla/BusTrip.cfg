SPECIFICATION TripSpec
CONSTANTS
    NoName = NoName
    CtrlName = CtrlName
    NoInfo = NoInfo
    Names <- MCNames
    LongNames <- MCNames
    Clip <- MCClip
    Lines <- MCNames
    Like <- MCNames
    LongLines = {}
    Decs <- MCNames
    Seqs <- MCNames
    Statuses <- MCNames
    Neighbours <- AnyNeighbour
    BUS_STA_MX_COUNT = 4
    LineLength = 4
INVARIANTS BehindPassed
PROPERTIES TripKeepsLine ShowsTruth
