SPECIFICATION FairSpec
CONSTANTS
    A = A
    B = B
    NoName = NoName
    NoSta = NoSta
    LastSta = 2
    Line <- MCLine
    ReqLimit = 4
    MaxPending = 2
INVARIANTS TypeOK ToldOnce HeardTold ReminderOfMenu
PROPERTIES PollEnds
