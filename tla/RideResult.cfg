SPECIFICATION FairSpec
CONSTANTS
    Clicked = {0, 1}
    BusWays = {0, 1}
    Tools = {3, 4}
    DrvWays = {0, 1}
    MaxEarlier = 1
    MaxPending = 1
INVARIANTS PlansOfOptions
PROPERTIES BusSearched
