SPECIFICATION Spec
CONSTANTS
    A = A
    B = B
    NoText = NoText
    NoRows = NoRows
    Texts <- MCTexts
    MayFail = TRUE
    MaxLists = 2
    MaxWaiting = 1
    MaxDepth = 2
INVARIANTS TypeOK PagesHaveData SearchShown ListsOfType DetailShown
SYMMETRY MCSymmetry
