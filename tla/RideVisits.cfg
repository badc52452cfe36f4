SPECIFICATION Spec
CONSTANTS
    A = A
    B = B
    P = P
    Q = Q
    Texts <- MCTexts
    Positions <- MCPositions
    MaxLate = 1
    NoText = NoText
    Nowhere = Nowhere
INVARIANTS TypeOK JourneyShown LabelOfPosition
SYMMETRY MCSymmetry
