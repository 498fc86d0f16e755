CONSTANTS
    Objects = {a, b}
    Numbers <- MCNumbers
    Texts <- MCTexts
    MaxElements = 2
    MaxUnknown = 1
SPECIFICATION Spec
SYMMETRY Symmetry
INVARIANTS
    Delivered
    MergeIsConcatenation
    WholeObjects
    SizesExact
CHECK_DEADLOCK FALSE
