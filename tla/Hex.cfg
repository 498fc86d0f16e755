CONSTANTS
    MaxLength = 4
    Texts <- MCTexts
    Shown <- MCShown
SPECIFICATION HexSpec
INVARIANTS
    Decodes
    ReadsBack
CHECK_DEADLOCK FALSE
