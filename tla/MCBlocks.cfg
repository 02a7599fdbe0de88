SPECIFICATION Spec
CONSTANTS
    letter = letter
    newline = newline
    invalid = invalid
    MaxText = 8
    Bytes <- MCBytes
    Texts <- MCTexts
    Newline = newline
    Invalid <- MCInvalid
    BlockBytes = 3
    MaxLine = 4
INVARIANTS ColumnsTrue LineAligned StoredWhole RangesExact
CHECK_DEADLOCK FALSE
