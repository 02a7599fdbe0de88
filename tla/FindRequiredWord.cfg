SPECIFICATION Spec
CONSTANTS
    MinLiteral = 3
    MaxWord = 128
    MinRun = 3
    MaxClass = 2
    None = None
    MaxSize = 3
    MaxChunks = 3
    Atoms <- MCAtoms
    Given = {}
    Counts <- MCCounts
    Chunks <- MCChunks
    Lines <- MCLines
    MaxRepeat = 10
    Searched = {}
    Commands <- MCCommands
    Files <- MCFiles
    Texts <- MCTexts
    SuffixOf <- MCSuffixOf
    Binaries <- MCBinaries
    Cuts = {1, 2, 4}
INVARIANTS WordGuaranteed
CHECK_DEADLOCK FALSE
