SPECIFICATION Spec
CONSTANTS
    MinLiteral = 3
    MaxWord = 128
    MinRun = 8
    MaxClass = 10
    None = None
    MaxSize = 3
    MaxChunks = 3
    Atoms <- MCAtoms
    Given <- MCPatterns
    Counts <- MCCounts
    Chunks <- MCChunks
    Lines <- MCLines
    MaxRepeat = 10
    Searched <- MCPatterns
    Commands <- MCCommands
    Files <- MCFiles
    Texts <- MCTexts
    SuffixOf <- MCSuffixOf
    Binaries <- MCBinaries
    Cuts = {1, 2, 4}
INVARIANTS LiteralsRequired SameMeaning OutputExact
CHECK_DEADLOCK FALSE
