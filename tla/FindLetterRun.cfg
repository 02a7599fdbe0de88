SPECIFICATION Spec
CONSTANTS
    MinLiteral = 3
    MaxWord = 128
    MinRun = 2
    MaxClass = 2
    None = None
    MaxSize = 4
    MaxChunks = 4
    Atoms <- MCAtoms
    Given = {}
    Counts <- Greedy
    Chunks <- MCChunks
    Lines <- MCLines
    MaxRepeat = 10
    Searched = {}
    Commands <- MCCommands
    Files <- MCFiles
    Texts <- MCTexts
    SuffixOf <- MCSuffixOf
    Binaries <- MCBinaries
    Cuts = {1, 2, 4}
INVARIANTS RunGuaranteed
CHECK_DEADLOCK FALSE
