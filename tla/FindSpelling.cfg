\* Lazy repetitions and Rust's own class syntax; leave SpellingAtoms or Lazy out
\* (MCAtoms, MCCounts) to see what the other does.
SPECIFICATION Spec
CONSTANTS
    MinLiteral = 3
    MaxWord = 128
    MinRun = 3
    MaxClass = 2
    None = None
    MaxSize = 3
    MaxChunks = 3
    Atoms <- SpellingAtoms
    Given = {}
    Counts <- Lazy
    Chunks <- MCChunks
    Lines <- MCLines
    MaxRepeat = 10
    Searched = {}
    Commands <- MCCommands
    Files <- MCFiles
    Texts <- MCTexts
    SuffixOf <- MCSuffixOf
    Binaries <- MCBinaries
    Cuts = {1, 2, 4}
INVARIANTS SameMeaning
CHECK_DEADLOCK FALSE
