SPECIFICATION Spec
CONSTANTS
    Names <- MCNames
    Arguments <- MCArguments
    Commands <- MCCommands
    MaxDepth = 2
    MaxSteps = 4
    None = None
INVARIANTS MapsAsKernel
PROPERTIES SuccessIsDebians
CHECK_DEADLOCK FALSE
