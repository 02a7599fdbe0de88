SPECIFICATION Spec
CONSTANTS
    Names <- MCNames
    Arguments <- MCArguments
    Commands <- DotsCommands
    MaxDepth = 2
    MaxSteps = 3
    None = None
PROPERTIES SuccessIsDebians
CHECK_DEADLOCK FALSE
