SPECIFICATION Spec
CONSTANTS
    Threads = {t1, t2}
    Stored <- MCStored
    Asked <- MCAsked
    PerSecond = 3
    Factor = 3
    MaxChanges = 2
    None = None
PROPERTIES UnaskedKept
CHECK_DEADLOCK FALSE
