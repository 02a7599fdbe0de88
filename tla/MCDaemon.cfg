SPECIFICATION Spec
CONSTANTS
    Daemons = {1, 2, 3}
    Observed = 2
    Left <- MCLeft
    Foreign = Foreign
    Stale = Stale
    None = None
    Threads = {t1, t2}
    Names <- MCNames
    Existing <- MCExisting
    Ids <- MCIds
    TTL = 1
    MaxChanges = 2
    NoId = NoId
INVARIANTS Reachable RunsInItsVolume
PROPERTIES TakesOnlyStale ComesUp Settles
CHECK_DEADLOCK FALSE
