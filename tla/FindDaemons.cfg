\* Each of the two properties fails; leave one out to see the other fail.
SPECIFICATION Spec
CONSTANTS
    Daemons = {1, 2}
    Observed = 2
    Left <- MCLeft
    Foreign = Foreign
    Stale = Stale
    None = None
    Threads = {t1}
    Names = {"src"}
    Existing <- NoVolumes
    Ids = {1}
    TTL = 2
    MaxChanges = 0
    NoId = NoId
PROPERTIES
    TakesNoneAlive
    ReadyAnswers
CHECK_DEADLOCK FALSE
