SPECIFICATION Spec
CONSTANTS
    Clients = {t1, t2}
    Calls <- MCCalls
    Rows <- MCRows
    Objects <- MCObjects
    RowIds <- MCRowIds
    ObjectIds <- MCObjectIds
    MaxCalls = 4
    None = None

INVARIANTS ContentResident CountExact
PROPERTIES RemovesItsOwn
CHECK_DEADLOCK FALSE
