SPECIFICATION Spec
CONSTANTS
    Clients = {t1, t2}
    Calls <- BatchCalls
    Rows <- MCRows
    Objects <- MCObjects
    RowIds <- MCRowIds
    ObjectIds <- MCObjectIds
    MaxCalls = 3
    None = None

PROPERTIES BatchRemovesItsOwn
CHECK_DEADLOCK FALSE
