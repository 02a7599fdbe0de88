SPECIFICATION Spec
CONSTANTS
    Clients = {t1, t2}
    Calls <- OrphanCalls
    Rows <- MCRows
    Objects <- MCObjects
    RowIds <- MCRowIds
    ObjectIds <- MCObjectIds
    MaxCalls = 2
    None = None

INVARIANTS NoOrphans
CHECK_DEADLOCK FALSE
