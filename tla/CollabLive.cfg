SPECIFICATION FairSpec
CONSTANTS
    Clients = {1, 2}
    MaxEdits = 2
    MaxConn = 2
    MaxLosses = 0
    MaxSaved = 0
    MaxCrashes = 0
    MaxEvents = 0
    MaxDeletes = 0
PROPERTIES UpdatesDelivered EditsPublished
CHECK_DEADLOCK FALSE
