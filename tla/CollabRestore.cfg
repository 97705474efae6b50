SPECIFICATION Spec
CONSTANTS
    Clients = {1, 2}
    MaxEdits = 2
    MaxConn = 2
    MaxLosses = 0
    MaxSaved = 1
    MaxCrashes = 0
    MaxEvents = 1
    MaxDeletes = 0
PROPERTIES RestoreOverwrites
CHECK_DEADLOCK FALSE
