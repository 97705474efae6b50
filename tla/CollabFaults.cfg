SPECIFICATION Spec
CONSTANTS
    Clients = {1, 2}
    MaxEdits = 2
    MaxConn = 2
    MaxLosses = 1
    MaxSaved = 1
    MaxCrashes = 1
    MaxEvents = 2
    MaxDeletes = 0
INVARIANTS RoomMembership OnlineAccurate SeenIsSaved
PROPERTIES FileLosesNothing
CHECK_DEADLOCK FALSE
