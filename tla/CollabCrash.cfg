SPECIFICATION Spec
CONSTANTS
    Clients = {1, 2}
    MaxEdits = 2
    MaxConn = 3
    MaxLosses = 0
    MaxSaved = 0
    MaxCrashes = 1
    MaxEvents = 1
    MaxDeletes = 1
INVARIANTS TypeOK MissesNothing RoomSaved
PROPERTIES StaysCovered ImplementsSharedDoc
CHECK_DEADLOCK FALSE
