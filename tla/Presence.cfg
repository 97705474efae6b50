SPECIFICATION FairSpec
CONSTANTS
    Sockets = {s1, s2, s3}
    Updates = {u1, u2}
    Statuses = {"online", "away"}
    NoSocket = NoSocket
INVARIANTS TypeOK EntryNotGone GoneIsOffline LiveIsOnline
PROPERTIES EndsOffline
CHECK_DEADLOCK FALSE
