SPECIFICATION Spec
CONSTANTS
    RouteIds = {1, 2, 3}
    NoRoute = 0
    Methods = {"GET"}
    Names = {"hello", "echo"}
    DefaultKey <- MCDefaultKey
    MaxUsage = 1
INVARIANTS TypeOK IndexSound Reachable
CHECK_DEADLOCK FALSE
