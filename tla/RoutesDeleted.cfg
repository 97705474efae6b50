SPECIFICATION Spec
CONSTANTS
    RouteIds = {1, 2, 3}
    NoRoute = 0
    Methods = {"GET", "POST"}
    Names = {"hello", "echo"}
    DefaultKey <- MCDefaultKey
    MaxUsage = 1
PROPERTIES DeletedIsGone
CHECK_DEADLOCK FALSE
