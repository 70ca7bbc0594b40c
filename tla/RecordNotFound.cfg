\* /v1/records/{id} while Silver has not caught up with Bronze.
SPECIFICATION ApiSpec
CONSTANTS
    Runs = {a, b}
    Nothing = nothing
    Clients = {c}
    Symbols = {x, y}
    MaxEvent = 1
    Settings <- SilverOnly
INVARIANT NotFoundMeansAbsent
CHECK_DEADLOCK FALSE
