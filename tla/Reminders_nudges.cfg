CONSTANTS
    b1 = b1
    w1 = w1
    NoKey = NoKey
    Bookings = {b1}
    Starts = {1}
    Dur = 1
    Lead <- NoOffsets
    Lag <- BothNudges
    Morning <- OneNight
    SnoozeFor = 1
    Lookahead = 9
    Lookback = 9
    Switchable = {"attendance"}
    MaxMoves = 0
    Workers = {w1}
    MaxAttempts = 2
    Backoff = 1
    BatchSize = 1
    Faults = {"telegram", "error", "database", "death"}
    MaxArmings = 1
    Horizon = 5
SPECIFICATION Spec
PROPERTIES SilencedIsQuiet
CHECK_DEADLOCK FALSE
