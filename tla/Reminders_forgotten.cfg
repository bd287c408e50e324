CONSTANTS
    b1 = b1
    w1 = w1
    NoKey = NoKey
    Bookings = {b1}
    Starts = {1, 2}
    Dur = 1
    Lead <- OneReminder
    Lag <- OneNudge
    Morning <- OneNight
    SnoozeFor = 1
    Lookahead = 9
    Lookback = 9
    Switchable = {"attendance"}
    MaxMoves = 1
    Workers = {w1}
    MaxAttempts = 2
    Backoff = 1
    BatchSize = 2
    Faults = {}
    MaxArmings = 1
    Horizon = 4
SPECIFICATION FairSpec
PROPERTIES ForgottenGetsNudged SilencedIsQuiet
CHECK_DEADLOCK FALSE
