CONSTANTS
    notice = notice
    renewal = renewal
    nudge = nudge
    snooze = snooze
    w1 = w1
    w2 = w2
    NoKey = NoKey
    Workers = {w1,w2}
    Once = {nudge}
    Refreshed = {}
    Snoozed = {snooze}
    Groups <- NudgesTogether
    MaxAttempts = 2
    Backoff = 1
    BatchSize = 1
    Faults = {"telegram", "error", "database", "death"}
    MaxArmings = 2
    Horizon = 2
SPECIFICATION FairSpec
INVARIANTS TypeOK AtMostOncePerArming OnceEver AttemptsBounded
PROPERTIES EveryJobSettles
CHECK_DEADLOCK FALSE
