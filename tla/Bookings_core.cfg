CONSTANTS
    m1 = m1
    c1 = c1
    b1 = b1
    b2 = b2
    b3 = b3
    t1 = t1
    t2 = t2
    Masters = {m1}
    Clients = {c1}
    Bookings = {b1, b2, b3}
    Tasks = {t1, t2}
    Attached <- OnePair
    Notifiable <- NoPair
    Starts <- StartsApart
    Durations <- Length
    InitSubs <- NoneOrFree
    PaidUntils = {1}
    LastOrder = 0
    MaxNow = 3
    FreeBookings = 1
    MonthLen = 3
    DayLen = 1
    TrialDays = 2
SPECIFICATION Spec
SYMMETRY Symmetry
INVARIANTS TypeOK NoOverlap AttendanceAfterTheFact QuotaOvershoot
PROPERTIES LifeCycle KeepsPromise TrialNotRenewed
