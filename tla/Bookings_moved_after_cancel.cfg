CONSTANTS
    m1 = m1
    c1 = c1
    b1 = b1
    b2 = b2
    b3 = b3
    t1 = t1
    t2 = t2
    Masters = {m1}
    Clients = {c1}
    Bookings = {b1, b2}
    Tasks = {t1, t2}
    Attached <- OnePair
    Notifiable <- NoPair
    Starts <- StartsOneToThree
    Durations <- Length
    InitSubs <- ProSub
    PaidUntils = {}
    LastOrder = 0
    MaxNow = 2
    FreeBookings = 2
    MonthLen = 8
    DayLen = 1
    TrialDays = 2
SPECIFICATION Spec
SYMMETRY Symmetry
PROPERTIES OnlyLiveBookingsMove
