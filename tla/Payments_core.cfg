CONSTANTS
    m1 = m1
    m2 = m2
    h1 = h1
    h2 = h2
    p1 = p1
    p2 = p2
    Masters = {m1}
    Invoices = {1}
    Owner <- OneOwner
    Handlers = {h1}
    Pollers = {p1}
    ProDays = 1
    Lifetime = 2
    Eleven = 1
    Ahead = 0
    ProSteps = {0}
    TrialSteps = {}
    GrantDays = {2}
    FirstSubs <- OnTrial
    Faults = {"provider", "refused", "death"}
    NoInvoice = none
    MaxOrders = 1
    MaxNow = 3
    FreeBookings = 2
    MonthLen = 8
    DayLen = 2
    TrialDays = 2
SPECIFICATION FairSpec
INVARIANTS TypeOK CreditedOnce NeverOverCredited
PROPERTIES KeepsLedger PayerIsTold
CHECK_DEADLOCK FALSE
