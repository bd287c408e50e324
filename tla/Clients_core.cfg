CONSTANTS
    m1 = m1
    u1 = u1
    u2 = u2
    c1 = c1
    c2 = c2
    p1 = p1
    p2 = p2
    i1 = i1
    i2 = i2
    b1 = b1
    t1 = t1
    t2 = t2
    Masters = {m1}
    Users = {u1, u2}
    Clients = {c1, c2}
    Phones = {p1, p2}
    Invites = {i1, i2}
    Bookings = {b1}
    Tasks = {t1, t2}
    FirstPro <- FreeOrPro
    FreeClients = 1
    FirstClients <- MaybeOne
    NoUser = none
    NoClient = none
    NoMaster = none
SPECIFICATION Spec
SYMMETRY Symmetry
INVARIANTS TypeOK InviteAdmitsOnce BookingsFollowTheMerge FirstClientEndsNudging
PROPERTIES MergeKeepsHistory QuotaUnlessRaced OnePhoneUnlessRaced
CHECK_DEADLOCK FALSE
