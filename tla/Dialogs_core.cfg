CONSTANTS
    d1 = d1
    d2 = d2
    p1 = p1
    p2 = p2
    none = none
    NoDay = none
    Days <- MCDays
    People <- MCPeople
    MaxScreens = 2
SYMMETRY MCSymmetry
SPECIFICATION Spec
INVARIANTS TypeOK ContextIsKept ConfirmIsTakenUp NoDeadButton AlwaysAWayOn
PROPERTIES DoesWhatItShows ConsentComesFirst
