CONSTANTS
    b1 = b1
    b2 = b2
    client = client
    master = master
    Days <- TwoDays
    DayLength = 3
    Windows <- TwoWindows
    Sizes = {1, 2}
    Offsets <- EastAndHome
    FirstHours <- LongSlots
    FirstZones <- ClientEast
    Bookings = {b1, b2}
    MaxChanges = 0
    NoOverride = nooverride
    DayOff = dayoff
    None = none
SPECIFICATION Spec
SYMMETRY Symmetry
INVARIANTS PickedDay

CHECK_DEADLOCK FALSE
