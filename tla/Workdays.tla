------------------------------ MODULE Workdays ------------------------------
(***************************************************************************)
(* When a master can be booked: his working hours (handlers/master/        *)
(* settings.py), the days he overrides (handlers/master/                   *)
(* workday_overrides.py), the free slots computed from both (schedule.py,  *)
(* use_cases/master_free_slots.py), and the three dialogs that offer them: *)
(* a client books, a master books for a client, a master moves a booking.  *)
(*                                                                         *)
(* A list of slots is computed once and kept in the dialog; until it is    *)
(* confirmed others book and the master changes his hours.  Of all that    *)
(* only the overlap of two bookings is checked when the booking is         *)
(* written.  Time is counted in steps of UTC; a zone is its offset, and    *)
(* daylight saving is left out.                                            *)
(***************************************************************************)
EXTENDS Integers, FiniteSets

CONSTANTS
    Days,         \* days of the calendar a dialog offers
    DayLength,    \* steps of a day
    Windows,      \* working hours, [from, to]
    Sizes,        \* slot sizes, in steps
    Offsets,      \* zones, as their offset from UTC
    FirstHours,   \* bound: the settings to begin with
    FirstZones,   \* bound: the zones to begin with
    Bookings,
    client, master,  \* the two users
    MaxChanges,   \* bound: how often settings, zones and overrides change
    NoOverride, DayOff, None

ASSUME WorkdayConstants ==
    /\ Days \subseteq Int /\ DayLength \in Nat \ {0} /\ Offsets \subseteq Int
    /\ Sizes \subseteq Nat \ {0}
    /\ Windows \subseteq [from : 0..(DayLength - 1), to : 0..(DayLength - 1)]
    /\ \A w \in Windows : w.from < w.to
    /\ client # master
    /\ None \notin Windows \cup Bookings \cup Int \cup [start : Int, size : Sizes]
    /\ NoOverride \notin Windows /\ DayOff \notin Windows \cup {NoOverride}
    /\ FirstHours \subseteq [days : SUBSET Days, window : Windows, size : Sizes]
    /\ FirstZones \subseteq [{client, master} -> Offsets]
    /\ MaxChanges \in Nat

Who == {client, master}

VARIABLES
    hours,     \* the master's work_days, start_time and end_time, slot_size_min
    zone,      \* masters.timezone, clients.timezone
    override,  \* workday_overrides, by date
    booking,   \* the active bookings: start_at, duration_min
    sheet,     \* each user's dialog
    excused,   \* history: the bookings that may lie outside working hours
    changes    \* bound

vars == <<hours, zone, override, booking, sheet, excused, changes>>

-----------------------------------------------------------------------------
(* The calendar *)

Hours == [days : SUBSET Days, window : Windows, size : Sizes]

Override == Windows \cup {DayOff, NoOverride}

DayOf(w) == w \div DayLength

TimeOf(w) == w % DayLength

\* on the wall clock of a zone, and back
Local(u, z) == u + z
Utc(w, z) == w - z

\* The day of the master a client's day is taken for: that of its midnight.
MasterDay(d, z) == DayOf(Local(Utc(d * DayLength, z), zone[master]))

BaseWindow(d) == IF d \in hours.days THEN hours.window ELSE None

WindowOf(d) ==
    IF d \notin Days \/ override[d] = NoOverride THEN BaseWindow(d)
    ELSE IF override[d] = DayOff THEN None ELSE override[d]

-----------------------------------------------------------------------------
(* Free slots *)

Live == {b \in Bookings : booking[b] # None}

StartLocal(b) == Local(booking[b].start, zone[master])

EndLocal(b) == StartLocal(b) + booking[b].size

\* get_for_master_in_range: the bookings that start on the master's day
OfDay(d) == {b \in Live : DayOf(StartLocal(b)) = d}

\* _iter_slots_local: every start from the opening on, a slot apart
Grid(d, w) ==
    {t \in (d * DayLength + w.from)..(d * DayLength + w.to - hours.size) :
        (t - d * DayLength - w.from) % hours.size = 0}

\* Mutant: only a booking that starts with the slot makes it busy.
IsSlotFreeAtItsStart(t, busy) == \A b \in busy : StartLocal(b) # t

IsSlotFree(t, busy) ==
    \A b \in busy : t + hours.size <= StartLocal(b) \/ t >= EndLocal(b)

\* GetMasterFreeSlots for the master's day d; without is the booking being moved
FreeSlots(d, without) ==
    IF WindowOf(d) = None THEN {}
    ELSE {Utc(t, zone[master]) : t \in
             {s \in Grid(d, WindowOf(d)) : IsSlotFree(s, OfDay(d) \ {without})}}

Overlap(s, n, b) == s < booking[b].start + booking[b].size /\ booking[b].start < s + n

\* Mutant: the ranges of the constraint are closed, and bookings may not abut.
ClashIfAbutting(s, n, row) ==
    \E b \in Live \ {row} : s <= booking[b].start + booking[b].size /\ booking[b].start <= s + n

\* the exclusion constraint of the table; the row that is written is left out
Clash(s, n, row) == \E b \in Live \ {row} : Overlap(s, n, b)

-----------------------------------------------------------------------------
(* Dialogs *)

Idle == [at |-> "idle"]

\* zone: the user's zone when the dialog was opened
Dates == [at : {"dates"}, zone : Offsets, moving : Bookings \cup {None}]

\* day: the day picked; slot: the one chosen.  Histories: stale, hours, zones or
\* overrides have changed since the list was read; raced, bookings have.
Slots == [at : {"slots", "confirm"}, zone : Offsets, moving : Bookings \cup {None}, day : Days,
          slots : SUBSET Int, slot : Int \cup {None}, stale : BOOLEAN, raced : BOOLEAN]

\* between the check of an override and its write
Checked == [at : {"checked"}, day : Days, new : Override, raced : BOOLEAN]

Listed(who) == sheet[who].at \in {"slots", "confirm"}

Become(who, s) == sheet' = [sheet EXCEPT ![who] = s]

\* what the dialogs that are open become when bookings, or the hours, change
Raced(s) == IF s.at \in {"slots", "confirm", "checked"} THEN [s EXCEPT !.raced = TRUE] ELSE s

Outdated(s) == IF s.at \in {"slots", "confirm"} THEN [s EXCEPT !.stale = TRUE] ELSE s

Others(who, s, Touch(_)) ==
    sheet' = [x \in Who |-> IF x = who THEN s ELSE Touch(sheet[x])]

OpenDates(s) == [at |-> "dates", zone |-> s.zone, moving |-> s.moving]

Init ==
    /\ hours \in FirstHours
    /\ zone \in FirstZones
    /\ override = [d \in Days |-> NoOverride]
    /\ booking = [b \in Bookings |-> None]
    /\ sheet = [who \in Who |-> Idle]
    /\ excused = {}
    /\ changes = 0

\* a new dialog takes the place of the one that was open
StartBooking(who) ==
    /\ sheet[who].at # "checked"
    /\ Become(who, [at |-> "dates", zone |-> zone[who], moving |-> None])
    /\ UNCHANGED <<hours, zone, override, booking, excused, changes>>

StartMove(b) ==
    /\ sheet[master].at # "checked"
    /\ b \in Live
    /\ Become(master, [at |-> "dates", zone |-> zone[master], moving |-> b])
    /\ UNCHANGED <<hours, zone, override, booking, excused, changes>>

\* _filter_out_original_slot: a booking is not offered its own start, seen on
\* the day that was picked
Offered(who, d) ==
    LET s == sheet[who]
        own == IF s.moving \in Live /\ DayOf(Local(booking[s.moving].start, s.zone)) = d
               THEN {booking[s.moving].start} ELSE {}
    IN  FreeSlots(MasterDay(d, s.zone), s.moving) \ own

SlotsOf(who, d) ==
    [at |-> "slots", zone |-> sheet[who].zone, moving |-> sheet[who].moving, day |-> d,
     slots |-> Offered(who, d), slot |-> None, stale |-> FALSE, raced |-> FALSE]

\* a day without slots is refused, and another may be picked
PickDay(who, d) ==
    /\ sheet[who].at = "dates"
    /\ Offered(who, d) # {}
    /\ Become(who, SlotsOf(who, d))
    /\ UNCHANGED <<hours, zone, override, booking, excused, changes>>

PickSlot(who, u) ==
    /\ sheet[who].at = "slots"
    /\ u \in sheet[who].slots
    /\ Become(who, [sheet[who] EXCEPT !.at = "confirm", !.slot = u])
    /\ UNCHANGED <<hours, zone, override, booking, excused, changes>>

PickASlot(who) == Listed(who) /\ \E u \in sheet[who].slots : PickSlot(who, u)

BackToSlots(who) ==
    /\ sheet[who].at = "confirm"
    /\ Become(who, [sheet[who] EXCEPT !.at = "slots", !.slot = None])
    /\ UNCHANGED <<hours, zone, override, booking, excused, changes>>

BackToCalendar(who) ==
    /\ sheet[who].at = "slots"
    /\ Become(who, OpenDates(sheet[who]))
    /\ UNCHANGED <<hours, zone, override, booking, excused, changes>>

-----------------------------------------------------------------------------
(* Booking a slot: only the overlap with other bookings is checked.        *)

InsideWindow(b, w) ==
    LET d == DayOf(StartLocal(b))
    IN  /\ w # None
        /\ d * DayLength + w.from <= StartLocal(b)
        /\ EndLocal(b) <= d * DayLength + w.to

Inside(b) == InsideWindow(b, WindowOf(DayOf(StartLocal(b))))

\* the slot size is the one of now, not the one the list was made of
Insert(b, u, s) ==
    /\ booking' = [booking EXCEPT ![b] = [start |-> u, size |-> hours.size]]
    /\ excused' = IF s.stale THEN excused \cup {b} ELSE excused

\* Mutant: the list is left in the dialog.
RecoverInPlace == [sheet[client] EXCEPT !.at = "dates"]

\* a client whose slot is taken is shown the day again, as it is now
Recover ==
    LET again == SlotsOf(client, sheet[client].day)
    IN  IF again.slots = {} THEN OpenDates(sheet[client]) ELSE again

\* ... a master the same list
ListAgain == [sheet[master] EXCEPT !.at = "slots", !.slot = None]

ConfirmBooking(who, b) ==
    LET s == sheet[who] IN
        /\ s.at = "confirm" /\ s.moving = None
        /\ booking[b] = None
        /\ ~Clash(s.slot, hours.size, None)
        /\ Insert(b, s.slot, s)
        /\ Others(who, Idle, Raced)
        /\ UNCHANGED <<hours, zone, override, changes>>

RefuseBooking(who) ==
    LET s == sheet[who] IN
        /\ s.at = "confirm" /\ s.moving = None
        /\ Clash(s.slot, hours.size, None)
        /\ Become(who, IF who = client THEN Recover ELSE ListAgain)
        /\ UNCHANGED <<hours, zone, override, booking, excused, changes>>

\* a booking that is moved keeps its length
MovedSize(b) == booking[b].size

ConfirmMove ==
    LET s == sheet[master] IN
        /\ s.at = "confirm" /\ s.moving \in Live
        /\ booking[s.moving].start # s.slot
        /\ ~Clash(s.slot, MovedSize(s.moving), s.moving)
        /\ booking' = [booking EXCEPT ![s.moving].start = s.slot]
        /\ excused' = IF s.stale \/ booking[s.moving].size > hours.size
                       THEN excused \cup {s.moving} ELSE excused
        /\ Others(master, Idle, Raced)
        /\ UNCHANGED <<hours, zone, override, changes>>

\* taken: another day may be picked
RefuseMove ==
    LET s == sheet[master] IN
        /\ s.at = "confirm" /\ s.moving \in Live
        /\ booking[s.moving].start # s.slot
        /\ Clash(s.slot, MovedSize(s.moving), s.moving)
        /\ Become(master, OpenDates(s))
        /\ UNCHANGED <<hours, zone, override, booking, excused, changes>>

\* no longer live, or already there
EndMove ==
    LET s == sheet[master] IN
        /\ s.at = "confirm" /\ s.moving # None
        /\ s.moving \in Live => booking[s.moving].start = s.slot
        /\ Become(master, Idle)
        /\ UNCHANGED <<hours, zone, override, booking, excused, changes>>

\* an active booking is cancelled or declined by either side, from its card
Cancel(b) ==
    /\ b \in Live
    /\ booking' = [booking EXCEPT ![b] = None]
    /\ excused' = excused \ {b}
    /\ sheet' = [who \in Who |-> Raced(sheet[who])]
    /\ UNCHANGED <<hours, zone, override, changes>>

Leave(who) ==
    /\ sheet[who].at \in {"dates", "slots", "confirm"}
    /\ Become(who, Idle)
    /\ UNCHANGED <<hours, zone, override, booking, excused, changes>>

-----------------------------------------------------------------------------
(* Overrides: the bookings of the day are checked, then the override is    *)
(* written in a transaction of its own.                                    *)

\* Mutant: only the starts are compared.
ConflictsOfStarts(d, w) ==
    {b \in OfDay(d) : w = None \/ TimeOf(StartLocal(b)) < w.from \/ TimeOf(StartLocal(b)) > w.to}

\* _conflicts_for_window compares times of day: an end past midnight wraps
Conflicts(d, w) ==
    {b \in OfDay(d) : w = None \/ TimeOf(StartLocal(b)) < w.from \/ TimeOf(EndLocal(b)) > w.to}

Check(d, w, new) ==
    /\ changes < MaxChanges
    /\ sheet[master].at # "checked"
    /\ Conflicts(d, w) = {}
    /\ Become(master, [at |-> "checked", day |-> d, new |-> new, raced |-> FALSE])
    /\ UNCHANGED <<hours, zone, override, booking, excused, changes>>

\* the day's menu offers to close a working day and to open a free one
MakeDayOff(d) ==
    /\ WindowOf(d) # None
    /\ Check(d, None, IF BaseWindow(d) = None THEN NoOverride ELSE DayOff)

MakeWorking(d) ==
    /\ WindowOf(d) = None
    /\ Check(d, hours.window, IF BaseWindow(d) = None THEN hours.window ELSE NoOverride)

SetHours(d, w) == Check(d, w, w)

\* the bookings the new hours leave outside
PushedOut == {b \in Live : ~Inside(b)'}

ApplyOverride ==
    LET s == sheet[master] IN
        /\ s.at = "checked"
        /\ override' = [override EXCEPT ![s.day] = s.new]
        /\ changes' = changes + 1
        /\ Others(master, Idle, Outdated)
        /\ UNCHANGED <<hours, zone, booking>>
        /\ excused' = IF s.raced THEN excused \cup PushedOut ELSE excused

-----------------------------------------------------------------------------
(* Settings are written without a look at the bookings. *)

Change ==
    /\ changes < MaxChanges
    /\ changes' = changes + 1
    /\ sheet[master].at # "checked"
    /\ UNCHANGED <<override, booking>>

\* the prompt for the new value takes the place of an open dialog
SaveHours(h) ==
    /\ Change
    /\ hours' = h
    /\ Others(master, Idle, Outdated)
    /\ UNCHANGED zone
    /\ excused' = excused \cup PushedOut

SaveWorkDays == \E S \in SUBSET Days : SaveHours([hours EXCEPT !.days = S])

SaveWorkTime == \E w \in Windows : SaveHours([hours EXCEPT !.window = w])

SaveSlotSize == \E n \in Sizes : SaveHours([hours EXCEPT !.size = n])

\* the zone is set from a menu, beside an open dialog
SetZone(who, z) ==
    /\ Change
    /\ zone' = [zone EXCEPT ![who] = z]
    /\ sheet' = [x \in Who |-> IF who = master THEN Outdated(sheet[x]) ELSE sheet[x]]
    /\ UNCHANGED hours
    /\ excused' = excused \cup PushedOut

Next ==
    \/ \E who \in Who :
          \/ StartBooking(who) \/ BackToSlots(who) \/ BackToCalendar(who) \/ Leave(who)
          \/ RefuseBooking(who)
          \/ \E d \in Days : PickDay(who, d)
          \/ PickASlot(who)
          \/ \E b \in Bookings : ConfirmBooking(who, b)
          \/ \E z \in Offsets : SetZone(who, z)
    \/ \E b \in Bookings : StartMove(b) \/ Cancel(b)
    \/ ConfirmMove \/ RefuseMove \/ EndMove
    \/ \E d \in Days :
          \/ MakeDayOff(d) \/ MakeWorking(d)
          \/ \E w \in Windows : SetHours(d, w)
    \/ ApplyOverride
    \/ SaveWorkDays \/ SaveWorkTime \/ SaveSlotSize

Spec == Init /\ [][Next]_vars

-----------------------------------------------------------------------------
(* Properties *)

\* A dialog offers times of the master's day only, an override is hours of his
\* or a day off, and a booking once inserted has the size of a slot.
TypeOK ==
    /\ hours \in Hours
    /\ zone \in [Who -> Offsets]
    /\ override \in [Days -> Override]
    /\ booking \in [Bookings -> {None} \cup [start : Int, size : Sizes]]
    /\ sheet \in [Who -> {Idle} \cup Dates \cup Slots \cup Checked]
    /\ excused \subseteq Live
    /\ changes \in 0..MaxChanges

\* A booking lies within the working hours of its day, whatever override was put
\* on or taken off that day since, unless it was made from a list older than the
\* hours, moved though longer than today's slots, made while the override was
\* being checked, or left outside by a change of settings, which checks nothing.
InsideHours == \A b \in Live \ excused : Inside(b)

\* A booking runs past the midnight that begins the day d.
PastMidnight(d) ==
    \E b \in Live : StartLocal(b) < d * DayLength /\ d * DayLength < EndLocal(b)

\* A list that nothing has overtaken names exactly the starts, a slot apart from
\* the opening on, whose slot ends by closing time and meets no booking; but for
\* a booking that began the day before, or a move begun in another zone of the master.
\* A booking on the move is not offered its own start.
FreeListIsExact ==
    \A who \in Who :
        LET s == sheet[who]
            d == MasterDay(s.day, s.zone)
            w == WindowOf(d)
        IN  (Listed(who) /\ ~s.stale /\ ~s.raced /\ ~PastMidnight(d)
                /\ (s.moving # None => s.zone = zone[master]))
            => \A u \in ((d - 1) * DayLength)..((d + 2) * DayLength) :
                  u \in s.slots <=>
                      /\ w # None
                      /\ \E k \in 0..DayLength :
                            Local(u, zone[master]) = d * DayLength + w.from + k * hours.size
                      /\ Local(u, zone[master]) + hours.size <= d * DayLength + w.to
                      /\ ~Clash(u, hours.size, s.moving)
                      /\ ~(s.moving \in Live /\ booking[s.moving].start = u)

\* "Just taken" is said of a slot that was free when it was offered: somebody
\* has booked since, the hours have changed, or the booking that is moved, or
\* one of the day before, is longer than its place.
RefusedOnlyIfTaken ==
    [][\A who \in Who :
          RefuseBooking(who) \/ (who = master /\ RefuseMove)
          => LET s == sheet[who] IN
                \/ s.stale \/ s.raced \/ PastMidnight(MasterDay(s.day, s.zone))
                \/ s.moving \in Live /\ booking[s.moving].size > hours.size]_vars

\* The times offered for a day are times of that day, on the clock of the user
\* who picked it ("Свободное время для записи на {client_day}").
PickedDay ==
    \A who \in Who : Listed(who) =>
        \A u \in sheet[who].slots : DayOf(Local(u, sheet[who].zone)) = sheet[who].day

=============================================================================
