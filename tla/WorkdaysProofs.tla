--------------------------- MODULE WorkdaysProofs ---------------------------
(***************************************************************************)
(* Proofs about Workdays, for every calendar, length of the day, set of    *)
(* working hours, slot size and zone, and any number of bookings and of    *)
(* changes.                                                                *)
(*                                                                         *)
(* InsideHours is not inductive: it is about the table, while what is      *)
(* written there was decided from a list or a check made before.  SheetInv *)
(* says, dialog by dialog, what its list or its check still guarantees     *)
(* until something the dialog has not seen overtakes it.                   *)
(***************************************************************************)
EXTENDS Workdays, TLAPS

\* the slot to be confirmed is one of the list
ChosenFromList(who) == sheet[who].at = "confirm" => sheet[who].slot \in sheet[who].slots

\* only the master checks an override, and the bound is not used up meanwhile
CheckInRoom(who) == sheet[who].at = "checked" => who = master /\ changes < MaxChanges

\* the slot at u lies within the hours of the master's day d
Fits(u, d) == WindowOf(d) # None /\ Local(u, zone[master]) \in Grid(d, WindowOf(d))

\* a list no change of hours has overtaken names times within them
ListFits(who) ==
    Listed(who) /\ ~sheet[who].stale =>
        \A u \in sheet[who].slots : Fits(u, MasterDay(sheet[who].day, sheet[who].zone))

\* a list nothing has overtaken is the one that would be made now
ListCurrent(who) ==
    Listed(who) /\ ~sheet[who].stale /\ ~sheet[who].raced =>
        sheet[who].slots = Offered(who, sheet[who].day)

\* the hours of a day once the override is written
WindowAfter(d, new) ==
    IF new = NoOverride THEN BaseWindow(d) ELSE IF new = DayOff THEN None ELSE new

\* a check no booking has overtaken still holds of the day
CheckHolds(who) ==
    sheet[who].at = "checked" /\ ~sheet[who].raced =>
        \A b \in OfDay(sheet[who].day) \ excused :
            InsideWindow(b, WindowAfter(sheet[who].day, sheet[who].new))

SheetInv(who) ==
    /\ ChosenFromList(who) /\ CheckInRoom(who)
    /\ ListFits(who) /\ ListCurrent(who) /\ CheckHolds(who)

IInv == TypeOK /\ InsideHours /\ \A who \in Who : SheetInv(who)

-----------------------------------------------------------------------------
(* Days and times *)

\* An instant belongs to the day whose midnights it lies between.
LEMMA DayBounds ==
    ASSUME NEW d \in Int, NEW w \in Int
    PROVE  /\ DayOf(w) \in Int
           /\ d * DayLength \in Int
           /\ DayOf(w) = d <=> d * DayLength <= w /\ w < d * DayLength + DayLength
           /\ TimeOf(w) = w - DayOf(w) * DayLength
<1> DEFINE q == w \div DayLength
<1>1. w = q * DayLength + (w % DayLength) /\ w % DayLength \in 0..(DayLength - 1) /\ q \in Int
  BY WorkdayConstants
<1>2. PICK p \in Int : p = q
  BY <1>1
<1>3. \A a, b \in Int : a * b \in Int
  OBVIOUS
<1>4. d * DayLength \in Int /\ p * DayLength \in Int
  BY <1>2, <1>3, WorkdayConstants
<1>5. ASSUME d < p PROVE ~(w < d * DayLength + DayLength)
  <2>0. p - d - 1 \in Nat /\ p = d + 1 + (p - d - 1)
    BY <1>5, <1>2
  <2>1. PICK k \in Nat : p = d + 1 + k
    BY <2>0
  <2>2. p * DayLength = d * DayLength + DayLength + k * DayLength
    BY <2>1, WorkdayConstants
  <2>3. k * DayLength \in Nat
    <3>1. \A a, b \in Nat : a * b \in Nat
      OBVIOUS
    <3>2. QED
      BY <3>1, WorkdayConstants
  <2>4. QED
    BY <1>1, <1>2, <1>4, <2>2, <2>3, WorkdayConstants
<1>6. ASSUME p < d PROVE ~(d * DayLength <= w)
  <2>0. d - p - 1 \in Nat /\ d = p + 1 + (d - p - 1)
    BY <1>6, <1>2
  <2>1. PICK k \in Nat : d = p + 1 + k
    BY <2>0
  <2>2. d * DayLength = p * DayLength + DayLength + k * DayLength
    BY <2>1, <1>2, WorkdayConstants
  <2>3. k * DayLength \in Nat
    <3>1. \A a, b \in Nat : a * b \in Nat
      OBVIOUS
    <3>2. QED
      BY <3>1, WorkdayConstants
  <2>4. QED
    BY <1>1, <1>2, <1>4, <2>2, <2>3, WorkdayConstants
<1>7. p = d => d * DayLength <= w /\ w < d * DayLength + DayLength
  BY <1>1, <1>2, <1>4, WorkdayConstants
<1>8. DayOf(w) = p /\ TimeOf(w) = w % DayLength
  BY <1>2 DEF DayOf, TimeOf
<1>9. TimeOf(w) = w - p * DayLength
  BY <1>1, <1>2, <1>4, <1>8, WorkdayConstants
<1>10. DayOf(w) = d <=> d * DayLength <= w /\ w < d * DayLength + DayLength
  BY <1>2, <1>5, <1>6, <1>7, <1>8
<1>11. QED
  BY <1>4, <1>8, <1>9, <1>10, <1>2

-----------------------------------------------------------------------------
(* Types *)

\* The parts of the state that the arithmetic is about.
LEMMA StateTypes ==
    ASSUME TypeOK
    PROVE  /\ zone[master] \in Int /\ zone[client] \in Int
           /\ \A who \in Who : zone[who] \in Offsets
           /\ hours.days \subseteq Days /\ hours.window \in Windows
           /\ hours.size \in Sizes /\ hours.size \in Nat \ {0}
           /\ \A d : WindowOf(d) # None => WindowOf(d) \in Windows
           /\ Live \subseteq Bookings
           /\ None \notin Live
           /\ \A b \in Live : /\ booking[b] \in [start : Int, size : Sizes]
                              /\ booking[b].start \in Int
                              /\ booking[b].size \in Sizes /\ booking[b].size \in Nat \ {0}
                              /\ StartLocal(b) \in Int /\ EndLocal(b) \in Int
<1>1. zone[master] \in Int /\ zone[client] \in Int /\ \A who \in Who : zone[who] \in Offsets
  BY WorkdayConstants DEF TypeOK, Who
<1>2. /\ hours.days \subseteq Days /\ hours.window \in Windows
      /\ hours.size \in Sizes /\ hours.size \in Nat \ {0}
  BY WorkdayConstants DEF TypeOK, Hours
<1>3. ASSUME NEW d, WindowOf(d) # None PROVE WindowOf(d) \in Windows
  <2>1. CASE d \notin Days \/ override[d] = NoOverride
    BY <1>2, <1>3, <2>1 DEF WindowOf, BaseWindow
  <2>2. CASE d \in Days /\ override[d] # NoOverride
    <3>1. override[d] \in Override
      BY <2>2 DEF TypeOK
    <3>2. QED
      BY <1>3, <2>2, <3>1 DEF WindowOf, Override
  <2>3. QED
    BY <2>1, <2>2
<1>4. Live \subseteq Bookings /\ None \notin Live
  BY WorkdayConstants DEF Live
<1>5. ASSUME NEW b \in Live
      PROVE  /\ booking[b] \in [start : Int, size : Sizes]
             /\ booking[b].start \in Int
             /\ booking[b].size \in Sizes /\ booking[b].size \in Nat \ {0}
             /\ StartLocal(b) \in Int /\ EndLocal(b) \in Int
  <2>1. booking[b] \in [start : Int, size : Sizes]
    BY DEF TypeOK, Live
  <2>2. booking[b].start \in Int /\ booking[b].size \in Sizes /\ booking[b].size \in Nat \ {0}
    BY <2>1, WorkdayConstants
  <2>3. QED
    BY <1>1, <2>1, <2>2 DEF StartLocal, EndLocal, Local
<1>6. QED
  BY <1>1, <1>2, <1>3, <1>4, <1>5

\* What a dialog holds, by where it is.
LEMMA SheetTypes ==
    ASSUME TypeOK, NEW who \in Who
    PROVE  /\ sheet[who].at = "dates" => sheet[who] \in Dates
           /\ Listed(who) => sheet[who] \in Slots /\ sheet[who].day \in Days
           /\ sheet[who].at = "checked" => sheet[who] \in Checked
           /\ sheet[who] \in Dates \cup Slots => sheet[who].zone \in Int
<1>1. sheet[who] \in {Idle} \cup Dates \cup Slots \cup Checked
  BY DEF TypeOK
<1>2. CASE sheet[who] = Idle
  BY <1>2 DEF Idle, Listed, Dates, Slots
<1>3. CASE sheet[who] \in Dates
  <2>1. sheet[who].at = "dates" /\ sheet[who].zone \in Int
    BY <1>3, WorkdayConstants DEF Dates
  <2>2. QED
    BY <1>3, <2>1 DEF Listed
<1>4. CASE sheet[who] \in Slots
  <2>1. sheet[who].at \in {"slots", "confirm"} /\ sheet[who].zone \in Int /\ sheet[who].day \in Days
    BY <1>4, WorkdayConstants DEF Slots
  <2>2. QED
    BY <1>4, <2>1 DEF Listed
<1>5. CASE sheet[who] \in Checked
  <2>1. sheet[who].at = "checked"
    BY <1>5 DEF Checked
  <2>2. sheet[who] \notin Dates \cup Slots
    BY <2>1 DEF Dates, Slots
  <2>3. QED
    BY <1>5, <2>1, <2>2 DEF Listed
<1>6. QED
  BY <1>1, <1>2, <1>3, <1>4, <1>5

\* The master's day of a day on a user's calendar is a day.
LEMMA MasterDayType ==
    ASSUME TypeOK, NEW d \in Days, NEW z \in Int
    PROVE  MasterDay(d, z) \in Int
<1>1. d \in Int
  BY WorkdayConstants
<1>2. d * DayLength \in Int
  BY <1>1, DayBounds
<1>3. Local(Utc(d * DayLength, z), zone[master]) \in Int
  BY <1>2, StateTypes DEF Local, Utc
<1>4. QED
  BY <1>3, DayBounds DEF MasterDay

\* A start of the grid lies on its day, and its slot ends by closing time.
LEMMA GridBounds ==
    ASSUME TypeOK, NEW d \in Int, WindowOf(d) # None, NEW t \in Grid(d, WindowOf(d))
    PROVE  /\ t \in Int /\ DayOf(t) = d
           /\ d * DayLength + WindowOf(d).from <= t
           /\ t + hours.size <= d * DayLength + WindowOf(d).to
           /\ t + hours.size < d * DayLength + DayLength
<1>1. PICK w \in Windows : w = WindowOf(d)
  BY StateTypes
<1>2. w.from \in 0..(DayLength - 1) /\ w.to \in 0..(DayLength - 1)
  BY WorkdayConstants
<1>3. d * DayLength \in Int
  BY DayBounds
<1>4. PICK m \in Int : m = d * DayLength
  BY <1>3
<1>5. t \in (m + w.from)..(m + w.to - hours.size)
  BY <1>1, <1>4 DEF Grid
<1>6. t \in Int /\ m + w.from <= t /\ t + hours.size <= m + w.to
  BY <1>2, <1>4, <1>5, StateTypes
<1>7. m <= t /\ t < m + DayLength /\ t + hours.size < m + DayLength
  BY <1>2, <1>4, <1>6, StateTypes, WorkdayConstants
<1>8. DayOf(t) = d
  BY <1>4, <1>6, <1>7, DayBounds
<1>9. QED
  BY <1>1, <1>4, <1>6, <1>7, <1>8

\* A slot that is offered is a start of the grid, and free.
LEMMA FreeSlotsAre ==
    ASSUME TypeOK, NEW d \in Int, NEW row, NEW u
    PROVE  u \in FreeSlots(d, row) <=>
              /\ u \in Int /\ Fits(u, d)
              /\ IsSlotFree(Local(u, zone[master]), OfDay(d) \ {row})
<1>1. zone[master] \in Int
  BY StateTypes
<1>2. ASSUME WindowOf(d) # None, NEW t \in Grid(d, WindowOf(d)) PROVE t \in Int
  BY <1>2, GridBounds
<1>3. CASE WindowOf(d) = None
  BY <1>3 DEF FreeSlots, Fits
<1>4. CASE WindowOf(d) # None
  <2>1. FreeSlots(d, row) =
          {Utc(t, zone[master]) : t \in
             {s \in Grid(d, WindowOf(d)) : IsSlotFree(s, OfDay(d) \ {row})}}
    BY <1>4 DEF FreeSlots
  <2>2. ASSUME u \in FreeSlots(d, row)
        PROVE  /\ u \in Int /\ Fits(u, d)
               /\ IsSlotFree(Local(u, zone[master]), OfDay(d) \ {row})
    <3>1. PICK t \in Grid(d, WindowOf(d)) :
             u = Utc(t, zone[master]) /\ IsSlotFree(t, OfDay(d) \ {row})
      BY <2>1, <2>2
    <3>2. t \in Int
      BY <1>2, <1>4
    <3>3. u \in Int /\ Local(u, zone[master]) = t
      BY <1>1, <3>1, <3>2 DEF Utc, Local
    <3>4. QED
      BY <1>4, <3>1, <3>3 DEF Fits
  <2>3. ASSUME u \in Int, Fits(u, d), IsSlotFree(Local(u, zone[master]), OfDay(d) \ {row})
        PROVE  u \in FreeSlots(d, row)
    <3>1. PICK t : t = Local(u, zone[master])
      OBVIOUS
    <3>2. t \in Grid(d, WindowOf(d)) /\ IsSlotFree(t, OfDay(d) \ {row})
      BY <2>3, <3>1 DEF Fits
    <3>3. u = Utc(t, zone[master])
      BY <1>1, <2>3, <3>1 DEF Utc, Local
    <3>4. QED
      BY <2>1, <3>2, <3>3
  <2>4. QED
    BY <2>2, <2>3
<1>5. QED
  BY <1>3, <1>4

\* What a dialog is offered for the day d.
LEMMA OfferedAre ==
    ASSUME TypeOK, NEW who \in Who, sheet[who] \in Dates \cup Slots, NEW d \in Days, NEW u
    PROVE  LET D == MasterDay(d, sheet[who].zone)
               row == sheet[who].moving
           IN  u \in Offered(who, d) <=>
                 /\ u \in Int /\ Fits(u, D)
                 /\ IsSlotFree(Local(u, zone[master]), OfDay(D) \ {row})
                 /\ ~(/\ row \in Live /\ u = booking[row].start
                      /\ DayOf(Local(booking[row].start, sheet[who].zone)) = d)
<1> DEFINE D == MasterDay(d, sheet[who].zone)
           row == sheet[who].moving
<1>1. D \in Int
  BY SheetTypes, MasterDayType
<1>2. u \in FreeSlots(D, row) <=>
        /\ u \in Int /\ Fits(u, D)
        /\ IsSlotFree(Local(u, zone[master]), OfDay(D) \ {row})
  BY <1>1, FreeSlotsAre
<1>3. u \in Offered(who, d) <=>
        /\ u \in FreeSlots(D, row)
        /\ ~(/\ row \in Live /\ u = booking[row].start
             /\ DayOf(Local(booking[row].start, sheet[who].zone)) = d)
  BY DEF Offered
<1>4. QED
  BY <1>2, <1>3

\* the contents of a dialog
Sheets == {Idle} \cup Dates \cup Slots \cup Checked

\* Being overtaken sets a mark and leaves the rest of a dialog alone.
LEMMA MarksOnly ==
    ASSUME NEW s \in Sheets
    PROVE  /\ Raced(s) \in Sheets /\ Outdated(s) \in Sheets
           /\ Raced(s).at = s.at /\ Outdated(s).at = s.at
           /\ s.at \in {"slots", "confirm"} =>
                /\ s \in Slots /\ Raced(s) \in Slots /\ Outdated(s) \in Slots
                /\ Raced(s).raced /\ Raced(s).stale = s.stale /\ Outdated(s).stale
                /\ Raced(s).slots = s.slots /\ Outdated(s).slots = s.slots
                /\ Raced(s).slot = s.slot /\ Outdated(s).slot = s.slot
                /\ Raced(s).day = s.day /\ Outdated(s).day = s.day
                /\ Raced(s).zone = s.zone /\ Outdated(s).zone = s.zone
           /\ s.at = "checked" => Raced(s).raced /\ Outdated(s) = s
<1>1. CASE s = Idle
  BY <1>1 DEF Idle, Raced, Outdated, Sheets
<1>2. CASE s \in Dates
  <2>1. s.at = "dates"
    BY <1>2 DEF Dates
  <2>2. QED
    BY <1>2, <2>1 DEF Raced, Outdated, Sheets
<1>3. CASE s \in Slots
  <2>1. s.at \in {"slots", "confirm"} /\ s.at # "checked"
    BY <1>3 DEF Slots
  <2>2. Raced(s) = [s EXCEPT !.raced = TRUE] /\ Outdated(s) = [s EXCEPT !.stale = TRUE]
    BY <2>1 DEF Raced, Outdated
  <2>3. Raced(s) \in Slots /\ Outdated(s) \in Slots
    BY <1>3, <2>2 DEF Slots
  <2>4. /\ Raced(s).raced /\ Raced(s).stale = s.stale /\ Outdated(s).stale
        /\ Raced(s).slots = s.slots /\ Outdated(s).slots = s.slots
        /\ Raced(s).slot = s.slot /\ Outdated(s).slot = s.slot
        /\ Raced(s).day = s.day /\ Outdated(s).day = s.day
        /\ Raced(s).zone = s.zone /\ Outdated(s).zone = s.zone
        /\ Raced(s).at = s.at /\ Outdated(s).at = s.at
    BY <1>3, <2>2 DEF Slots
  <2>5. QED
    BY <1>3, <2>1, <2>3, <2>4 DEF Sheets
<1>4. CASE s \in Checked
  <2>1. s.at = "checked"
    BY <1>4 DEF Checked
  <2>2. Raced(s) = [s EXCEPT !.raced = TRUE] /\ Outdated(s) = s
    BY <2>1 DEF Raced, Outdated
  <2>3. Raced(s) \in Checked /\ Raced(s).raced /\ Raced(s).at = s.at
    BY <1>4, <2>2 DEF Checked
  <2>4. QED
    BY <1>4, <2>1, <2>2, <2>3 DEF Sheets
<1>5. QED
  BY <1>1, <1>2, <1>3, <1>4 DEF Sheets

\* A list made for the day d of a dialog that is open is a dialog.
LEMMA FreshListType ==
    ASSUME TypeOK, NEW who \in Who, sheet[who] \in Dates \cup Slots, NEW d \in Days
    PROVE  SlotsOf(who, d) \in Slots
<1>1. Offered(who, d) \subseteq Int
  BY OfferedAre
<1>2. sheet[who].zone \in Offsets /\ sheet[who].moving \in Bookings \cup {None}
  BY DEF Dates, Slots
<1>3. QED
  BY <1>1, <1>2 DEF SlotsOf, Slots

\* A step of one user that concerns his dialog only.
LEMMA OwnSheetType ==
    ASSUME TypeOK, NEW who \in Who, NEW s \in Sheets, Become(who, s),
           UNCHANGED <<hours, zone, override, booking, excused, changes>>
    PROVE  TypeOK'
<1>1. sheet' \in [Who -> Sheets]
  BY DEF TypeOK, Become, Sheets
<1>2. QED
  BY <1>1 DEF TypeOK, Sheets, Live, Hours

\* A step of one user that overtakes the dialogs of the other.
LEMMA OthersType ==
    ASSUME TypeOK, NEW who \in Who,
           Others(who, Idle, Raced) \/ Others(who, Idle, Outdated)
    PROVE  sheet' \in [Who -> Sheets]
<1>1. \A x \in Who : sheet[x] \in Sheets
  BY DEF TypeOK, Sheets
<1>2. \A x \in Who : Raced(sheet[x]) \in Sheets /\ Outdated(sheet[x]) \in Sheets
  BY <1>1, MarksOnly
<1>3. Idle \in Sheets
  BY DEF Sheets
<1>4. CASE Others(who, Idle, Raced)
  BY <1>2, <1>3, <1>4 DEF Others
<1>5. CASE Others(who, Idle, Outdated)
  BY <1>2, <1>3, <1>5 DEF Others
<1>6. QED
  BY <1>4, <1>5

-----------------------------------------------------------------------------
(* What a dialog still guarantees after a step *)

\* The hours of a day depend on the settings, the overrides and the master's zone.
LEMMA SameHours ==
    ASSUME hours' = hours, override' = override, zone'[master] = zone[master]
    PROVE  /\ \A d : BaseWindow(d)' = BaseWindow(d)
           /\ \A d : WindowOf(d)' = WindowOf(d)
           /\ \A d, z : MasterDay(d, z)' = MasterDay(d, z)
           /\ \A u, d : Fits(u, d)' = Fits(u, d)
           /\ \A d, new : WindowAfter(d, new)' = WindowAfter(d, new)
<1>1. \A d : BaseWindow(d)' = BaseWindow(d)
  BY DEF BaseWindow
<1>2. \A d : WindowOf(d)' = WindowOf(d)
  BY <1>1 DEF WindowOf
<1>3. \A d, z : MasterDay(d, z)' = MasterDay(d, z)
  BY DEF MasterDay
<1>4. \A d, w : Grid(d, w)' = Grid(d, w)
  BY DEF Grid
<1>5. \A u, d : Fits(u, d)' = Fits(u, d)
  BY <1>2, <1>4 DEF Fits
<1>6. \A d, new : WindowAfter(d, new)' = WindowAfter(d, new)
  BY <1>1 DEF WindowAfter
<1>7. QED
  BY <1>1, <1>2, <1>3, <1>5, <1>6

\* ... the free slots of a day also on the bookings.
LEMMA SameSlots ==
    ASSUME hours' = hours, override' = override, zone'[master] = zone[master],
           booking' = booking
    PROVE  /\ Live' = Live
           /\ \A b : StartLocal(b)' = StartLocal(b) /\ EndLocal(b)' = EndLocal(b)
           /\ \A d : OfDay(d)' = OfDay(d)
           /\ \A b, w : InsideWindow(b, w)' = InsideWindow(b, w)
           /\ \A b : Inside(b)' = Inside(b)
           /\ \A d, row : FreeSlots(d, row)' = FreeSlots(d, row)
<1>1. Live' = Live
  BY DEF Live
<1>2. \A b : StartLocal(b)' = StartLocal(b) /\ EndLocal(b)' = EndLocal(b)
  BY DEF StartLocal, EndLocal
<1>3. \A d : OfDay(d)' = OfDay(d)
  BY <1>1, <1>2 DEF OfDay
<1>4. \A b, w : InsideWindow(b, w)' = InsideWindow(b, w)
  BY <1>2 DEF InsideWindow
<1>5. \A d : WindowOf(d)' = WindowOf(d)
  BY SameHours
<1>6. \A b : Inside(b)' = Inside(b)
  BY <1>2, <1>4, <1>5 DEF Inside
<1>7. \A d, w : Grid(d, w)' = Grid(d, w)
  BY DEF Grid
<1>8. \A t, busy : IsSlotFree(t, busy)' = IsSlotFree(t, busy)
  BY <1>2 DEF IsSlotFree
<1>9. \A d, row : FreeSlots(d, row)' = FreeSlots(d, row)
  BY <1>3, <1>5, <1>7, <1>8 DEF FreeSlots
<1>10. QED
  BY <1>1, <1>2, <1>3, <1>4, <1>6, <1>9

\* A dialog with no list and no check guarantees nothing.
LEMMA ClosedSheet ==
    ASSUME NEW x \in Who, sheet'[x].at \in {"idle", "dates"}
    PROVE  SheetInv(x)'
BY DEF SheetInv, ChosenFromList, CheckInRoom, ListFits, ListCurrent, CheckHolds, Listed

\* A dialog no change concerns.
LEMMA NothingMoved ==
    ASSUME NEW x \in Who, SheetInv(x), sheet'[x] = sheet[x],
           hours' = hours, override' = override, zone'[master] = zone[master],
           booking' = booking,
           (excused' = excused /\ changes' = changes) \/ sheet[x].at # "checked"
    PROVE  SheetInv(x)'
<1>1. ChosenFromList(x)' /\ CheckInRoom(x)'
  BY DEF SheetInv, ChosenFromList, CheckInRoom
<1>2. ListFits(x)'
  BY SameHours DEF SheetInv, ListFits, Listed
<1>3. \A d : Offered(x, d)' = Offered(x, d)
  BY SameHours, SameSlots DEF Offered
<1>4. ListCurrent(x)'
  BY <1>3 DEF SheetInv, ListCurrent, Listed
<1>5. CheckHolds(x)'
  BY SameHours, SameSlots DEF SheetInv, CheckHolds
<1>6. QED
  BY <1>1, <1>2, <1>4, <1>5 DEF SheetInv

\* A dialog a booking has overtaken.
LEMMA BookingOvertakes ==
    ASSUME TypeOK, NEW x \in Who, SheetInv(x), sheet'[x] = Raced(sheet[x]),
           hours' = hours, override' = override, zone' = zone, changes' = changes
    PROVE  SheetInv(x)'
<1>1. sheet[x] \in Sheets
  BY DEF TypeOK, Sheets
<1>2. CASE sheet[x].at \in {"slots", "confirm"}
  <2>1. /\ sheet'[x].raced /\ sheet'[x].stale = sheet[x].stale
        /\ sheet'[x].slots = sheet[x].slots /\ sheet'[x].slot = sheet[x].slot
        /\ sheet'[x].day = sheet[x].day /\ sheet'[x].zone = sheet[x].zone
        /\ sheet'[x].at = sheet[x].at
    BY <1>1, <1>2, MarksOnly
  <2>2. ChosenFromList(x)' /\ CheckInRoom(x)'
    BY <1>2, <2>1 DEF SheetInv, ChosenFromList, CheckInRoom
  <2>3. ListFits(x)'
    BY <2>1, SameHours DEF SheetInv, ListFits, Listed
  <2>4. ListCurrent(x)' /\ CheckHolds(x)'
    BY <2>1 DEF ListCurrent, CheckHolds
  <2>5. QED
    BY <2>2, <2>3, <2>4 DEF SheetInv
<1>3. CASE sheet[x].at = "checked"
  <2>1. sheet'[x].raced /\ sheet'[x].at = "checked"
    BY <1>1, <1>3, MarksOnly
  <2>2. CheckInRoom(x)'
    BY <1>3, <2>1 DEF SheetInv, CheckInRoom
  <2>3. QED
    BY <2>1, <2>2 DEF SheetInv, ChosenFromList, ListFits, ListCurrent, CheckHolds, Listed
<1>4. CASE sheet[x].at \notin {"slots", "confirm", "checked"}
  <2>1. sheet'[x].at = sheet[x].at
    BY <1>1, MarksOnly
  <2>2. QED
    BY <1>4, <2>1
       DEF SheetInv, ChosenFromList, CheckInRoom, ListFits, ListCurrent, CheckHolds, Listed
<1>5. QED
  BY <1>2, <1>3, <1>4

\* A dialog a change of the hours has overtaken.
LEMMA HoursOvertake ==
    ASSUME TypeOK, NEW x \in Who, SheetInv(x), sheet'[x] = Outdated(sheet[x]),
           sheet[x].at # "checked"
    PROVE  SheetInv(x)'
<1>1. sheet[x] \in Sheets
  BY DEF TypeOK, Sheets
<1>2. sheet'[x].at = sheet[x].at
  BY <1>1, MarksOnly
<1>3. CASE sheet[x].at \in {"slots", "confirm"}
  <2>1. /\ sheet'[x].stale
        /\ sheet'[x].slots = sheet[x].slots /\ sheet'[x].slot = sheet[x].slot
    BY <1>1, <1>3, MarksOnly
  <2>2. ChosenFromList(x)'
    BY <1>2, <2>1 DEF SheetInv, ChosenFromList
  <2>3. QED
    BY <1>2, <1>3, <2>1, <2>2 DEF SheetInv, CheckInRoom, ListFits, ListCurrent, CheckHolds
<1>4. CASE sheet[x].at \notin {"slots", "confirm"}
  BY <1>2, <1>4
     DEF SheetInv, ChosenFromList, CheckInRoom, ListFits, ListCurrent, CheckHolds, Listed
<1>5. QED
  BY <1>3, <1>4

\* A list just made.
LEMMA FreshList ==
    ASSUME TypeOK, NEW x \in Who, sheet[x] \in Dates \cup Slots, NEW d \in Days,
           Become(x, SlotsOf(x, d)),
           UNCHANGED <<hours, zone, override, booking, excused, changes>>
    PROVE  SheetInv(x)'
<1>1. sheet'[x] = SlotsOf(x, d)
  BY DEF Become, TypeOK
<1>2. /\ sheet'[x].at = "slots" /\ sheet'[x].day = d /\ sheet'[x].zone = sheet[x].zone
      /\ sheet'[x].moving = sheet[x].moving /\ sheet'[x].slots = Offered(x, d)
  BY <1>1 DEF SlotsOf
<1>3. Offered(x, d)' = Offered(x, d)
  BY <1>2, SameHours, SameSlots DEF Offered
<1>4. ListCurrent(x)'
  BY <1>2, <1>3 DEF ListCurrent
<1>5. ListFits(x)'
  <2>1. \A u \in Offered(x, d) : Fits(u, MasterDay(d, sheet[x].zone))
    BY OfferedAre
  <2>2. QED
    BY <1>2, <2>1, SameHours DEF ListFits
<1>6. QED
  BY <1>2, <1>4, <1>5 DEF SheetInv, ChosenFromList, CheckInRoom, CheckHolds

\* The same list, with another choice or none.
LEMMA SameList ==
    ASSUME TypeOK, NEW x \in Who, SheetInv(x), Listed(x),
           NEW at \in {"slots", "confirm"}, NEW u \in Int \cup {None},
           at = "confirm" => u \in sheet[x].slots,
           Become(x, [sheet[x] EXCEPT !.at = at, !.slot = u]),
           UNCHANGED <<hours, zone, override, booking, excused, changes>>
    PROVE  SheetInv(x)' /\ TypeOK'
<1>1. sheet[x] \in Slots
  BY SheetTypes
<1>2. [sheet[x] EXCEPT !.at = at, !.slot = u] \in Slots
  BY <1>1 DEF Slots
<1>3. TypeOK'
  BY <1>2, OwnSheetType DEF Sheets
<1>4. sheet'[x] = [sheet[x] EXCEPT !.at = at, !.slot = u]
  BY DEF Become, TypeOK
<1>5. /\ sheet'[x].at = at /\ sheet'[x].slot = u
      /\ sheet'[x].slots = sheet[x].slots /\ sheet'[x].day = sheet[x].day
      /\ sheet'[x].zone = sheet[x].zone /\ sheet'[x].moving = sheet[x].moving
      /\ sheet'[x].stale = sheet[x].stale /\ sheet'[x].raced = sheet[x].raced
  BY <1>1, <1>4 DEF Slots
<1>6. ChosenFromList(x)' /\ CheckInRoom(x)' /\ CheckHolds(x)'
  BY <1>5 DEF ChosenFromList, CheckInRoom, CheckHolds
<1>7. ListFits(x)'
  BY <1>5, SameHours DEF SheetInv, ListFits, Listed
<1>8. \A d : Offered(x, d)' = Offered(x, d)
  BY <1>5, SameHours, SameSlots DEF Offered
<1>9. ListCurrent(x)'
  BY <1>5, <1>8 DEF SheetInv, ListCurrent, Listed
<1>10. QED
  BY <1>3, <1>6, <1>7, <1>9 DEF SheetInv

\* A step of one user that concerns his dialog only.
LEMMA OwnSheetKeeps ==
    ASSUME IInv, NEW who \in Who, NEW s, Become(who, s),
           UNCHANGED <<hours, zone, override, booking, excused, changes>>,
           TypeOK', SheetInv(who)'
    PROVE  IInv'
<1>1. InsideHours'
  BY SameSlots DEF IInv, InsideHours
<1>2. ASSUME NEW x \in Who, x # who PROVE SheetInv(x)'
  <2>1. sheet'[x] = sheet[x]
    BY <1>2 DEF Become, IInv, TypeOK
  <2>2. QED
    BY <2>1, NothingMoved DEF IInv
<1>3. QED
  BY <1>1, <1>2 DEF IInv

\* ... and closes it, or asks for another day.
LEMMA ClosingKeeps ==
    ASSUME IInv, NEW who \in Who, NEW s \in {Idle} \cup Dates, Become(who, s),
           UNCHANGED <<hours, zone, override, booking, excused, changes>>
    PROVE  IInv'
<1>1. TypeOK'
  BY OwnSheetType DEF IInv, Sheets
<1>2. s.at \in {"idle", "dates"}
  BY DEF Idle, Dates
<1>3. sheet'[who] = s
  BY DEF Become, IInv, TypeOK
<1>4. SheetInv(who)'
  BY <1>2, <1>3, ClosedSheet
<1>5. QED
  BY <1>1, <1>4, OwnSheetKeeps

\* A dialog with a list, or a date to pick, may go back to the dates.
LEMMA OpenDatesType ==
    ASSUME NEW s \in Dates \cup Slots
    PROVE  OpenDates(s) \in Dates
BY DEF OpenDates, Dates, Slots

LEMMA NavigationKeeps ==
    ASSUME IInv, NEW who \in Who,
           \/ StartBooking(who) \/ BackToSlots(who) \/ BackToCalendar(who) \/ Leave(who)
           \/ PickASlot(who)
           \/ \E d \in Days : PickDay(who, d)
    PROVE  IInv'
<1> USE DEF IInv
<1>1. CASE StartBooking(who)
  <2>1. [at |-> "dates", zone |-> zone[who], moving |-> None] \in Dates
    BY StateTypes DEF Dates
  <2>2. QED
    BY <1>1, <2>1, ClosingKeeps DEF StartBooking
<1>2. CASE BackToSlots(who)
  <2>1. Listed(who)
    BY <1>2 DEF BackToSlots, Listed
  <2>2. SheetInv(who)' /\ TypeOK'
    BY <1>2, <2>1, SameList DEF BackToSlots
  <2>3. QED
    BY <1>2, <2>2, OwnSheetKeeps DEF BackToSlots
<1>3. CASE BackToCalendar(who)
  <2>1. sheet[who] \in Slots
    BY <1>3, SheetTypes DEF BackToCalendar, Listed
  <2>2. QED
    BY <1>3, <2>1, OpenDatesType, ClosingKeeps DEF BackToCalendar
<1>4. CASE Leave(who)
  BY <1>4, ClosingKeeps DEF Leave
<1>5. CASE PickASlot(who)
  <2>1. PICK u \in sheet[who].slots : PickSlot(who, u)
    BY <1>5 DEF PickASlot
  <2>2. Listed(who) /\ sheet[who] \in Slots
    BY <1>5, SheetTypes DEF PickASlot
  <2>3. u \in Int
    BY <2>1, <2>2 DEF Slots
  <2>4. SheetInv(who)' /\ TypeOK'
    BY <2>1, <2>2, <2>3, SameList DEF PickSlot
  <2>5. QED
    BY <2>1, <2>4, OwnSheetKeeps DEF PickSlot
<1>6. CASE \E d \in Days : PickDay(who, d)
  <2>1. PICK d \in Days : PickDay(who, d)
    BY <1>6
  <2>2. sheet[who] \in Dates \cup Slots
    BY <2>1, SheetTypes DEF PickDay
  <2>3. SlotsOf(who, d) \in Slots
    BY <2>2, FreshListType
  <2>4. SheetInv(who)'
    BY <2>1, <2>2, FreshList DEF PickDay
  <2>5. TypeOK'
    BY <2>1, <2>3, OwnSheetType DEF PickDay, Sheets
  <2>6. QED
    BY <2>1, <2>4, <2>5, OwnSheetKeeps DEF PickDay
<1>7. QED
  BY <1>1, <1>2, <1>3, <1>4, <1>5, <1>6

\* A refusal shows the client the day again, the master the same list.
LEMMA RefusalKeeps ==
    ASSUME IInv, NEW who \in Who, RefuseBooking(who)
    PROVE  IInv'
<1> USE DEF IInv
<1>1. Listed(who) /\ sheet[who] \in Slots
  BY SheetTypes DEF RefuseBooking, Listed
<1>2. CASE who = client
  <2>1. sheet[who].day \in Days
    BY <1>1, SheetTypes
  <2>2. CASE Recover = OpenDates(sheet[client])
    <3>1. Become(who, Recover)
      BY <1>2 DEF RefuseBooking
    <3>2. Recover \in Dates
      BY <1>1, <1>2, <2>2, OpenDatesType
    <3>3. QED
      BY <3>1, <3>2, ClosingKeeps DEF RefuseBooking
  <2>3. CASE Recover = SlotsOf(client, sheet[client].day)
    <3>1. PICK d \in Days : d = sheet[who].day
      BY <2>1
    <3>2. Become(who, SlotsOf(who, d))
      BY <1>2, <2>3, <3>1 DEF RefuseBooking
    <3>3. SheetInv(who)'
      BY <1>1, <3>2, FreshList DEF RefuseBooking
    <3>4. TypeOK'
      BY <1>1, <3>2, FreshListType, OwnSheetType DEF RefuseBooking, Sheets
    <3>5. QED
      BY <3>2, <3>3, <3>4, OwnSheetKeeps DEF RefuseBooking
  <2>4. QED
    BY <2>2, <2>3 DEF Recover
<1>3. CASE who # client
  <2>1. Become(who, [sheet[who] EXCEPT !.at = "slots", !.slot = None])
    BY <1>3 DEF RefuseBooking, ListAgain, Who
  <2>2. SheetInv(who)' /\ TypeOK'
    BY <1>1, <2>1, SameList DEF RefuseBooking
  <2>3. QED
    BY <2>1, <2>2, OwnSheetKeeps DEF RefuseBooking
<1>4. QED
  BY <1>2, <1>3

LEMMA MoveDialogKeeps ==
    ASSUME IInv, RefuseMove \/ EndMove \/ \E b \in Bookings : StartMove(b)
    PROVE  IInv'
<1> USE DEF IInv
<1>0. master \in Who
  BY DEF Who
<1>1. CASE RefuseMove
  <2>1. sheet[master] \in Slots
    BY <1>0, <1>1, SheetTypes DEF RefuseMove, Listed
  <2>2. QED
    BY <1>0, <1>1, <2>1, OpenDatesType, ClosingKeeps DEF RefuseMove
<1>2. CASE EndMove
  BY <1>0, <1>2, ClosingKeeps DEF EndMove
<1>3. CASE \E b \in Bookings : StartMove(b)
  <2>1. PICK b \in Bookings : StartMove(b)
    BY <1>3
  <2>2. [at |-> "dates", zone |-> zone[master], moving |-> b] \in Dates
    BY <1>0, StateTypes DEF Dates
  <2>3. QED
    BY <1>0, <2>1, <2>2, ClosingKeeps DEF StartMove
<1>4. QED
  BY <1>1, <1>2, <1>3

-----------------------------------------------------------------------------
(* Bookings *)

\* A slot that fits is a booking within the hours, however much shorter it is.
LEMMA FittingIsInside ==
    ASSUME IInv, NEW d \in Int, NEW u \in Int, Fits(u, d),
           NEW n \in Nat, n <= hours.size,
           NEW b, booking'[b].start = u, booking'[b].size = n,
           UNCHANGED <<hours, zone, override>>
    PROVE  Inside(b)'
<1>1. PICK t \in Int : t = Local(u, zone[master])
  BY StateTypes DEF Local, IInv
<1>2. PICK w \in Windows : w = WindowOf(d)
  BY StateTypes DEF IInv, Fits
<1>3. /\ DayOf(t) = d /\ d * DayLength + w.from <= t /\ t + hours.size <= d * DayLength + w.to
  BY <1>1, <1>2, GridBounds DEF IInv, Fits
<1>4. StartLocal(b)' = t /\ EndLocal(b)' = t + n
  BY <1>1 DEF StartLocal, EndLocal, Local
<1>5. w.from \in Int /\ w.to \in Int /\ d * DayLength \in Int /\ hours.size \in Nat
  <2>1. w.from \in 0..(DayLength - 1) /\ w.to \in 0..(DayLength - 1)
    BY WorkdayConstants
  <2>2. d * DayLength \in Int
    BY DayBounds
  <2>3. hours.size \in Nat
    BY StateTypes DEF IInv
  <2>4. QED
    BY <2>1, <2>2, <2>3
<1>6. PICK m \in Int : m = d * DayLength
  BY <1>5
<1>7. m + w.from <= t /\ t + n <= m + w.to
  BY <1>3, <1>5, <1>6
<1>8. DayOf(StartLocal(b)') = d
  BY <1>3, <1>4
<1>9. WindowOf(d)' = w
  BY <1>2, SameHours
<1>10. w # None
  BY WorkdayConstants
<1>11. InsideWindow(b, w)'
  <2>1. /\ w # None
        /\ d * DayLength + w.from <= StartLocal(b)'
        /\ EndLocal(b)' <= d * DayLength + w.to
    BY <1>4, <1>6, <1>7, <1>10
  <2>2. QED
    BY <1>8, <2>1 DEF InsideWindow
<1>12. QED
  BY <1>8, <1>9, <1>11 DEF Inside

\* A booking that a step leaves alone stays inside the hours, while they stand.
LEMMA UntouchedInside ==
    ASSUME NEW b, booking'[b] = booking[b], UNCHANGED <<hours, zone, override>>
    PROVE  Inside(b)' <=> Inside(b)
<1>1. StartLocal(b)' = StartLocal(b) /\ EndLocal(b)' = EndLocal(b)
  BY DEF StartLocal, EndLocal
<1>2. \A d : WindowOf(d)' = WindowOf(d)
  BY SameHours
<1>3. QED
  BY <1>1, <1>2 DEF Inside, InsideWindow

\* The dialogs after a booking of who was written.
LEMMA BookingSheets ==
    ASSUME IInv, NEW who \in Who, Others(who, Idle, Raced),
           UNCHANGED <<hours, zone, override, changes>>
    PROVE  sheet' \in [Who -> Sheets] /\ \A x \in Who : SheetInv(x)'
<1>1. sheet' \in [Who -> Sheets]
  BY OthersType DEF IInv
<1>2. ASSUME NEW x \in Who PROVE SheetInv(x)'
  <2>1. CASE x = who
    <3>1. sheet'[x].at = "idle"
      BY <2>1 DEF Others, Idle
    <3>2. QED
      BY <3>1, ClosedSheet
  <2>2. CASE x # who
    <3>1. sheet'[x] = Raced(sheet[x])
      BY <2>2 DEF Others
    <3>2. QED
      BY <3>1, BookingOvertakes DEF IInv
  <2>3. QED
    BY <2>1, <2>2
<1>3. QED
  BY <1>1, <1>2

\* The slot about to be confirmed.
LEMMA ChosenSlot ==
    ASSUME IInv, NEW who \in Who, sheet[who].at = "confirm"
    PROVE  /\ sheet[who] \in Slots /\ sheet[who].slot \in Int
           /\ MasterDay(sheet[who].day, sheet[who].zone) \in Int
           /\ ~sheet[who].stale =>
                Fits(sheet[who].slot, MasterDay(sheet[who].day, sheet[who].zone))
<1>1. sheet[who] \in Slots /\ Listed(who) /\ sheet[who].day \in Days /\ sheet[who].zone \in Int
  BY SheetTypes DEF IInv, Listed
<1>2. sheet[who].slot \in sheet[who].slots /\ sheet[who].slots \subseteq Int
  BY <1>1 DEF IInv, SheetInv, ChosenFromList, Slots
<1>3. ~sheet[who].stale =>
        Fits(sheet[who].slot, MasterDay(sheet[who].day, sheet[who].zone))
  BY <1>1, <1>2 DEF IInv, SheetInv, ListFits
<1>4. QED
  BY <1>1, <1>2, <1>3, MasterDayType DEF IInv

LEMMA ConfirmBookingKeeps ==
    ASSUME IInv, NEW who \in Who, NEW b \in Bookings, ConfirmBooking(who, b)
    PROVE  IInv'
<1> DEFINE u == sheet[who].slot
           d == MasterDay(sheet[who].day, sheet[who].zone)
           row == [start |-> u, size |-> hours.size]
<1>1. /\ booking[b] = None /\ booking' = [booking EXCEPT ![b] = row]
      /\ excused' = IF sheet[who].stale THEN excused \cup {b} ELSE excused
      /\ Others(who, Idle, Raced)
      /\ UNCHANGED <<hours, zone, override, changes>>
  BY DEF ConfirmBooking, Insert
<1>2. /\ u \in Int /\ d \in Int /\ sheet[who] \in Slots
      /\ ~sheet[who].stale => Fits(u, d)
  BY ChosenSlot DEF ConfirmBooking
<1>3. row \in [start : Int, size : Sizes] /\ row # None
  BY <1>2, StateTypes, WorkdayConstants DEF IInv
<1>4. sheet' \in [Who -> Sheets] /\ \A x \in Who : SheetInv(x)'
  BY <1>1, BookingSheets
<1>5. /\ booking' \in [Bookings -> {None} \cup [start : Int, size : Sizes]]
      /\ booking'[b] = row
      /\ \A c \in Bookings \ {b} : booking'[c] = booking[c]
  BY <1>1, <1>3 DEF IInv, TypeOK
<1>6. Live' = Live \cup {b}
  BY <1>3, <1>5 DEF Live
<1>7. TypeOK'
  <2>1. excused' \subseteq Live'
    BY <1>1, <1>6 DEF IInv, TypeOK
  <2>2. QED
    BY <1>1, <1>4, <1>5, <2>1 DEF IInv, TypeOK, Sheets, Hours
<1>8. ASSUME NEW c \in Live', c \notin excused' PROVE Inside(c)'
  <2>1. CASE c = b
    <3>1. ~sheet[who].stale
      BY <1>1, <1>8, <2>1
    <3>2. booking'[b].start = u /\ booking'[b].size = hours.size
      BY <1>5
    <3>3. hours.size \in Nat /\ hours.size <= hours.size
      BY StateTypes DEF IInv
    <3>4. QED
      BY <1>1, <1>2, <2>1, <3>1, <3>2, <3>3, FittingIsInside
  <2>2. CASE c # b
    <3>1. c \in Live \ excused /\ booking'[c] = booking[c]
      BY <1>1, <1>5, <1>6, <1>8, <2>2 DEF Live
    <3>2. QED
      BY <1>1, <3>1, UntouchedInside DEF IInv, InsideHours
  <2>3. QED
    BY <2>1, <2>2
<1>9. QED
  BY <1>4, <1>7, <1>8 DEF IInv, InsideHours

LEMMA ConfirmMoveKeeps ==
    ASSUME IInv, ConfirmMove
    PROVE  IInv'
<1> DEFINE u == sheet[master].slot
           d == MasterDay(sheet[master].day, sheet[master].zone)
<1>0. master \in Who
  BY DEF Who
<1>1. PICK b \in Live : b = sheet[master].moving
  BY DEF ConfirmMove
<1>2. /\ booking' = [booking EXCEPT ![b].start = u]
      /\ excused' = IF sheet[master].stale \/ booking[b].size > hours.size
                     THEN excused \cup {b} ELSE excused
      /\ Others(master, Idle, Raced)
      /\ UNCHANGED <<hours, zone, override, changes>>
  BY <1>1 DEF ConfirmMove
<1>3. /\ u \in Int /\ d \in Int /\ sheet[master] \in Slots
      /\ ~sheet[master].stale => Fits(u, d)
  BY <1>0, ChosenSlot DEF ConfirmMove
<1>4. PICK n \in Sizes : n = booking[b].size /\ n \in Nat /\ b \in Bookings
  BY StateTypes DEF IInv
<1>5. booking'[b] = [start |-> u, size |-> n]
  <2>1. booking[b] = [start |-> booking[b].start, size |-> n]
    BY <1>4, StateTypes DEF IInv
  <2>2. booking'[b] = [booking[b] EXCEPT !.start = u]
    BY <1>2, <1>4 DEF IInv, TypeOK
  <2>3. QED
    BY <2>1, <2>2
<1>6. sheet' \in [Who -> Sheets] /\ \A x \in Who : SheetInv(x)'
  BY <1>0, <1>2, BookingSheets
<1>7. /\ booking' \in [Bookings -> {None} \cup [start : Int, size : Sizes]]
      /\ booking'[b].start = u /\ booking'[b].size = n /\ booking'[b] # None
      /\ \A c \in Bookings \ {b} : booking'[c] = booking[c]
  <2>1. booking'[b] \in [start : Int, size : Sizes]
    BY <1>3, <1>4, <1>5
  <2>2. \A c \in Bookings \ {b} : booking'[c] = booking[c]
    BY <1>2, <1>4 DEF IInv, TypeOK
  <2>3. booking' = [c \in Bookings |-> booking'[c]]
    BY <1>2, <1>4 DEF IInv, TypeOK
  <2>4. \A c \in Bookings : booking'[c] \in {None} \cup [start : Int, size : Sizes]
    BY <2>1, <2>2 DEF IInv, TypeOK
  <2>5. QED
    BY <1>5, <2>1, <2>2, <2>3, <2>4, WorkdayConstants
<1>8. Live' = Live
  BY <1>7 DEF Live
<1>9. TypeOK'
  <2>1. excused' \subseteq Live'
    BY <1>2, <1>8 DEF IInv, TypeOK
  <2>2. QED
    BY <1>2, <1>6, <1>7, <2>1 DEF IInv, TypeOK, Sheets, Hours
<1>10. ASSUME NEW c \in Live', c \notin excused' PROVE Inside(c)'
  <2>1. CASE c = b
    <3>1. ~sheet[master].stale /\ ~(n > hours.size)
      BY <1>2, <1>4, <1>10, <2>1
    <3>2. hours.size \in Nat /\ n <= hours.size
      BY <1>4, <3>1, StateTypes DEF IInv
    <3>3. QED
      BY <1>2, <1>3, <1>4, <1>7, <2>1, <3>1, <3>2, FittingIsInside
  <2>2. CASE c # b
    <3>1. c \in Live \ excused /\ booking'[c] = booking[c]
      BY <1>2, <1>7, <1>8, <1>10, <2>2 DEF Live
    <3>2. QED
      BY <1>2, <3>1, UntouchedInside DEF IInv, InsideHours
  <2>3. QED
    BY <2>1, <2>2
<1>11. QED
  BY <1>6, <1>9, <1>10 DEF IInv, InsideHours

LEMMA CancelKeeps ==
    ASSUME IInv, NEW b \in Bookings, Cancel(b)
    PROVE  IInv'
<1>1. /\ booking' = [booking EXCEPT ![b] = None] /\ excused' = excused \ {b}
      /\ sheet' = [who \in Who |-> Raced(sheet[who])]
      /\ UNCHANGED <<hours, zone, override, changes>>
  BY DEF Cancel
<1>2. \A x \in Who : SheetInv(x)'
  BY <1>1, BookingOvertakes DEF IInv
<1>3. sheet' \in [Who -> Sheets]
  <2>1. \A x \in Who : sheet[x] \in Sheets
    BY DEF IInv, TypeOK, Sheets
  <2>2. \A x \in Who : Raced(sheet[x]) \in Sheets
    BY <2>1, MarksOnly
  <2>3. QED
    BY <1>1, <2>2
<1>4. /\ booking' \in [Bookings -> {None} \cup [start : Int, size : Sizes]]
      /\ booking'[b] = None
      /\ \A c \in Bookings \ {b} : booking'[c] = booking[c]
  BY <1>1 DEF IInv, TypeOK
<1>5. Live' = Live \ {b}
  BY <1>4 DEF Live
<1>6. TypeOK'
  <2>1. excused' \subseteq Live'
    BY <1>1, <1>5 DEF IInv, TypeOK
  <2>2. QED
    BY <1>1, <1>3, <1>4, <2>1 DEF IInv, TypeOK, Sheets, Hours
<1>7. ASSUME NEW c \in Live', c \notin excused' PROVE Inside(c)'
  <2>1. c \in Live \ excused /\ booking'[c] = booking[c]
    BY <1>1, <1>4, <1>5, <1>7 DEF Live
  <2>2. QED
    BY <1>1, <2>1, UntouchedInside DEF IInv, InsideHours
<1>8. QED
  BY <1>2, <1>6, <1>7 DEF IInv, InsideHours

-----------------------------------------------------------------------------
(* Overrides *)

\* A booking within the hours does not run past midnight: its times of day are
\* those of one day.
LEMMA InsideByTimes ==
    ASSUME IInv, NEW b \in Live, Inside(b), NEW w \in Windows,
           ~(TimeOf(StartLocal(b)) < w.from), ~(TimeOf(EndLocal(b)) > w.to)
    PROVE  InsideWindow(b, w)
<1>1. PICK x \in Int, y \in Int : x = StartLocal(b) /\ y = EndLocal(b)
  BY StateTypes DEF IInv
<1>2. PICK d \in Int : d = DayOf(x)
  BY <1>1, DayBounds
<1>3. PICK v \in Windows : v = WindowOf(d)
  BY <1>1, <1>2, StateTypes DEF IInv, Inside, InsideWindow
<1>4. PICK m \in Int : m = d * DayLength
  BY DayBounds
<1>5. /\ v.from \in 0..(DayLength - 1) /\ v.to \in 0..(DayLength - 1)
      /\ w.from \in 0..(DayLength - 1) /\ w.to \in 0..(DayLength - 1)
      /\ DayLength \in Nat \ {0}
  BY WorkdayConstants
<1>6. m + v.from <= x /\ y <= m + v.to
  BY <1>1, <1>2, <1>3, <1>4 DEF Inside, InsideWindow
<1>7. x < y
  <2>1. PICK n \in Nat \ {0} : n = booking[b].size
    BY StateTypes DEF IInv
  <2>2. y = x + n
    BY <1>1, <2>1 DEF EndLocal
  <2>3. QED
    BY <2>1, <2>2
<1>8. DayOf(y) = d
  <2>1. m <= y /\ y < m + DayLength
    BY <1>5, <1>6, <1>7
  <2>2. QED
    BY <1>4, <2>1, DayBounds
<1>9. TimeOf(x) = x - m
  BY <1>2, <1>4, DayBounds
<1>10. TimeOf(y) = y - m
  BY <1>4, <1>8, DayBounds
<1>11. m + w.from <= x /\ y <= m + w.to
  BY <1>1, <1>5, <1>9, <1>10
<1>12. w # None
  BY WorkdayConstants
<1>13. QED
  BY <1>1, <1>2, <1>4, <1>11, <1>12 DEF InsideWindow

\* A check that finds no conflict holds of the day, until a booking overtakes it.
LEMMA CheckKeeps ==
    ASSUME IInv, NEW d \in Days, NEW w \in Windows \cup {None}, NEW new \in Override,
           w # None => WindowAfter(d, new) = w,
           Check(d, w, new)
    PROVE  IInv'
<1> DEFINE s == [at |-> "checked", day |-> d, new |-> new, raced |-> FALSE]
<1>0. master \in Who
  BY DEF Who
<1>1. /\ changes < MaxChanges /\ Conflicts(d, w) = {} /\ Become(master, s)
      /\ UNCHANGED <<hours, zone, override, booking, excused, changes>>
  BY DEF Check
<1>2. s \in Checked
  BY DEF Checked
<1>3. TypeOK'
  BY <1>0, <1>1, <1>2, OwnSheetType DEF IInv, Sheets
<1>4. sheet'[master] = s
  BY <1>0, <1>1 DEF Become, IInv, TypeOK
<1>5. ASSUME NEW b \in OfDay(d), b \notin excused
      PROVE  InsideWindow(b, WindowAfter(d, new))
  <2>1. b \in Live /\ Inside(b)
    BY <1>5 DEF OfDay, IInv, InsideHours
  <2>2. /\ w # None
        /\ ~(TimeOf(StartLocal(b)) < w.from) /\ ~(TimeOf(EndLocal(b)) > w.to)
    BY <1>1, <1>5 DEF Conflicts
  <2>3. InsideWindow(b, w)
    BY <2>1, <2>2, InsideByTimes
  <2>4. QED
    BY <2>2, <2>3
<1>6. CheckHolds(master)'
  <2>1. sheet'[master].day = d /\ sheet'[master].new = new
    BY <1>4
  <2>2. \A b \in OfDay(d)' \ excused' : InsideWindow(b, WindowAfter(d, new))'
    BY <1>1, <1>5, SameHours, SameSlots
  <2>3. QED
    BY <2>1, <2>2 DEF CheckHolds
<1>7. SheetInv(master)'
  BY <1>1, <1>4, <1>6 DEF SheetInv, ChosenFromList, CheckInRoom, ListFits, ListCurrent, Listed
<1>8. QED
  BY <1>0, <1>1, <1>3, <1>7, OwnSheetKeeps

LEMMA OverrideChecksKeep ==
    ASSUME IInv, NEW d \in Days,
           MakeDayOff(d) \/ MakeWorking(d) \/ \E w \in Windows : SetHours(d, w)
    PROVE  IInv'
<1>1. hours.window \in Windows
  BY StateTypes DEF IInv
<1>2. \A w \in Windows : w # None /\ w # NoOverride /\ w # DayOff
  BY WorkdayConstants
<1>3. Windows \subseteq Override /\ {NoOverride, DayOff} \subseteq Override
  BY DEF Override
<1>4. CASE MakeDayOff(d)
  <2>1. PICK new \in Override : Check(d, None, new)
    BY <1>3, <1>4 DEF MakeDayOff
  <2>2. QED
    BY <2>1, CheckKeeps
<1>5. CASE MakeWorking(d)
  <2>1. CASE BaseWindow(d) = None
    <3>1. Check(d, hours.window, hours.window)
      BY <1>5, <2>1 DEF MakeWorking
    <3>2. WindowAfter(d, hours.window) = hours.window
      BY <1>1, <1>2 DEF WindowAfter
    <3>3. QED
      BY <1>1, <1>3, <3>1, <3>2, CheckKeeps
  <2>2. CASE BaseWindow(d) # None
    <3>1. Check(d, hours.window, NoOverride)
      BY <1>5, <2>2 DEF MakeWorking
    <3>2. WindowAfter(d, NoOverride) = hours.window
      BY <2>2 DEF WindowAfter, BaseWindow
    <3>3. QED
      BY <1>1, <1>3, <3>1, <3>2, CheckKeeps
  <2>3. QED
    BY <2>1, <2>2
<1>6. CASE \E w \in Windows : SetHours(d, w)
  <2>1. PICK w \in Windows : Check(d, w, w)
    BY <1>6 DEF SetHours
  <2>2. WindowAfter(d, w) = w
    BY <1>2 DEF WindowAfter
  <2>3. QED
    BY <1>3, <2>1, <2>2, CheckKeeps
<1>7. QED
  BY <1>4, <1>5, <1>6

\* The dialogs after the master's hours have changed.
LEMMA ChangeSheets ==
    ASSUME IInv, Others(master, Idle, Outdated)
    PROVE  sheet' \in [Who -> Sheets] /\ \A x \in Who : SheetInv(x)'
<1>1. sheet' \in [Who -> Sheets]
  BY OthersType DEF IInv, Who
<1>2. ASSUME NEW x \in Who PROVE SheetInv(x)'
  <2>1. CASE x = master
    <3>1. sheet'[x].at = "idle"
      BY <2>1 DEF Others, Idle
    <3>2. QED
      BY <3>1, ClosedSheet
  <2>2. CASE x # master
    <3>1. sheet'[x] = Outdated(sheet[x])
      BY <2>2 DEF Others
    <3>2. sheet[x].at # "checked"
      BY <2>2 DEF IInv, SheetInv, CheckInRoom
    <3>3. QED
      BY <3>1, <3>2, HoursOvertake DEF IInv
  <2>3. QED
    BY <2>1, <2>2
<1>3. QED
  BY <1>1, <1>2

LEMMA ApplyOverrideKeeps ==
    ASSUME IInv, ApplyOverride
    PROVE  IInv'
<1> DEFINE s == sheet[master]
<1>0. master \in Who
  BY DEF Who
<1>1. /\ s.at = "checked" /\ override' = [override EXCEPT ![s.day] = s.new]
      /\ changes' = changes + 1 /\ Others(master, Idle, Outdated)
      /\ UNCHANGED <<hours, zone, booking>>
      /\ excused' = IF s.raced THEN excused \cup PushedOut ELSE excused
  BY DEF ApplyOverride
<1>2. s \in Checked /\ s.day \in Days /\ s.new \in Override
  BY <1>0, <1>1, SheetTypes DEF IInv, Checked
<1>3. sheet' \in [Who -> Sheets] /\ \A x \in Who : SheetInv(x)'
  BY <1>1, ChangeSheets
<1>4. Live' = Live
  BY <1>1 DEF Live
<1>5. TypeOK'
  <2>1. changes' \in 0..MaxChanges
    BY <1>0, <1>1, WorkdayConstants DEF IInv, TypeOK, SheetInv, CheckInRoom
  <2>2. override' \in [Days -> Override]
    BY <1>1, <1>2 DEF IInv, TypeOK
  <2>3. excused' \subseteq Live'
    BY <1>1, <1>4 DEF IInv, TypeOK, PushedOut
  <2>4. QED
    BY <1>1, <1>3, <2>1, <2>2, <2>3 DEF IInv, TypeOK, Sheets, Hours
<1>6. ASSUME NEW c \in Live', c \notin excused' PROVE Inside(c)'
  <2>1. CASE s.raced
    BY <1>1, <1>4, <1>6, <2>1 DEF PushedOut
  <2>2. CASE ~s.raced
    <3>1. c \in Live \ excused /\ Inside(c)
      BY <1>1, <1>4, <1>6, <2>2 DEF IInv, InsideHours
    <3>2. StartLocal(c)' = StartLocal(c) /\ EndLocal(c)' = EndLocal(c)
      BY <1>1 DEF StartLocal, EndLocal
    <3>3. \A d : BaseWindow(d)' = BaseWindow(d)
      BY <1>1 DEF BaseWindow
    <3>4. CASE DayOf(StartLocal(c)) = s.day
      <4>1. PICK d \in Days : d = s.day
        BY <1>2
      <4>2. PICK w : w = WindowAfter(d, s.new)
        OBVIOUS
      <4>3. InsideWindow(c, w)
        BY <1>0, <1>1, <2>2, <3>1, <3>4, <4>1, <4>2 DEF IInv, SheetInv, CheckHolds, OfDay
      <4>4. override'[d] = s.new
        BY <1>1, <4>1 DEF IInv, TypeOK
      <4>5. WindowOf(d)' = w
        BY <3>3, <4>2, <4>4 DEF WindowOf, WindowAfter
      <4>6. QED
        BY <3>2, <3>4, <4>1, <4>3, <4>5 DEF Inside, InsideWindow
    <3>5. CASE DayOf(StartLocal(c)) # s.day
      <4>1. PICK d : d = DayOf(StartLocal(c))
        OBVIOUS
      <4>2. WindowOf(d)' = WindowOf(d)
        BY <1>1, <3>3, <3>5, <4>1 DEF WindowOf, IInv, TypeOK
      <4>3. QED
        BY <3>1, <3>2, <4>1, <4>2 DEF Inside, InsideWindow
    <3>6. QED
      BY <3>4, <3>5
  <2>3. QED
    BY <2>1, <2>2
<1>7. QED
  BY <1>3, <1>5, <1>6 DEF IInv, InsideHours

-----------------------------------------------------------------------------
(* Settings *)

LEMMA SaveHoursKeeps ==
    ASSUME IInv, NEW h \in Hours, SaveHours(h)
    PROVE  IInv'
<1>1. /\ hours' = h /\ Others(master, Idle, Outdated) /\ excused' = excused \cup PushedOut
      /\ changes < MaxChanges /\ changes' = changes + 1
      /\ UNCHANGED <<zone, override, booking>>
  BY DEF SaveHours, Change
<1>2. sheet' \in [Who -> Sheets] /\ \A x \in Who : SheetInv(x)'
  BY <1>1, ChangeSheets
<1>3. Live' = Live
  BY <1>1 DEF Live
<1>4. TypeOK'
  <2>1. changes' \in 0..MaxChanges
    BY <1>1, WorkdayConstants DEF IInv, TypeOK
  <2>2. excused' \subseteq Live'
    BY <1>1, <1>3 DEF IInv, TypeOK, PushedOut
  <2>3. QED
    BY <1>1, <1>2, <2>1, <2>2 DEF IInv, TypeOK, Sheets, Hours
<1>5. ASSUME NEW c \in Live', c \notin excused' PROVE Inside(c)'
  BY <1>1, <1>3, <1>5 DEF PushedOut
<1>6. QED
  BY <1>2, <1>4, <1>5 DEF IInv, InsideHours

LEMMA SetZoneKeeps ==
    ASSUME IInv, NEW who \in Who, NEW z \in Offsets, SetZone(who, z)
    PROVE  IInv'
<1>1. /\ zone' = [zone EXCEPT ![who] = z] /\ excused' = excused \cup PushedOut
      /\ sheet' = [x \in Who |-> IF who = master THEN Outdated(sheet[x]) ELSE sheet[x]]
      /\ changes < MaxChanges /\ changes' = changes + 1 /\ sheet[master].at # "checked"
      /\ UNCHANGED <<hours, override, booking>>
  BY DEF SetZone, Change
<1>2. \A x \in Who : sheet[x].at # "checked"
  BY <1>1 DEF IInv, SheetInv, CheckInRoom
<1>3. \A x \in Who : sheet[x] \in Sheets /\ Outdated(sheet[x]) \in Sheets
  BY MarksOnly DEF IInv, TypeOK, Sheets
<1>4. sheet' \in [Who -> Sheets]
  BY <1>1, <1>3
<1>5. Live' = Live
  BY <1>1 DEF Live
<1>6. TypeOK'
  <2>1. changes' \in 0..MaxChanges
    BY <1>1, WorkdayConstants DEF IInv, TypeOK
  <2>2. excused' \subseteq Live'
    BY <1>1, <1>5 DEF IInv, TypeOK, PushedOut
  <2>3. zone' \in [Who -> Offsets]
    BY <1>1 DEF IInv, TypeOK
  <2>4. QED
    BY <1>1, <1>4, <2>1, <2>2, <2>3 DEF IInv, TypeOK, Sheets, Hours
<1>7. ASSUME NEW c \in Live', c \notin excused' PROVE Inside(c)'
  BY <1>1, <1>5, <1>7 DEF PushedOut
<1>8. ASSUME NEW x \in Who PROVE SheetInv(x)'
  <2>1. CASE who = master
    <3>1. sheet'[x] = Outdated(sheet[x])
      BY <1>1, <2>1
    <3>2. QED
      BY <1>2, <3>1, HoursOvertake DEF IInv
  <2>2. CASE who # master
    <3>1. sheet'[x] = sheet[x] /\ zone'[master] = zone[master]
      BY <1>1, <2>2 DEF IInv, TypeOK
    <3>2. QED
      BY <1>1, <1>2, <3>1, NothingMoved DEF IInv
  <2>3. QED
    BY <2>1, <2>2
<1>9. QED
  BY <1>6, <1>7, <1>8 DEF IInv, InsideHours

-----------------------------------------------------------------------------
(* The invariant *)

LEMMA InitHolds ==
    ASSUME Init
    PROVE  IInv
<1>1. TypeOK
  <2>1. hours \in Hours /\ zone \in [Who -> Offsets]
    BY WorkdayConstants DEF Init, Hours, Who
  <2>2. override \in [Days -> Override] /\ booking \in [Bookings -> {None}]
    BY DEF Init, Override
  <2>3. sheet \in [Who -> Sheets]
    BY DEF Init, Sheets
  <2>4. excused = {} /\ changes \in 0..MaxChanges
    BY WorkdayConstants DEF Init
  <2>5. booking \in [Bookings -> {None} \cup [start : Int, size : Sizes]]
    BY <2>2
  <2>6. QED
    BY <2>1, <2>2, <2>3, <2>4, <2>5 DEF TypeOK, Sheets
<1>2. Live = {}
  BY DEF Init, Live
<1>3. \A x \in Who : sheet[x].at = "idle"
  BY DEF Init, Idle
<1>4. \A x \in Who : SheetInv(x)
  BY <1>3 DEF SheetInv, ChosenFromList, CheckInRoom, ListFits, ListCurrent, CheckHolds, Listed
<1>5. QED
  BY <1>1, <1>2, <1>4 DEF IInv, InsideHours

LEMMA StepHolds ==
    ASSUME IInv, [Next]_vars
    PROVE  IInv'
<1>1. CASE \E who \in Who :
              \/ StartBooking(who) \/ BackToSlots(who) \/ BackToCalendar(who) \/ Leave(who)
              \/ PickASlot(who)
              \/ \E d \in Days : PickDay(who, d)
  BY <1>1, NavigationKeeps
<1>2. CASE \E who \in Who : RefuseBooking(who)
  BY <1>2, RefusalKeeps
<1>3. CASE \E who \in Who, b \in Bookings : ConfirmBooking(who, b)
  BY <1>3, ConfirmBookingKeeps
<1>4. CASE \E who \in Who, z \in Offsets : SetZone(who, z)
  BY <1>4, SetZoneKeeps
<1>5. CASE RefuseMove \/ EndMove \/ \E b \in Bookings : StartMove(b)
  BY <1>5, MoveDialogKeeps
<1>6. CASE \E b \in Bookings : Cancel(b)
  BY <1>6, CancelKeeps
<1>7. CASE ConfirmMove
  BY <1>7, ConfirmMoveKeeps
<1>8. CASE \E d \in Days : MakeDayOff(d) \/ MakeWorking(d) \/ \E w \in Windows : SetHours(d, w)
  BY <1>8, OverrideChecksKeep
<1>9. CASE ApplyOverride
  BY <1>9, ApplyOverrideKeeps
<1>10. CASE SaveWorkDays \/ SaveWorkTime \/ SaveSlotSize
  <2>1. hours \in Hours
    BY DEF IInv, TypeOK
  <2>2. /\ \A S \in SUBSET Days : [hours EXCEPT !.days = S] \in Hours
        /\ \A w \in Windows : [hours EXCEPT !.window = w] \in Hours
        /\ \A n \in Sizes : [hours EXCEPT !.size = n] \in Hours
    BY <2>1 DEF Hours
  <2>3. PICK h \in Hours : SaveHours(h)
    BY <1>10, <2>2 DEF SaveWorkDays, SaveWorkTime, SaveSlotSize
  <2>4. QED
    BY <2>3, SaveHoursKeeps
<1>11. CASE UNCHANGED vars
  <2>1. /\ hours' = hours /\ override' = override /\ zone' = zone /\ booking' = booking
        /\ sheet' = sheet /\ excused' = excused /\ changes' = changes
    BY <1>11 DEF vars
  <2>2. TypeOK'
    BY <2>1 DEF IInv, TypeOK, Live, Hours
  <2>3. InsideHours'
    BY <2>1, SameSlots DEF IInv, InsideHours
  <2>4. \A x \in Who : SheetInv(x)'
    BY <2>1, NothingMoved DEF IInv
  <2>5. QED
    BY <2>2, <2>3, <2>4 DEF IInv
<1>12. QED
  BY <1>1, <1>2, <1>3, <1>4, <1>5, <1>6, <1>7, <1>8, <1>9, <1>10, <1>11 DEF Next

LEMMA Inductive == Spec => []IInv
<1>1. Init => IInv
  BY InitHolds
<1>2. IInv /\ [Next]_vars => IInv'
  BY StepHolds
<1>3. QED
  BY <1>1, <1>2, PTL DEF Spec

\* Whatever dialogs, bookings and changes overlap: no list, slot, override or
\* booking is of another kind than the code that reads it expects.
THEOREM TypeCorrect == Spec => []TypeOK
<1>1. IInv => TypeOK
  BY DEF IInv
<1>2. QED
  BY <1>1, Inductive, PTL

\* A booking lies within the hours of its day, whatever override the day was
\* given since, but for the exceptions that InsideHours names.
THEOREM InsideHoursHolds == Spec => []InsideHours
<1>1. IInv => InsideHours
  BY DEF IInv
<1>2. QED
  BY <1>1, Inductive, PTL

-----------------------------------------------------------------------------
(* The list of free slots *)

LEMMA Multiples ==
    ASSUME NEW n \in Nat \ {0}
    PROVE  /\ \A k \in Nat : (k * n) % n = 0
           /\ \A x \in Nat : x % n = 0 => \E k \in Nat : k <= x /\ x = k * n
<1>0. \A a, b \in Nat : a * b \in Nat
  OBVIOUS
<1>1. ASSUME NEW k \in Nat PROVE (k * n) % n = 0
  <2>1. PICK x \in Nat : x = k * n
    BY <1>0
  <2>2. x = (x \div n) * n + (x % n) /\ x % n \in 0..(n - 1) /\ x \div n \in Nat
    OBVIOUS
  <2>3. PICK q \in Nat, r \in 0..(n - 1) : q = x \div n /\ r = x % n /\ x = q * n + r
    BY <2>2
  <2>4. ASSUME q < k PROVE FALSE
    <3>1. k - q - 1 \in Nat /\ k = q + 1 + (k - q - 1)
      BY <2>4
    <3>2. PICK j \in Nat : k = q + 1 + j
      BY <3>1
    <3>3. k * n = q * n + n + j * n
      BY <3>2
    <3>4. j * n \in Nat /\ q * n \in Nat
      BY <1>0
    <3>5. QED
      BY <2>1, <2>3, <3>3, <3>4
  <2>5. ASSUME k < q PROVE FALSE
    <3>1. q - k - 1 \in Nat /\ q = k + 1 + (q - k - 1)
      BY <2>5
    <3>2. PICK j \in Nat : q = k + 1 + j
      BY <3>1
    <3>3. q * n = k * n + n + j * n
      BY <3>2
    <3>4. j * n \in Nat /\ k * n \in Nat
      BY <1>0
    <3>5. QED
      BY <2>1, <2>3, <3>3, <3>4
  <2>6. q = k
    BY <2>4, <2>5
  <2>7. k * n \in Nat
    BY <1>0
  <2>8. r = 0
    BY <2>1, <2>3, <2>6, <2>7
  <2>9. QED
    BY <2>1, <2>3, <2>8
<1>2. ASSUME NEW x \in Nat, x % n = 0 PROVE \E k \in Nat : k <= x /\ x = k * n
  <2>1. x = (x \div n) * n + (x % n) /\ x \div n \in Nat
    OBVIOUS
  <2>2. PICK q \in Nat : q = x \div n
    BY <2>1
  <2>3. PICK m \in Nat : n = m + 1
    <3>1. n - 1 \in Nat /\ n = (n - 1) + 1
      OBVIOUS
    <3>2. QED
      BY <3>1
  <2>4. q * n = q * m + q /\ q * m \in Nat
    BY <1>0, <2>3
  <2>5. x = q * n
    BY <1>2, <2>1, <2>2, <1>0
  <2>6. q <= x
    BY <2>4, <2>5
  <2>7. QED
    BY <2>5, <2>6
<1>3. QED
  BY <1>1, <1>2

\* What is free on the master's day meets no booking at all, unless one of the
\* day before runs past midnight.
LEMMA FreeIsApart ==
    ASSUME TypeOK, NEW d \in Int, NEW u \in Int, Fits(u, d), NEW row,
           IsSlotFree(Local(u, zone[master]), OfDay(d) \ {row}), ~PastMidnight(d),
           NEW n \in Nat, n <= hours.size
    PROVE  ~Clash(u, n, row)
<1> SUFFICES ASSUME NEW b \in Live \ {row}, Overlap(u, n, b) PROVE FALSE
  BY DEF Clash
<1>1. PICK z \in Int, t \in Int : z = zone[master] /\ t = Local(u, z) /\ t = u + z
  BY StateTypes DEF Local
<1>2. PICK x \in Int, k \in Nat : x = booking[b].start /\ k = booking[b].size
  BY StateTypes
<1>3. StartLocal(b) = x + z /\ EndLocal(b) = x + z + k
  BY <1>1, <1>2 DEF StartLocal, EndLocal, Local
<1>4. u < x + k /\ x < u + n
  BY <1>2 DEF Overlap
<1>5. PICK h \in Nat : h = hours.size
  BY StateTypes
<1>6. PICK m \in Int : m = d * DayLength
  BY DayBounds
<1>7. m <= t /\ t + h < m + DayLength
  <2>1. DayOf(t) = d
    BY <1>1, GridBounds DEF Fits
  <2>2. t + h < m + DayLength
    BY <1>1, <1>5, <1>6, GridBounds DEF Fits
  <2>3. QED
    BY <1>6, <2>1, <2>2, DayBounds
<1>8. t < x + z + k /\ x + z < t + h
  BY <1>1, <1>2, <1>4, <1>5
<1>9. CASE DayOf(x + z) = d
  <2>1. b \in OfDay(d) \ {row}
    BY <1>3, <1>9 DEF OfDay
  <2>2. t + h <= x + z \/ t >= x + z + k
    BY <1>1, <1>3, <1>5, <2>1 DEF IsSlotFree
  <2>3. QED
    BY <1>8, <2>2
<1>10. CASE DayOf(x + z) # d
  <2>1. ~(m <= x + z /\ x + z < m + DayLength)
    BY <1>6, <1>10, DayBounds
  <2>2. x + z < m /\ m < x + z + k
    BY <1>7, <1>8, <2>1, WorkdayConstants
  <2>3. QED
    BY <1>3, <1>6, <2>2 DEF PastMidnight
<1>11. QED
  BY <1>9, <1>10

\* The reading of a list that FreeListIsExact gives, for one time.
LEMMA ListIsExact ==
    ASSUME TypeOK, NEW who \in Who, sheet[who] \in Slots, NEW d \in Int,
           d = MasterDay(sheet[who].day, sheet[who].zone), ~PastMidnight(d),
           sheet[who].moving # None => sheet[who].zone = zone[master],
           NEW u \in Int
    PROVE  u \in Offered(who, sheet[who].day) <=>
              /\ WindowOf(d) # None
              /\ \E k \in 0..DayLength :
                    Local(u, zone[master]) = d * DayLength + WindowOf(d).from + k * hours.size
              /\ Local(u, zone[master]) + hours.size <= d * DayLength + WindowOf(d).to
              /\ ~Clash(u, hours.size, sheet[who].moving)
              /\ ~(sheet[who].moving \in Live /\ booking[sheet[who].moving].start = u)
<1> DEFINE row == sheet[who].moving
           t == Local(u, zone[master])
           own == row \in Live /\ u = booking[row].start
<1>1. sheet[who].day \in Days /\ sheet[who].zone \in Int
  BY SheetTypes DEF Slots, Listed
<1>2. u \in Offered(who, sheet[who].day) <=>
        /\ Fits(u, d)
        /\ IsSlotFree(t, OfDay(d) \ {row})
        /\ ~(own /\ DayOf(Local(booking[row].start, sheet[who].zone)) = sheet[who].day)
  BY <1>1, OfferedAre
<1>3. PICK z \in Int, h \in Nat \ {0}, m \in Int :
         z = zone[master] /\ h = hours.size /\ m = d * DayLength
  BY DayBounds, StateTypes
<1>4. t \in Int /\ t = u + z
  BY <1>3 DEF Local
<1>5. ASSUME u \in Offered(who, sheet[who].day)
      PROVE  /\ WindowOf(d) # None
             /\ \E k \in 0..DayLength :
                   t = d * DayLength + WindowOf(d).from + k * hours.size
             /\ t + hours.size <= d * DayLength + WindowOf(d).to
             /\ ~Clash(u, hours.size, row)
             /\ ~own
  <2>1. Fits(u, d) /\ IsSlotFree(t, OfDay(d) \ {row})
    BY <1>2, <1>5
  <2>2. PICK w \in Windows : w = WindowOf(d)
    BY <2>1, StateTypes DEF Fits
  <2>3. w.from \in 0..(DayLength - 1) /\ w.to \in 0..(DayLength - 1) /\ DayLength \in Nat
    BY WorkdayConstants
  <2>4. t \in Grid(d, w)
    BY <2>1, <2>2 DEF Fits
  <2>5. DayOf(t) = d /\ m + w.from <= t /\ t + h <= m + w.to
    BY <1>3, <2>1, <2>2, <2>4, GridBounds DEF Fits
  <2>6. PICK x \in Nat : x = t - m - w.from
    BY <1>4, <2>3, <2>5
  <2>7. x % h = 0
    BY <1>3, <2>4, <2>6 DEF Grid
  <2>8. PICK k \in Nat : k <= x /\ x = k * h
    BY <2>6, <2>7, Multiples
  <2>9. k \in 0..DayLength /\ t = m + w.from + k * h
    BY <1>3, <1>4, <2>3, <2>5, <2>6, <2>8
  <2>10. ~Clash(u, hours.size, row)
    BY <1>3, <2>1, FreeIsApart
  <2>11. ~own
    <3>1. SUFFICES ASSUME own PROVE DayOf(Local(booking[row].start, sheet[who].zone)) = sheet[who].day
      BY <1>2, <1>5
    <3>2. row # None
      BY <3>1, StateTypes
    <3>3. sheet[who].zone = z
      BY <1>3, <3>2
    <3>4. PICK day \in Int : day = sheet[who].day
      BY <1>1, WorkdayConstants
    <3>5. MasterDay(day, z) = day
      <4>1. PICK v \in Int : v = day * DayLength
        BY DayBounds
      <4>2. Local(Utc(v, z), z) = v
        BY DEF Local, Utc
      <4>3. DayOf(v) = day
        BY <4>1, DayBounds, WorkdayConstants
      <4>4. QED
        BY <1>3, <4>1, <4>2, <4>3 DEF MasterDay
    <3>6. d = day
      BY <3>3, <3>4, <3>5
    <3>7. QED
      BY <1>3, <2>5, <3>1, <3>3, <3>4, <3>6
  <2>12. QED
    BY <1>3, <2>1, <2>2, <2>5, <2>9, <2>10, <2>11 DEF Fits
<1>6. ASSUME WindowOf(d) # None,
             NEW k \in 0..DayLength, t = d * DayLength + WindowOf(d).from + k * hours.size,
             t + hours.size <= d * DayLength + WindowOf(d).to,
             ~Clash(u, hours.size, row), ~own
      PROVE  u \in Offered(who, sheet[who].day)
  <2>1. PICK w \in Windows : w = WindowOf(d)
    BY <1>6, StateTypes
  <2>2. w.from \in 0..(DayLength - 1) /\ w.to \in 0..(DayLength - 1) /\ DayLength \in Nat
    BY WorkdayConstants
  <2>3. PICK x \in Nat : x = k * h
    <3>1. \A a, b \in Nat : a * b \in Nat
      OBVIOUS
    <3>2. QED
      BY <2>2, <3>1
  <2>4. x % h = 0
    BY <2>2, <2>3, Multiples
  <2>5. t = m + w.from + x /\ t + h <= m + w.to
    BY <1>3, <1>6, <2>1, <2>3
  <2>6. t \in Grid(d, w)
    <3>1. t \in (m + w.from)..(m + w.to - h)
      BY <1>4, <2>2, <2>5
    <3>2. t - m - w.from = x
      BY <1>4, <2>2, <2>5
    <3>3. QED
      BY <1>3, <2>4, <3>1, <3>2 DEF Grid
  <2>7. Fits(u, d)
    BY <1>6, <2>1, <2>6 DEF Fits
  <2>8. IsSlotFree(t, OfDay(d) \ {row})
    <3> SUFFICES ASSUME NEW b \in OfDay(d) \ {row}
                 PROVE  t + hours.size <= StartLocal(b) \/ t >= EndLocal(b)
      BY DEF IsSlotFree
    <3>1. b \in Live \ {row}
      BY DEF OfDay
    <3>2. PICK y \in Int, n \in Nat : y = booking[b].start /\ n = booking[b].size
      BY <3>1, StateTypes
    <3>3. ~(u < y + n /\ y < u + h)
      BY <1>3, <1>6, <3>1, <3>2 DEF Clash, Overlap
    <3>4. StartLocal(b) = y + z /\ EndLocal(b) = y + z + n
      BY <1>3, <3>2 DEF StartLocal, EndLocal, Local
    <3>5. QED
      BY <1>3, <1>4, <3>3, <3>4
  <2>9. QED
    BY <1>2, <1>6, <2>7, <2>8
<1>7. QED
  BY <1>5, <1>6

\* A list that nothing has overtaken names exactly the starts on the grid whose
\* slot fits the hours and meets no booking.
THEOREM FreeListIsExactHolds == Spec => []FreeListIsExact
<1>1. IInv => FreeListIsExact
  <2> SUFFICES ASSUME IInv, NEW who \in Who,
                      Listed(who), ~sheet[who].stale, ~sheet[who].raced,
                      ~PastMidnight(MasterDay(sheet[who].day, sheet[who].zone)),
                      sheet[who].moving # None => sheet[who].zone = zone[master],
                      NEW d, d = MasterDay(sheet[who].day, sheet[who].zone),
                      NEW u \in ((d - 1) * DayLength)..((d + 2) * DayLength)
               PROVE  u \in sheet[who].slots <=>
                        /\ WindowOf(d) # None
                        /\ \E k \in 0..DayLength :
                              Local(u, zone[master])
                                = d * DayLength + WindowOf(d).from + k * hours.size
                        /\ Local(u, zone[master]) + hours.size
                             <= d * DayLength + WindowOf(d).to
                        /\ ~Clash(u, hours.size, sheet[who].moving)
                        /\ ~(/\ sheet[who].moving \in Live
                             /\ booking[sheet[who].moving].start = u)
    BY DEF FreeListIsExact
  <2>1. sheet[who] \in Slots /\ sheet[who].day \in Days /\ sheet[who].zone \in Int
    BY SheetTypes DEF IInv, Slots
  <2>2. d \in Int /\ u \in Int
    BY <2>1, MasterDayType DEF IInv
  <2>3. sheet[who].slots = Offered(who, sheet[who].day)
    BY DEF IInv, SheetInv, ListCurrent
  <2>4. QED
    BY <2>1, <2>2, <2>3, ListIsExact DEF IInv
<1>2. QED
  BY <1>1, Inductive, PTL

\* A slot is refused only if a booking, or a change of hours, has overtaken the
\* list, but for the long bookings that RefusedOnlyIfTaken names.
THEOREM RefusedOnlyIfTakenHolds == Spec => RefusedOnlyIfTaken
<1> DEFINE Reason(who) ==
        LET s == sheet[who] IN
           \/ s.stale \/ s.raced \/ PastMidnight(MasterDay(s.day, s.zone))
           \/ s.moving \in Live /\ booking[s.moving].size > hours.size
<1>1. ASSUME IInv, NEW who \in Who, RefuseBooking(who) \/ (who = master /\ RefuseMove)
      PROVE  Reason(who)
  <2> DEFINE s == sheet[who]
             d == MasterDay(s.day, s.zone)
             n == IF s.moving = None THEN hours.size ELSE booking[s.moving].size
  <2>1. SUFFICES ASSUME ~s.stale, ~s.raced, ~PastMidnight(d),
                        ~(s.moving \in Live /\ booking[s.moving].size > hours.size)
                 PROVE  FALSE
    OBVIOUS
  <2>2. s.at = "confirm" /\ Clash(s.slot, n, s.moving) /\ s.moving \in Live \cup {None}
    BY <1>1, StateTypes DEF RefuseBooking, RefuseMove, MovedSize, IInv
  <2>3. n \in Nat /\ n <= hours.size
    BY <1>1, <2>1, <2>2, StateTypes DEF IInv
  <2>4. s \in Slots /\ s.slot \in Int /\ d \in Int /\ Listed(who)
    BY <1>1, <2>2, ChosenSlot DEF Listed
  <2>5. s.day \in Days
    BY <2>4 DEF Slots
  <2>6. s.slot \in Offered(who, s.day)
    BY <1>1, <2>1, <2>2, <2>4 DEF IInv, SheetInv, ListCurrent, ChosenFromList
  <2>7. Fits(s.slot, d) /\ IsSlotFree(Local(s.slot, zone[master]), OfDay(d) \ {s.moving})
    BY <1>1, <2>4, <2>5, <2>6, OfferedAre DEF IInv
  <2>8. ~Clash(s.slot, n, s.moving)
    BY <1>1, <2>1, <2>3, <2>4, <2>7, FreeIsApart DEF IInv
  <2>9. QED
    BY <2>2, <2>8
<1>2. IInv /\ [Next]_vars =>
        [\A who \in Who :
            RefuseBooking(who) \/ (who = master /\ RefuseMove) => Reason(who)]_vars
  BY <1>1
<1>3. QED
  BY <1>2, Inductive, PTL DEF Spec, RefusedOnlyIfTaken

=============================================================================
