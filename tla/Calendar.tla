------------------------------ MODULE Calendar ------------------------------
(***************************************************************************)
(* What the booking component promises, without transactions, statuses or  *)
(* handlers: a booking number is used once; while it is live it holds one  *)
(* slot of one master, which may be shifted to another start; once it has  *)
(* been released it never holds a slot again; and no two live bookings of  *)
(* one master ever hold a common instant.                                  *)
(***************************************************************************)
EXTENDS Integers

CONSTANTS
    Masters,    \* the calendars' owners
    Bookings,   \* booking numbers
    Durations,  \* slot lengths
    Starts      \* instants a slot may begin

VARIABLE book

Slot == [state : {"held"}, master : Masters, start : Starts, dur : Durations]

Unused == [state |-> "unused"]

Released == [state |-> "released"]

Meets(s, r) ==
    /\ s.master = r.master
    /\ s.start < r.start + r.dur
    /\ r.start < s.start + s.dur

FreeFor(b, s) ==
    \A o \in Bookings \ {b} : book[o].state = "held" => ~Meets(s, book[o])

Init == book = [b \in Bookings |-> Unused]

Reserve(b) ==
    /\ book[b] = Unused
    /\ \E s \in Slot : FreeFor(b, s) /\ book' = [book EXCEPT ![b] = s]

Shift(b) ==
    /\ book[b].state = "held"
    /\ \E at \in Starts :
          LET s == [book[b] EXCEPT !.start = at] IN
             FreeFor(b, s) /\ book' = [book EXCEPT ![b] = s]

Release(b) ==
    /\ book[b].state = "held"
    /\ book' = [book EXCEPT ![b] = Released]

Next == \E b \in Bookings : Reserve(b) \/ Shift(b) \/ Release(b)

Spec == Init /\ [][Next]_book

=============================================================================
