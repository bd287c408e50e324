----------------------------- MODULE MCWorkdays -----------------------------
(* Small instances of Workdays for TLC. *)
EXTENDS Workdays, TLC

CONSTANTS b1, b2

\* a day of three steps, open for the first two or for the first
TwoWindows == {[from |-> 0, to |-> 2], [from |-> 0, to |-> 1]}

LongSlots == {[days |-> Days, window |-> [from |-> 0, to |-> 2], size |-> 2]}

\* the client lives east of the master
ClientEast == {[w \in Who |-> IF w = client THEN 2 ELSE 0]}

TwoDays == {0, 1}

EastAndHome == {0, 2}

Symmetry == Permutations(Bookings)
=============================================================================
