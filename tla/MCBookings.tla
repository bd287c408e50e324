----------------------------- MODULE MCBookings -----------------------------
(* Small instances of Bookings for TLC. *)
EXTENDS Bookings, TLC

CONSTANTS m1, c1, b1, b2, b3, t1, t2

OnePair == {<<m1, c1>>}

NoPair == {}

StartOne == {2}

StartsApart == {1, 3}

StartsOneToThree == 1..3

Length == {2}

\* no row yet, and the row that revoke_pro leaves behind
NoneOrFree == {NoSub, [plan |-> "FREE", trial |-> Null, paid |-> Null]}

\* a lifetime Pro
ProSub == {[plan |-> "PRO", trial |-> Null, paid |-> Null]}

\* handlers are alike, and so are ids
Symmetry == Permutations({t1, t2}) \cup Permutations(Bookings)
=============================================================================
