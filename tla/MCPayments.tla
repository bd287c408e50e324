----------------------------- MODULE MCPayments -----------------------------
(* Small instances of Payments for TLC. *)
EXTENDS Payments

CONSTANTS m1, m2, h1, h2, p1, p2

OneOwner == [i \in Invoices |-> m1]

OnTrial == {[plan |-> "FREE", trial |-> 4, paid |-> Null]}

=============================================================================
