------------------------------- MODULE Ledger -------------------------------
(***************************************************************************)
(* What billing promises, whoever checks a payment and however often: an   *)
(* invoice is credited only after the provider has its money and at most   *)
(* once, and besides credits only the administrator's orders change the    *)
(* time a master has paid for.                                             *)
(***************************************************************************)
EXTENDS Naturals

CONSTANTS Masters, Invoices, Owner

VARIABLES
    settled,   \* invoices the provider has the money of
    credited,  \* invoices that have bought paid time
    until,     \* the end of each master's paid time
    orders     \* how many orders the administrator gave

ledgerVars == <<settled, credited, until, orders>>

Init ==
    /\ settled = {}
    /\ credited = {}
    /\ until \in [Masters -> Nat]
    /\ orders = 0

OnlyChanges(m) == \A o \in Masters \ {m} : until'[o] = until[o]

Settle(i) ==
    /\ i \notin settled
    /\ settled' = settled \cup {i}
    /\ UNCHANGED <<credited, until, orders>>

Credit(i) ==
    /\ i \in settled \ credited
    /\ credited' = credited \cup {i}
    /\ until'[Owner[i]] >= until[Owner[i]]
    /\ OnlyChanges(Owner[i])
    /\ UNCHANGED <<settled, orders>>

Order(m) ==
    /\ orders' = orders + 1
    /\ OnlyChanges(m)
    /\ UNCHANGED <<settled, credited>>

Next ==
    \/ \E i \in Invoices : Settle(i) \/ Credit(i)
    \/ \E m \in Masters : Order(m)

Spec == Init /\ [][Next]_ledgerVars

=============================================================================
