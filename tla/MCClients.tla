------------------------------ MODULE MCClients ------------------------------
(* Small instances of Clients for TLC. *)
EXTENDS Clients, TLC

CONSTANTS m1, u1, u2, c1, c2, p1, p2, i1, i2, b1, t1, t2

Nobody == [c \in {} |-> {}]

\* a user is a client of some master outside the instance, or nobody is
MaybeOne ==
    {Nobody} \cup {[c \in {c1} |-> [user |-> u, phone |-> p]] : u \in {u1, u2}, p \in {p1, p2}}

FreeOrPro == {{}, {m1}}

Symmetry ==
    Permutations({t1, t2}) \cup Permutations({i1, i2}) \cup Permutations({p1, p2})
        \cup Permutations({u1, u2})
=============================================================================
