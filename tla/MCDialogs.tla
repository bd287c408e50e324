----------------------------- MODULE MCDialogs ------------------------------
(* One user, two days, two clients to edit, the last two messages within reach. *)
EXTENDS Dialogs

CONSTANTS d1, d2, p1, p2, none

MCDays == {d1, d2}

MCPeople == {p1, p2}

MCSymmetry == Permutations(MCDays) \cup Permutations(MCPeople)
=============================================================================
