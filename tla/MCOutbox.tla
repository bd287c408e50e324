------------------------------ MODULE MCOutbox ------------------------------
(* Small instances of Outbox for TLC. *)
EXTENDS Outbox, TLC

CONSTANTS notice, renewal, nudge, snooze, w1, w2

\* the two nudges of one booking: the scheduled one and the snoozed one
NudgesTogether == {{nudge, snooze}}

=============================================================================
