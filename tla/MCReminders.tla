----------------------------- MODULE MCReminders -----------------------------
(* Small instances of Reminders for TLC. *)
EXTENDS Reminders, TLC

CONSTANTS b1, w1

OneReminder == [reminder_2h |-> 1]

OneNudge == [nudge1 |-> 1]

BothNudges == [nudge1 |-> 1, nudge2 |-> 2]

\* the third instant is at night
OneNight == [t \in {3} |-> 4]

NoOffsets == [k \in {} |-> 0]
==============================================================================
