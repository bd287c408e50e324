----------------------------- MODULE Reminders -----------------------------
(***************************************************************************)
(* What a Pro master's bookings put in the outbox, and what becomes of it: *)
(* the notices a handler enqueues after it moved or cancelled a booking,   *)
(* the reminders the worker schedules before a booking and the attendance  *)
(* nudges after it (repositories/scheduled_notification.py 166-216 and     *)
(* 547-737), the buttons under a nudge (handlers/master/                   *)
(* attendance_reminders.py), and the facts the worker checks before it     *)
(* sends (workers/reminders.py 484-762, notifications/policy.py).          *)
(*                                                                         *)
(* The rows, the worker and the clock are Outbox's: every step of this     *)
(* module is a step of Outbox, or leaves its variables alone.              *)
(***************************************************************************)
EXTENDS Naturals, FiniteSets

CONSTANTS
    Bookings,
    Starts,         \* start instants
    Dur,            \* length of a booking
    Lead,           \* how long before the start each client reminder is due
    Lag,            \* how long after the end each attendance nudge is due
    Morning,        \* for each instant of the quiet hours, the one it is shifted to
    SnoozeFor,      \* "remind in three hours"
    Lookahead, Lookback,
    Switchable,     \* bound: the notification settings a run switches
    MaxMoves,       \* bound: reschedules of a booking
    Workers, MaxAttempts, Backoff, BatchSize, Faults, NoKey, MaxArmings, Horizon

VARIABLES
    now, job, worker, armed, delivered,     \* see Outbox
    booking,    \* status, start and attendance of each booking
    snoozedAt,  \* booking_start_at of the snoozed nudge of each booking
    on,         \* notify_clients and notify_attendance, when set
    notices,    \* keys that handlers are about to enqueue
    moves,      \* bound: reschedules so far
    silenced    \* history: the keys under which no message should come any more

boxVars == <<now, job, worker, armed, delivered>>

ownVars == <<booking, snoozedAt, on, notices, moves, silenced>>

vars == <<now, job, worker, armed, delivered,
          booking, snoozedAt, on, notices, moves, silenced>>

-----------------------------------------------------------------------------
(* Deduplication keys: what the message is, of which booking, at which     *)
(* start.  The key of the snoozed nudge does not name the start.           *)

NoticeKeys == [kind : {"rescheduled", "cancelled"}, booking : Bookings, at : Starts]

ReminderKeys == [kind : DOMAIN Lead, booking : Bookings, at : Starts]

NudgeKeys == [kind : DOMAIN Lag, booking : Bookings, at : Starts]

SnoozeKey(b) == [kind |-> "snooze", booking |-> b, at |-> 0]

SnoozeKeys == {SnoozeKey(b) : b \in Bookings}

NudgesOf(b) == {k \in NudgeKeys \cup SnoozeKeys : k.booking = b}

KeysOf(b) == NudgesOf(b) \cup {k \in NoticeKeys \cup ReminderKeys : k.booking = b}

\* the booking_start_at of the job; it is final once a nudge can be snoozed
StartOf(k) == IF k \in SnoozeKeys THEN snoozedAt[k.booking] ELSE k.at

Box == INSTANCE Outbox WITH
    Once <- NoticeKeys \cup ReminderKeys \cup NudgeKeys,
    Refreshed <- {},
    Snoozed <- SnoozeKeys,
    Groups <- {NudgesOf(b) : b \in Bookings}

Toggles == {"clients", "attendance"}

ASSUME ReminderConstants ==
    /\ Starts \subseteq Nat \ {0}
    /\ Dur \in Nat \ {0}
    /\ Switchable \subseteq Toggles
    /\ \A t \in DOMAIN Morning :
          Morning[t] \in Nat /\ Morning[t] >= t /\ Morning[t] \notin DOMAIN Morning
    /\ {"rescheduled", "cancelled", "snooze"} \cap (DOMAIN Lead \cup DOMAIN Lag) = {}
    /\ DOMAIN Lead \cap DOMAIN Lag = {}
    /\ \A kind \in DOMAIN Lead : Lead[kind] \in Nat
    /\ \A kind \in DOMAIN Lag : Lag[kind] \in Nat
    /\ SnoozeFor \in Nat /\ Lookahead \in Nat /\ Lookback \in Nat
    /\ Box!OutboxConstants

EndOf(b) == booking[b].start + Dur

-----------------------------------------------------------------------------
Init ==
    /\ Box!Init
    /\ booking \in [Bookings -> [status : {"CONFIRMED"}, start : Starts, outcome : {"UNKNOWN"}]]
    /\ snoozedAt = [b \in Bookings |-> 0]
    /\ on = Toggles
    /\ notices = {}
    /\ moves = [b \in Bookings |-> 0]
    /\ silenced = {}

-----------------------------------------------------------------------------
(* What should not come any more (history).  A message the worker has in   *)
(* hand is past its questions about the booking, and one it has reserved   *)
(* is past any cancelling of its job: they may still go out.               *)

InHand == {worker[w].key : w \in Workers}

OnItsWay == InHand \cup UNION {worker[w].batch : w \in Workers}

\* what the facts of the booking speak against
Pointless(b) ==
    {k \in KeysOf(b) :
        \/ StartOf(k) # booking[b].start
        \/ k \notin NoticeKeys /\ booking[b].status # "CONFIRMED"
        \/ k \in NudgesOf(b) /\ booking[b].outcome # "UNKNOWN"}

\* the step silences what it makes pointless and the jobs it cancels, and lifts that
\* for the keys it gives a point again
Silence(b, cancelled, lifted) ==
    silenced' = (silenced \ (lifted \ Pointless(b)'))
                    \cup (Pointless(b)' \ InHand) \cup (cancelled \ OnItsWay)

-----------------------------------------------------------------------------
(* Bookings change (each use case one step here, see Bookings for their     *)
(* races); the handler that changed one enqueues its notice in a           *)
(* transaction of its own, with the settings it read along with the        *)
(* booking, if it lives that long.                                         *)

Notify(kind, b, at) ==
    notices' = IF "clients" \in on THEN notices \cup {[kind |-> kind, booking |-> b, at |-> at]}
               ELSE notices

Reschedule(b, at) ==
    /\ moves[b] < MaxMoves
    /\ booking[b].status = "CONFIRMED"
    /\ booking[b].start > now
    /\ at > now
    /\ at # booking[b].start
    /\ booking' = [booking EXCEPT ![b].start = at]
    /\ Notify("rescheduled", b, at)
    /\ moves' = [moves EXCEPT ![b] = @ + 1]
    /\ UNCHANGED <<snoozedAt, on>>
    /\ Silence(b, {}, KeysOf(b))
    /\ UNCHANGED boxVars

\* by the client, who is not notified, or by the master, also of what is over
CancelBooking(b, byMaster) ==
    /\ booking[b].status = "CONFIRMED"
    /\ byMaster \/ booking[b].start > now
    /\ booking' = [booking EXCEPT ![b].status = "CANCELLED"]
    /\ IF byMaster THEN Notify("cancelled", b, booking[b].start) ELSE UNCHANGED notices
    /\ UNCHANGED <<snoozedAt, on, moves>>
    /\ Silence(b, {}, {})
    /\ UNCHANGED boxVars

\* maybe_enqueue_booking_client_notification: the number of rows is not looked at
Announce(n) ==
    /\ n \in notices
    /\ Box!Enqueue({}, IF n.at > now THEN {n} \cap Box!Armable ELSE {}, [k \in {n} |-> now])
    /\ notices' = notices \ {n}
    /\ UNCHANGED <<booking, snoozedAt, on, moves, silenced>>

\* the bot dies between the two transactions
Forget ==
    /\ notices # {}
    /\ notices' = {}
    /\ UNCHANGED <<booking, snoozedAt, on, moves, silenced>>
    /\ UNCHANGED boxVars

Toggle(t) ==
    /\ on' = IF t \in on THEN on \ {t} ELSE on \cup {t}
    /\ UNCHANGED <<booking, snoozedAt, notices, moves, silenced>>
    /\ UNCHANGED boxVars

-----------------------------------------------------------------------------
(* Attendance: from the card of the booking, or by the buttons of a nudge. *)

Ended(b) == EndOf(b) <= now

Marked(b, outcome) ==
    IF booking[b].status = "CONFIRMED" /\ booking[b].outcome = "UNKNOWN" /\ Ended(b)
    THEN [booking EXCEPT ![b].outcome = outcome] ELSE booking

MarkFromCard(b, outcome) ==
    /\ booking' = Marked(b, outcome)
    /\ booking' # booking
    /\ UNCHANGED <<snoozedAt, on, notices, moves>>
    /\ Silence(b, {}, {})
    /\ UNCHANGED boxVars

\* a nudge of b has reached the master: its buttons can be pressed, twice too
HasButtons(b) == \E k \in NudgesOf(b) : delivered[k] > 0

\* the nudges are cancelled whatever the use case answered
MarkFromNudge(b, outcome) ==
    /\ HasButtons(b)
    /\ booking' = Marked(b, outcome)
    /\ Box!Enqueue(NudgesOf(b), {}, <<>>)
    /\ UNCHANGED <<snoozedAt, on, notices, moves>>
    /\ Silence(b, NudgesOf(b), {})

\* asks neither for the booking's status nor for its outcome
Snooze(b) ==
    /\ HasButtons(b)
    /\ armed[SnoozeKey(b)] < MaxArmings
    /\ Box!Enqueue(NudgesOf(b), {SnoozeKey(b)}, [k \in SnoozeKeys |-> Box!By(now + SnoozeFor)])
    /\ snoozedAt' = [snoozedAt EXCEPT ![b] = booking[b].start]
    /\ UNCHANGED <<booking, on, notices, moves>>
    /\ Silence(b, NudgesOf(b) \ {SnoozeKey(b)}, {SnoozeKey(b)})

Disable(b) ==
    /\ HasButtons(b)
    /\ Box!Enqueue(NudgesOf(b), {}, <<>>)
    /\ UNCHANGED <<booking, snoozedAt, on, notices, moves>>
    /\ Silence(b, NudgesOf(b), {})

-----------------------------------------------------------------------------
(* The schedule refresh, which the worker runs between two batches. *)

\* schedule_client_booking_reminders
WantedReminders ==
    {k \in ReminderKeys :
        LET b == booking[k.booking] IN
            /\ b.status = "CONFIRMED"
            /\ b.start = k.at
            /\ b.start > now /\ b.start < now + Lookahead
            /\ "clients" \in on}

\* Mutant: only the bookings that ended since the last tick.
WantedNudgesNow ==
    {k \in NudgeKeys :
        LET b == booking[k.booking] IN
            /\ b.status = "CONFIRMED"
            /\ b.outcome = "UNKNOWN"
            /\ b.start = k.at
            /\ EndOf(k.booking) = now
            /\ "attendance" \in on}

\* schedule_master_attendance_nudges
WantedNudges ==
    {k \in NudgeKeys :
        LET b == booking[k.booking] IN
            /\ b.status = "CONFIRMED"
            /\ b.outcome = "UNKNOWN"
            /\ b.start = k.at
            /\ EndOf(k.booking) <= now /\ EndOf(k.booking) + Lookback >= now
            /\ "attendance" \in on}

\* shift_out_of_quiet_hours
Awake(t) == IF t \in DOMAIN Morning THEN Morning[t] ELSE t

DueOf(k) ==
    IF k \in ReminderKeys
    THEN IF k.at > Lead[k.kind] THEN k.at - Lead[k.kind] ELSE 0
    ELSE Awake(k.at + Dur + Lag[k.kind])

Between(w) == worker[w].key = NoKey /\ worker[w].batch = {}

\* one INSERT ... ON CONFLICT DO NOTHING for each kind, in one transaction
RefreshSchedule(w) ==
    /\ Between(w)
    /\ LET fresh == (WantedReminders \cup WantedNudges) \cap Box!Armable IN
          /\ fresh # {}
          /\ Box!Enqueue({}, fresh, [k \in fresh |-> Box!By(DueOf(k))])
    /\ UNCHANGED ownVars

-----------------------------------------------------------------------------
(* What _send_job asks of a booking that it has loaded, and the policy of  *)
(* what it read; the time is that of the worker's tick.                    *)

\* Mutant: the outcome is not asked for again.
RelevantNudgeAnyOutcome(b, time) ==
    /\ booking[b].status = "CONFIRMED"
    /\ EndOf(b) <= time
    /\ "attendance" \in on

\* _send_master_attendance_nudge
RelevantNudge(b, time) ==
    /\ booking[b].status = "CONFIRMED"
    /\ booking[b].outcome = "UNKNOWN"
    /\ EndOf(b) <= time
    /\ "attendance" \in on

\* the client part of DefaultNotificationPolicy, for a Pro master
ClientAllowed(at, time) == "clients" \in on /\ at > time

\* _send_client_reminder, _send_client_booking_notification
RelevantToClient(k, time) ==
    /\ k \in ReminderKeys => booking[k.booking].status = "CONFIRMED"
    /\ ClientAllowed(booking[k.booking].start, time)

\* Mutant: a job is not held against the start of its booking.
RelevantAtAnyStart(k, time) ==
    IF k \in NoticeKeys \cup ReminderKeys THEN RelevantToClient(k, time)
    ELSE RelevantNudge(k.booking, time)

Relevant(k, time) ==
    /\ booking[k.booking].start = StartOf(k)
    /\ IF k \in NoticeKeys \cup ReminderKeys THEN RelevantToClient(k, time)
       ELSE RelevantNudge(k.booking, time)

Take(w) ==
    /\ \E k \in worker[w].batch :
          Box!Take(w, k, IF Relevant(k, worker[w].at) THEN "none" ELSE "false")
    /\ UNCHANGED ownVars

Reserve(w) ==
    /\ \E batch \in SUBSET Box!DuePending : Box!Reserve(w, batch)
    /\ UNCHANGED ownVars

Send(w) ==
    /\ Box!Deliver(w) \/ Box!DeliverRefused(w) \/ Box!SendError(w)
    /\ UNCHANGED ownVars

Finalize(w) ==
    /\ Box!ReadAttempts(w) \/ Box!Finalize(w) \/ Box!FinalizeFails(w)
    /\ UNCHANGED ownVars

Die(w) ==
    /\ Box!Die(w)
    /\ UNCHANGED ownVars

Tick ==
    /\ Box!Tick
    /\ UNCHANGED ownVars

-----------------------------------------------------------------------------
Work(w) == RefreshSchedule(w) \/ Reserve(w) \/ Take(w) \/ Send(w) \/ Finalize(w)

Change(b) ==
    \/ \E at \in Starts : Reschedule(b, at)
    \/ \E byMaster \in BOOLEAN : CancelBooking(b, byMaster)
    \/ \E outcome \in {"ATTENDED", "NO_SHOW"} : MarkFromCard(b, outcome)

Press(b) ==
    \/ \E outcome \in {"ATTENDED", "NO_SHOW"} : MarkFromNudge(b, outcome)
    \/ Snooze(b)
    \/ Disable(b)

Next ==
    \/ \E b \in Bookings : Change(b) \/ Press(b)
    \/ \E n \in NoticeKeys : Announce(n)
    \/ Forget
    \/ \E t \in Switchable : Toggle(t)
    \/ \E w \in Workers : Work(w) \/ Die(w)
    \/ Tick

Spec == Init /\ [][Next]_vars

\* the loop of the worker runs on: a refresh is not put off for ever by batches
FairSpec ==
    /\ Spec
    /\ WF_vars(Tick)
    /\ \A w \in Workers : WF_vars(Work(w)) /\ SF_vars(RefreshSchedule(w))

-----------------------------------------------------------------------------
(* Properties *)

\* No message comes that has lost its point: neither of a start its booking was moved
\* away from, nor a reminder or a nudge of a cancelled booking, nor a nudge once
\* attendance is on record, the master pressed "do not remind" or snoozed; neither by
\* the next refresh, nor by a retry, though moving, cancelling and marking a booking on
\* its card cancel no job.  Moving it back or a snooze gives messages their point again.
SilencedIsQuiet == [][\A k \in silenced : delivered'[k] = delivered[k]]_vars

\* A booking that ended without attendance on record gets its nudge, unless the
\* master settles it, whatever kept the worker busy; for a master who never
\* switches the nudges off, since a job that falls due meanwhile is dropped for good.
ForgottenGetsNudged ==
    []("attendance" \in on) =>
        \A b \in Bookings :
            booking[b].status = "CONFIRMED" /\ booking[b].outcome = "UNKNOWN" /\ Ended(b) ~>
                HasButtons(b) \/ booking[b].status # "CONFIRMED" \/ booking[b].outcome # "UNKNOWN"

=============================================================================
