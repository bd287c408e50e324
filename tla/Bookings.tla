------------------------------ MODULE Bookings ------------------------------
(***************************************************************************)
(* The life of a booking: the five use cases that write the bookings table *)
(* (use_cases/create_client_booking.py, create_master_booking.py,          *)
(* reschedule_master_booking.py, review_master_booking.py,                 *)
(* mark_booking_attendance.py), the two cancellations, and what their      *)
(* handlers do after the commit.                                           *)
(*                                                                         *)
(* Every use case runs in one PostgreSQL transaction at READ COMMITTED: it *)
(* first reads and checks, then issues one conditional write.  Handlers of *)
(* the bot interleave at every await, so a use case is split where another *)
(* handler can commit between its read and its write.  A write and its     *)
(* commit are one step, except for the insert of a booking, which is       *)
(* followed by another read in the same transaction: the row is then kept  *)
(* in the task, invisible to readers and yet in the way of every other     *)
(* insert (the exclusion constraint makes them wait for its commit).       *)
(*                                                                         *)
(* Payments and administrators write the subscriptions meanwhile: Grant    *)
(* and Revoke are what they do to a row, in one step each (the module      *)
(* Payments has the way there).                                            *)
(***************************************************************************)
EXTENDS Entitlements, FiniteSets

CONSTANTS
    Masters, Clients,
    Bookings,     \* bookings.id, handed out by the sequence
    Tasks,        \* handlers that may be in flight together
    Attached,     \* master_clients: the pairs that may book
    Notifiable,   \* pairs with a Telegram client and both notification toggles on
    Starts,       \* start instants a request may name
    Durations,    \* values of masters.slot_size_min
    InitSubs,     \* subscription rows a master may have at the start
    PaidUntils,   \* bound: the ends a credit or an administrator's grant may name
    LastOrder,    \* bound: when the last of them comes
    MaxNow        \* bound on the clock

ASSUME BookingConstants ==
    /\ IsFiniteSet(Tasks)
    /\ Attached \subseteq Masters \X Clients
    /\ Notifiable \subseteq Masters \X Clients
    /\ Starts \subseteq Nat
    /\ Durations \subseteq Nat \ {0, 1}  \* a tick is at most half the shortest slot
    /\ InitSubs \subseteq SubRow
    /\ PaidUntils \subseteq Nat
    /\ LastOrder \in Nat
    /\ MaxNow \in Nat

VARIABLES
    now,        \* the clock
    booking,    \* the committed rows of the bookings table, by id
    sub,        \* the subscription row of each master
    slot,       \* masters.slot_size_min
    trialJobs,  \* the trial end the trial reminders of a master were computed from
    outbox,     \* client notifications enqueued, by deduplication key
    task,       \* the handlers in flight
    ordered     \* history: when a master's paid time was first granted or revoked

vars == <<now, booking, sub, slot, trialJobs, outbox, task, ordered>>

-----------------------------------------------------------------------------
Live == {"PENDING", "CONFIRMED"}

Status == Live \cup {"DECLINED", "CANCELLED"}

Outcome == {"UNKNOWN", "ATTENDED", "NO_SHOW"}

Row == [master : Masters, client : Clients, start : Starts, dur : Durations,
        status : Status, outcome : Outcome]

Events == {"created_confirmed", "confirmed", "declined", "rescheduled", "cancelled_by_master"}

Job == [event : Events, booking : Bookings, at : Starts]

Idle == [op |-> "idle"]

CreateTask == [op : {"create"}, master : Masters, client : Clients, at : Starts,
               dur : Durations, status : Live, first : BOOLEAN, pro : BOOLEAN, began : Nat]

InsertedTask == [op : {"inserted"}, booking : Bookings, row : Row,
                 trial : BOOLEAN, pro : BOOLEAN, began : Nat]

MoveTask == [op : {"move"}, booking : Bookings, at : Starts, began : Nat]

ReviewTask == [op : {"review"}, booking : Bookings, verdict : {"CONFIRMED", "DECLINED"},
               at : Starts, began : Nat]

ReloadTask == [op : {"reload"}, booking : Bookings, began : Nat]

NotifyTask == [op : {"notify"}, event : Events, booking : Bookings, at : Starts,
               pro : BOOLEAN, began : Nat]

Task == {Idle} \cup CreateTask \cup InsertedTask \cup MoveTask
               \cup ReviewTask \cup ReloadTask \cup NotifyTask

Rows == DOMAIN booking

InFlight(op) == {t \in Tasks : task[t].op = op}

Become(t, state) == task' = [task EXCEPT ![t] = state]

-----------------------------------------------------------------------------
(* The exclusion constraint bookings_no_overlap_active: two live rows of   *)
(* one master may not share an instant of [start, start + dur).            *)

Clash(r, s) ==
    /\ r.master = s.master
    /\ r.start < s.start + s.dur
    /\ s.start < r.start + r.dur

\* Mutant: the WHERE of the constraint forgets PENDING.
ExcludedByConfirmed(row, ids) ==
    \E o \in ids : booking[o].status = "CONFIRMED" /\ Clash(row, booking[o])

\* a committed live row, of those with the ids given, that row would violate
Excluded(row, ids) ==
    \E o \in ids : booking[o].status \in Live /\ Clash(row, booking[o])

\* Mutant: a snapshot check instead of the constraint, blind to uncommitted rows.
MustWaitNever(row) == FALSE

\* Mutant: an advisory lock per master, taken by every creation that has begun.
MustWaitForAll(row) ==
    \/ \E u \in InFlight("inserted") : Clash(row, task[u].row)
    \/ \E u, v \in InFlight("create") : u # v /\ task[u].master = row.master

\* an uncommitted insert whose outcome the writer of row has to wait for
MustWait(row) ==
    \E u \in InFlight("inserted") : Clash(row, task[u].row)

(* Entitlements as the use cases read them. *)

HasBookings(m) == \E b \in Rows : booking[b].master = m

\* every booking of the month counts, whatever its status
MonthUsage(m, month) ==
    Cardinality({b \in Rows : booking[b].master = m /\ MonthOf(booking[b].start) = month})

ProNow(m) == IsPro(sub[m], now)

\* a row without a trial, as revoke_pro left it before: no booking starts one
NeverPro(m) ==
    m \notin DOMAIN ordered /\ sub[m] = [plan |-> "FREE", trial |-> Null, paid |-> Null]

\* Mutant: the limit is compared with <=.
CanCreateOneMore(m) == ProNow(m) \/ MonthUsage(m, MonthOf(now)) <= FreeBookings

CanCreateBooking(m) == ProNow(m) \/ MonthUsage(m, MonthOf(now)) < FreeBookings

-----------------------------------------------------------------------------
Init ==
    /\ now = 0
    /\ booking = [b \in {} |-> <<>>]
    /\ sub \in [Masters -> InitSubs]
    /\ slot \in [Masters -> Durations]
    /\ trialJobs = [m \in Masters |-> Null]
    /\ outbox = {}
    /\ task = [t \in Tasks |-> Idle]
    /\ ordered = [m \in {} |-> 0]

-----------------------------------------------------------------------------
(* CreateClientBooking (status PENDING) and CreateMasterBooking (CONFIRMED) *)

\* bound: an id is left for every insert under way
IdsLeft ==
    Cardinality(Rows) + Cardinality(InFlight("create") \cup InFlight("inserted"))
        < Cardinality(Bookings)

CreateCheck(t, m, c, at, status) ==
    /\ IdsLeft
    /\ task[t] = Idle
    /\ at > now
    /\ <<m, c>> \in Attached
    /\ CanCreateBooking(m)
    /\ Become(t, [op |-> "create", master |-> m, client |-> c, at |-> at, dur |-> slot[m],
                  status |-> status, first |-> ~HasBookings(m), pro |-> ProNow(m),
                  began |-> now])
    /\ UNCHANGED <<now, booking, sub, slot, trialJobs, outbox, ordered>>

NewRow(t) ==
    [master |-> task[t].master, client |-> task[t].client, start |-> task[t].at,
     dur |-> task[t].dur, status |-> task[t].status, outcome |-> "UNKNOWN"]

\* Mutant: a first booking starts a trial, whatever subscription there is.
CreateInsertTrialAnyway(t, b) ==
    /\ task[t].op = "create"
    /\ b \notin Rows
    /\ \A u \in InFlight("inserted") : task[u].booking # b
    /\ ~Excluded(NewRow(t), Rows)
    /\ ~MustWait(NewRow(t))
    /\ Become(t, [op |-> "inserted", booking |-> b, row |-> NewRow(t),
                  trial |-> task[t].first, pro |-> task[t].pro, began |-> task[t].began])
    /\ UNCHANGED <<now, booking, sub, slot, trialJobs, outbox, ordered>>

\* the insert, and the read of the subscription that decides on the trial
CreateInsert(t, b) ==
    /\ task[t].op = "create"
    /\ b \notin Rows
    /\ \A u \in InFlight("inserted") : task[u].booking # b
    /\ ~Excluded(NewRow(t), Rows)
    /\ ~MustWait(NewRow(t))
    /\ Become(t, [op |-> "inserted", booking |-> b, row |-> NewRow(t),
                  trial |-> task[t].first /\ sub[task[t].master] = NoSub,
                  pro |-> task[t].pro, began |-> task[t].began])
    /\ UNCHANGED <<now, booking, sub, slot, trialJobs, outbox, ordered>>

\* IntegrityError, SLOT_NOT_AVAILABLE: the transaction is rolled back
CreateRejected(t) ==
    /\ task[t].op = "create"
    /\ Excluded(NewRow(t), Rows)
    /\ Become(t, Idle)
    /\ UNCHANGED <<now, booking, sub, slot, trialJobs, outbox, ordered>>

(* The commit: the row becomes visible and the trial starts if this was    *)
(* the first booking, by an upsert that writes over whatever row has come  *)
(* since.  (The onboarding jobs it cancels are in Clients.)  Only the      *)
(* master's own booking tells the client through the outbox.               *)
CreateCommit(t) ==
    /\ task[t].op = "inserted"
    /\ LET b   == task[t].booking
           row == task[t].row
           m   == row.master
       IN  /\ booking' = [x \in Rows \cup {b} |-> IF x = b THEN row ELSE booking[x]]
           /\ IF task[t].trial
                THEN /\ sub' = [sub EXCEPT ![m] = UpsertTrial(@, TrialUntil(now))]
                     /\ trialJobs' = [trialJobs EXCEPT ![m] = TrialUntil(now)]
                ELSE UNCHANGED <<sub, trialJobs>>
           /\ Become(t, IF row.status = "PENDING" THEN Idle
                        ELSE [op |-> "notify", event |-> "created_confirmed", booking |-> b,
                              at |-> row.start, pro |-> task[t].pro, began |-> task[t].began])
    /\ UNCHANGED <<now, slot, outbox, ordered>>

-----------------------------------------------------------------------------
(* RescheduleMasterBooking: the UPDATE names only the id and the master.   *)

MoveCheck(t, b, at) ==
    /\ task[t] = Idle
    /\ b \in Rows
    /\ at > now
    /\ ProNow(booking[b].master)
    /\ booking[b].status \in Live
    /\ booking[b].start > now
    /\ booking[b].start # at
    /\ Become(t, [op |-> "move", booking |-> b, at |-> at, began |-> now])
    /\ UNCHANGED <<now, booking, sub, slot, trialJobs, outbox, ordered>>

Moved(t) == [booking[task[t].booking] EXCEPT !.start = task[t].at]

\* the constraint does not cover a row that is no longer live
MoveCommit(t) ==
    /\ task[t].op = "move"
    /\ Moved(t).status \in Live =>
          ~Excluded(Moved(t), Rows \ {task[t].booking}) /\ ~MustWait(Moved(t))
    /\ booking' = [booking EXCEPT ![task[t].booking] = Moved(t)]
    /\ Become(t, [op |-> "notify", event |-> "rescheduled", booking |-> task[t].booking,
                  at |-> task[t].at, pro |-> TRUE, began |-> task[t].began])
    /\ UNCHANGED <<now, sub, slot, trialJobs, outbox, ordered>>

MoveRejected(t) ==
    /\ task[t].op = "move"
    /\ Moved(t).status \in Live
    /\ Excluded(Moved(t), Rows \ {task[t].booking})
    /\ Become(t, Idle)
    /\ UNCHANGED <<now, booking, sub, slot, trialJobs, outbox, ordered>>

-----------------------------------------------------------------------------
(* ReviewMasterBooking: the status is checked only by the UPDATE; the      *)
(* start that the notification will name is the one read before it.        *)

ReviewCheck(t, b, verdict) ==
    /\ task[t] = Idle
    /\ b \in Rows
    /\ verdict = "CONFIRMED" => booking[b].start > now
    /\ Become(t, [op |-> "review", booking |-> b, verdict |-> verdict,
                  at |-> booking[b].start, began |-> now])
    /\ UNCHANGED <<now, booking, sub, slot, trialJobs, outbox, ordered>>

VerdictEvent(verdict) == IF verdict = "CONFIRMED" THEN "confirmed" ELSE "declined"

\* Mutant: the UPDATE trusts the status read before it.
ReviewCommitUnguarded(t) ==
    /\ task[t].op = "review"
    /\ LET b == task[t].booking IN
          /\ booking' = [booking EXCEPT ![b].status = task[t].verdict]
          /\ Become(t, [op |-> "notify", event |-> VerdictEvent(task[t].verdict), booking |-> b,
                        at |-> task[t].at, pro |-> ProNow(booking[b].master),
                        began |-> task[t].began])
    /\ UNCHANGED <<now, sub, slot, trialJobs, outbox, ordered>>

ReviewCommit(t) ==
    /\ task[t].op = "review"
    /\ LET b == task[t].booking IN
          /\ booking[b].status = "PENDING"
          /\ booking' = [booking EXCEPT ![b].status = task[t].verdict]
          /\ Become(t, [op |-> "notify", event |-> VerdictEvent(task[t].verdict), booking |-> b,
                        at |-> task[t].at, pro |-> ProNow(booking[b].master),
                        began |-> task[t].began])
    /\ UNCHANGED <<now, sub, slot, trialJobs, outbox, ordered>>

\* rowcount 0: ALREADY_HANDLED
ReviewTooLate(t) ==
    /\ task[t].op = "review"
    /\ booking[task[t].booking].status # "PENDING"
    /\ Become(t, Idle)
    /\ UNCHANGED <<now, booking, sub, slot, trialJobs, outbox, ordered>>

-----------------------------------------------------------------------------
(* The cancellations: one conditional UPDATE each. *)

\* Mutant: a status the other use cases do not know.
CancelByClientOtherwise(b) ==
    /\ b \in Rows
    /\ booking[b].status \in Live
    /\ booking[b].start > now
    /\ booking' = [booking EXCEPT ![b].status = "CANCELLED_BY_CLIENT"]
    /\ UNCHANGED <<now, sub, slot, trialJobs, outbox, task, ordered>>

CancelByClient(b) ==
    /\ b \in Rows
    /\ booking[b].status \in Live
    /\ booking[b].start > now
    /\ booking' = [booking EXCEPT ![b].status = "CANCELLED"]
    /\ UNCHANGED <<now, sub, slot, trialJobs, outbox, task, ordered>>

\* also a booking that is over, or whose attendance has been recorded
CancelByMaster(t, b) ==
    /\ task[t] = Idle
    /\ b \in Rows
    /\ booking[b].status \in Live
    /\ booking' = [booking EXCEPT ![b].status = "CANCELLED"]
    /\ Become(t, [op |-> "reload", booking |-> b, began |-> now])
    /\ UNCHANGED <<now, sub, slot, trialJobs, outbox, ordered>>

\* the handler reads the booking and the plan again before it notifies
ReloadCancelled(t) ==
    /\ task[t].op = "reload"
    /\ LET b == task[t].booking IN
          Become(t, [op |-> "notify", event |-> "cancelled_by_master", booking |-> b,
                     at |-> booking[b].start, pro |-> ProNow(booking[b].master),
                     began |-> task[t].began])
    /\ UNCHANGED <<now, booking, sub, slot, trialJobs, outbox, ordered>>

\* Mutant: attendance may be marked once the session has begun.
MarkAttendanceEarly(b, outcome) ==
    /\ b \in Rows
    /\ booking[b].status = "CONFIRMED"
    /\ booking[b].outcome = "UNKNOWN"
    /\ booking[b].start <= now
    /\ booking' = [booking EXCEPT ![b].outcome = outcome]
    /\ UNCHANGED <<now, sub, slot, trialJobs, outbox, task, ordered>>

(* MarkBookingAttendance: the UPDATE repeats every condition of the checks. *)
MarkAttendance(b, outcome) ==
    /\ b \in Rows
    /\ booking[b].status = "CONFIRMED"
    /\ booking[b].outcome = "UNKNOWN"
    /\ booking[b].start + booking[b].dur <= now
    /\ booking' = [booking EXCEPT ![b].outcome = outcome]
    /\ UNCHANGED <<now, sub, slot, trialJobs, outbox, task, ordered>>

-----------------------------------------------------------------------------
(* maybe_enqueue_booking_client_notification, in a transaction of its own: *)
(* the policy, then an insert that a row with the same key suppresses.     *)

Allowed(n) ==
    /\ n.pro
    /\ <<booking[n.booking].master, booking[n.booking].client>> \in Notifiable
    /\ n.at > now

JobOf(n) == [event |-> n.event, booking |-> n.booking, at |-> n.at]

Announce(t) ==
    /\ task[t].op = "notify"
    /\ outbox' = IF Allowed(task[t]) THEN outbox \cup {JobOf(task[t])} ELSE outbox
    /\ Become(t, Idle)
    /\ UNCHANGED <<now, booking, sub, slot, trialJobs, ordered>>

-----------------------------------------------------------------------------
(* What payments and administrators do to a subscription, in one step. *)

Ordered(m) ==
    ordered' = [x \in DOMAIN ordered \cup {m} |-> IF x \in DOMAIN ordered THEN ordered[x] ELSE now]

\* grant_pro, by CheckProPayment, the payments worker or the administrator
Grant(m, until) ==
    /\ until > now
    /\ sub' = [sub EXCEPT ![m] = GrantPro(@, until)]
    /\ Ordered(m)
    /\ UNCHANGED <<now, booking, slot, trialJobs, outbox, task>>

\* revoke_pro: an UPDATE of a row there is
Revoke(m) ==
    /\ sub[m] # NoSub
    /\ sub' = [sub EXCEPT ![m] = RevokePro(@, now)]
    /\ Ordered(m)
    /\ UNCHANGED <<now, booking, slot, trialJobs, outbox, task>>

Order(m) ==
    /\ now <= LastOrder
    /\ Revoke(m) \/ \E until \in PaidUntils : Grant(m, until)

-----------------------------------------------------------------------------
\* save_slot_size: committed rows keep their duration
SetSlotSize(m, d) ==
    /\ slot' = [slot EXCEPT ![m] = d]
    /\ UNCHANGED <<now, booking, sub, trialJobs, outbox, task, ordered>>

\* the bot process dies: open transactions roll back, nothing is resumed
Crash ==
    /\ \E t \in Tasks : task[t] # Idle
    /\ task' = [t \in Tasks |-> Idle]
    /\ UNCHANGED <<now, booking, sub, slot, trialJobs, outbox, ordered>>

\* bound: a handler in flight outlives at most one tick of the clock
Tick ==
    /\ now < MaxNow
    /\ \A t \in Tasks : task[t] # Idle => task[t].began = now
    /\ now' = now + 1
    /\ UNCHANGED <<booking, sub, slot, trialJobs, outbox, task, ordered>>

\* the steps of a handler that has begun
Proceed(t) ==
    \/ \E b \in Bookings : CreateInsert(t, b)
    \/ CreateRejected(t)
    \/ CreateCommit(t)
    \/ MoveCommit(t)
    \/ MoveRejected(t)
    \/ ReviewCommit(t)
    \/ ReviewTooLate(t)
    \/ ReloadCancelled(t)
    \/ Announce(t)

Begin(t) ==
    \/ \E m \in Masters, c \in Clients, at \in Starts, status \in Live :
          CreateCheck(t, m, c, at, status)
    \/ \E b \in Bookings, at \in Starts : MoveCheck(t, b, at)
    \/ \E b \in Bookings, verdict \in {"CONFIRMED", "DECLINED"} : ReviewCheck(t, b, verdict)
    \/ \E b \in Bookings : CancelByMaster(t, b)

Next ==
    \/ \E t \in Tasks : Begin(t) \/ Proceed(t)
    \/ \E b \in Bookings : CancelByClient(b)
    \/ \E b \in Bookings, outcome \in {"ATTENDED", "NO_SHOW"} : MarkAttendance(b, outcome)
    \/ \E m \in Masters, d \in Durations : SetSlotSize(m, d)
    \/ \E m \in Masters : Order(m)
    \/ Crash
    \/ Tick

Spec == Init /\ [][Next]_vars

\* asyncio runs every handler on until it returns; the crash is a step
FairSpec == Spec /\ \A t \in Tasks : WF_vars(Proceed(t))

-----------------------------------------------------------------------------
(* Properties *)

\* Every variable holds values of its type.
TypeOK ==
    /\ now \in Nat
    /\ DOMAIN booking \subseteq Bookings
    /\ booking \in [DOMAIN booking -> Row]
    /\ sub \in [Masters -> SubRow]
    /\ slot \in [Masters -> Durations]
    /\ trialJobs \in [Masters -> Nat]
    /\ outbox \subseteq Job
    /\ task \in [Tasks -> Task]
    /\ DOMAIN ordered \subseteq Masters
    /\ ordered \in [DOMAIN ordered -> Nat]

\* However creations and reschedules interleave, two live bookings of one
\* master never share an instant (both use cases leave it to the constraint).
NoOverlap ==
    \A b, o \in Rows :
        b # o /\ booking[b].status \in Live /\ booking[o].status \in Live
            => ~Clash(booking[b], booking[o])

\* A booking's status only takes the steps of its life cycle, whatever stale
\* status a reviewing, cancelling or rescheduling handler acts upon: a decision
\* is never reversed and a booking that ended never comes back.
LifeCycle ==
    [][\A b \in Rows :
          booking'[b].status # booking[b].status =>
             \/ booking[b].status = "PENDING"
             \/ booking[b].status = "CONFIRMED" /\ booking'[b].status = "CANCELLED"]_vars

\* Attendance is on record only for a booking that was confirmed and whose
\* session is over by the start the row has now, not by the one it once had.
AttendanceAfterTheFact ==
    \A b \in Rows :
        booking[b].outcome # "UNKNOWN" =>
            /\ booking[b].status \in {"CONFIRMED", "CANCELLED"}
            /\ booking[b].start + booking[b].dur <= now

\* What the outbox tells a client about a decision is what was decided, even
\* when the message was enqueued after other handlers touched the booking; so
\* no client is told both that a booking was confirmed and that it was declined.
JobsTellTheTruth ==
    \A j \in outbox :
        /\ j.booking \in Rows
        /\ j.event \in {"created_confirmed", "confirmed"} =>
              booking[j.booking].status \in {"CONFIRMED", "CANCELLED"}
        /\ j.event = "declined" => booking[j.booking].status = "DECLINED"
        /\ j.event = "cancelled_by_master" => booking[j.booking].status = "CANCELLED"

\* A booking starts a trial for a master without a subscription.  A row that came while
\* the first booking was under way is written over, for the upsert asks nothing: then the
\* trial of another first booking moves by a day at the most, or it is the row of a grant
\* no older than the handler.  Paid time is never touched, no trial is cut short, and a
\* master who is Pro without an end stays so.
TrialNotRenewed ==
    [][\A m \in Masters :
          booking' # booking /\ sub'[m] # sub[m] =>
             /\ sub'[m].paid = sub[m].paid
             /\ sub'[m].trial >= sub[m].trial
             /\ ~LifetimePro(sub[m])
             /\ \/ sub[m] = NoSub
                \/ sub[m].trial # Null /\ sub'[m].trial <= sub[m].trial + DayLen
                \/ sub[m].trial = Null /\ m \in DOMAIN ordered /\ now <= ordered[m] + 1]_vars

\* A handler that has begun comes to an end: waiting for another handler's
\* uncommitted insert is never waiting for ever.
HandlersFinish == \A t \in Tasks : task[t] # Idle ~> task[t] = Idle

\* Concurrent creations take the bookings of a month past the free limit by no more than
\* the other handlers in flight: a booking that its handler began in the month it is of,
\* for a master who was never Pro, does not find more when it is committed.  (Those of
\* later months are not limited when they are made.)
QuotaOvershoot ==
    \A t \in InFlight("inserted") :
        LET row == task[t].row IN
            NeverPro(row.master) /\ MonthOf(row.start) = MonthOf(task[t].began) =>
                MonthUsage(row.master, MonthOf(row.start)) + 1
                    <= FreeBookings + Cardinality(Tasks) - 1

\* "Enforces that the booking is active (PENDING/CONFIRMED)": a reschedule never
\* moves a booking that has been cancelled or declined.
OnlyLiveBookingsMove ==
    [][\A b \in Rows :
          booking'[b].start # booking[b].start => booking[b].status \in Live]_vars

-----------------------------------------------------------------------------
(* The promise of Calendar, read off the rows. *)

View(b) ==
    IF b \notin Rows THEN [state |-> "unused"]
    ELSE IF booking[b].status \in Live
         THEN [state |-> "held", master |-> booking[b].master,
               start |-> booking[b].start, dur |-> booking[b].dur]
         ELSE [state |-> "released"]

Promise == INSTANCE Calendar WITH book <- [b \in Bookings |-> View(b)]

\* Whatever the interleaving, what a step does to the rows is a step of the
\* calendar: it takes, shifts or gives up the slot of one booking.
KeepsPromise == Promise!Spec

=============================================================================
