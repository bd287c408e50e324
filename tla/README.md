# Formal model of retention_bot

`retention_bot` is a Telegram bot with which a *master* (a hairdresser, a
manicurist) keeps a calendar of bookings and *clients* book slots in it. It is
Python 3.13 on asyncio and aiogram, with PostgreSQL (SQLAlchemy, READ COMMITTED)
and Redis. Three processes share the database: the bot (`src/main.py`), the
reminders worker (`src/workers/reminders.py`) and the payments worker
(`src/workers/payments.py`). Paths below are relative to the repository's `src/`
package (`src/handlers/...` is `handlers/...`).

## 1. Inventory

| Component | State | Operations | Hard behaviour | Modules |
|---|---|---|---|---|
| Booking lifecycle (`repositories/booking.py`, five use cases, two cancelling handlers) | `bookings` | create by client or master, reschedule, confirm or decline, cancel by either side, mark attendance | check-then-write; an exclusion constraint is the only guard of the calendar; notices in a second transaction | `Bookings`, `Calendar` |
| Entitlements (`use_cases/entitlements.py`, `repositories/subscription.py`) | `subscriptions` | plan, quotas, trial, grant, revoke | quota read, then insert; trial started once | `Entitlements` |
| Outbox and reminders worker (`repositories/scheduled_notification.py`, `workers/reminders.py`) | `scheduled_notifications` | enqueue, upsert, reserve, send, finalise, cancel, snooze, retry | crash between reserve and finalise; rows re-armed while being sent | `Outbox`, `Reminders` |
| Payments and admin grants (`use_cases/create_pro_*`, `check_pro_payment.py`, `workers/payments.py`, `handlers/admin.py`) | `payment_invoices`, paid time | issue, check, poll, credit, tell | user and worker check one invoice; the provider, Telegram or the process fails in between | `Payments`, `Ledger` |
| Invites, clients and registration (`use_cases/accept_client_invite.py`, `create_client_offline.py`, ...) | `invites`, `clients`, `master_clients` | invite, accept, enter by hand, merge, edit a phone, delete | an invite followed twice; a client merged away under a booking | `Clients` |
| Free slots and time (`schedule.py`, `datetime_utils.py`, `use_cases/master_free_slots.py`, settings and overrides) | hours, zones, `workday_overrides` | list slots, offer, book, move, override a day | lists that grow old; days of two zones; bookings longer than a slot | `Workdays` |
| Conversation dialogs (`handlers/**`) | FSM state and data in Redis, the messages on the screen | every step of nine dialogs | old buttons, failed edits, handlers cut short, mixed dialogs | `Chat`, `BookingDialogs`, `ProfileDialogs`, `EditDialogs`, `Dialogs` |
| Rate limiter, bot process, watchdog, alerts, audit log, texts, lists, migrations, settings | | | | see 9 |

Interactions. A handler opens a transaction, runs a use case in it, and after
the commit tells the other party: a master directly, a client through a row of
the outbox written in a second transaction. The reminders worker polls the
outbox, re-reads the booking the row is about and sends or drops the message; it
also refreshes the reminders. The payments worker polls the provider for open
invoices and credits the subscription, which the entitlement checks of every
booking and every new client read. A dialog keeps what was picked in Redis and hands
it to a use case only at its last button; until then everything may have changed.

Correctness, by component: no two live bookings of a master share an instant, and
statuses follow a life cycle; a message says what was decided and is delivered once; a
payment is credited once and its payer told; an invite lets one user in, and a client's
history follows him; a slot offered is one that can be worked; a button does what its
message says, and a dialog always leaves a way on.

## 2. Modules, and how they fit

```
Calendar <---refines--- Bookings ---EXTENDS---> Entitlements <---EXTENDS--- Payments ---refines---> Ledger
                                                Outbox <---INSTANCE--- Reminders
Clients     Workdays
Chat <- BookingDialogs, ProfileDialogs, EditDialogs <- Dialogs
```

`MC*` modules hold the constants of the runs. The proofs about a component are in a module
that EXTENDS it: `BookingsProofs`, `OutboxProofs`, `PaymentsProofs`, `ClientsProofs`,
`WorkdaysProofs`, `RemindersProofs` (which instances `OutboxProofs`), and `ChatProofs`, whose
lemmas `DialogsProofs` extends. What two modules share is modelled in full in one of them
and as an atomic step in the other:
`Reminders` takes the handlers of `Bookings` as single steps, `Workdays` the insertion of a
booking as the one transaction `Bookings` shows it to be safe as, `Dialogs` a use case as
any of its outcomes. No module uses a RECURSIVE operator.

## 3. Bookings

| Variable | Code |
|---|---|
| `booking` | committed rows of `bookings` |
| `sub` | the `subscriptions` row of each master (`plan = "NONE"`: no row) |
| `slot` | `masters.slot_size_min` |
| `trialJobs` | the trial end from which a master's trial reminders were computed |
| `outbox` | client notices enqueued, as their deduplication keys (event, booking, start) |
| `task` | the handlers in flight: what each has read and what it does next |
| `now` | the clock |
| `ordered` | history: when a master's paid time was first granted or revoked |

Every use case reads and checks, then issues one conditional write, then commits
(`core/sa.py:82`). Under READ COMMITTED another handler can commit between the read and
the write, so a use case is a *check* action (`CreateCheck`, `MoveCheck`, `ReviewCheck`), which
stores in `task` what was read, and a *commit* action that evaluates the condition of the
UPDATE on the rows of that moment. A conditional UPDATE that repeats every check
(`cancel_by_client`, `set_attendance_if_ended_and_confirmed`) is one action. An insert
keeps its transaction open for another read, so creation has three: `CreateInsert` puts
the row in `task`, where readers do not see it but where it is in the way of every
conflicting writer (`MustWait`: PostgreSQL makes that writer wait), and `CreateCommit` makes
it visible. The client is told in a further transaction, `Announce`, from what the handler
remembers; the master's cancellation reads the booking again first. `Crash` kills the bot
between any two steps. Payments and administrators write the same subscriptions: `Grant`
and `Revoke` are `grant_pro` and `revoke_pro`, in one step each (the way there is in `Payments`).
They come between any two steps of a handler, so also between `get_by_master_id is None`
(`use_cases/create_client_booking.py:275`) and the upsert of the trial five lines down, which
writes over their row. `TrialNotRenewed` says what that may cost. Who is whose client (`Attached`) is fixed here and changes in
`Clients`; `Notifiable` are the pairs for which the policy's toggles are on.

Bounds. `MaxNow` bounds the clock; starts lie around it so that bookings end, pass and are
booked ahead. In `Bookings_core` they are 1 and 3 with slots of two: two bookings want the same
slot or slots that abut, and a booking is moved to one that is taken. A month there is three
ticks, so the clock and the two starts cross its end, between the count and the insert too. Slots that overlap in
part are left to the theorem `NoOverlapHolds`. `PaidUntils` are the ends a grant may name
and `LastOrder` the last tick on which one is given or revoked: in `Bookings_core` a grant up to
tick 1 at tick 0, as often as one likes and among revocations, so that it comes before, between
and after the steps of two first bookings and has run out, or been revoked, while they commit;
in the other runs there is none. `IdsLeft` lets an insert begin only when an id is left. `Tick` lets a handler
outlive at most one tick and `Durations` excludes lengths 0 and 1: a tick is at most half
the shortest slot, and slots have at least five minutes (`handlers/master/settings.py:1002`),
so a handler takes less than two and a half minutes. `AttendanceAfterTheFact` depends on it.
Two handlers show every conflict between two transactions, since each writes one row. The
model assumes that the handlers in flight are finitely many; `QuotaOvershoot` counts them.

`QuotaOvershoot` speaks of creations for the month they are made in, since that is the month
`can_create_booking` counts: of those, racing ones exceed the limit by at most the other
handlers in flight. Bookings for later months have no limit when they are made (see 8).

Fairness (`FairSpec`): weak fairness of the next step of a handler that has begun. asyncio
resumes a coroutine whose await completed, PostgreSQL wakes a writer when the
transaction it waits for ends. Nothing is assumed of users, of the clock or of crashes.

## 4. The outbox: `Outbox` and `Reminders`

`job` is the table, one row per deduplication key; `worker` is what each instance of
`run_loop` has reserved (`batch`), which job it is sending (`key`) and what `_send_job`
returned (`result`); `armed` and `delivered` count, per key, how often a row was inserted or
upserted and how many messages went out. Keys fall into three kinds by the conflict clause
of their INSERT: `Once` (do nothing), `Refreshed` (update unless sent), `Snoozed` (update
always). One action, `Enqueue`, stands for every transaction of the bot: it cancels live rows,
then arms others. The worker's tick is `Reserve` (SKIP LOCKED), then for each job `Take` (facts
and policy), one of `Deliver`, `DeliverRefused`, `SendError`, and `Finalize`, an UPDATE by id
alone; after an error `ReadAttempts` comes first, the SELECT by which `reschedule_after_error`
decides, without a lock, whether there is a next time. No transaction is open while a message is sent, so the bot's transactions come
between any two of these. `Die` loses what a worker had in hand, `FinalizeFails` the UPDATE.
`Faults` says which a run has. An exception of `send_message` other than Telegram's is
taken to come before the message went out.

`Reminders` is an instance `Box` of `Outbox`: every action of it is an action of `Box` with a
condition on the booking, or leaves the outbox alone. It adds the bookings of a Pro master,
the two notification settings (`on`), the notices between a handler's commit and its second
transaction (`notices`, lost by `Forget`) and the start a snoozed nudge was armed with.
`RefreshSchedule` inserts the reminders and nudges, `Take` asks what `_send_job` asks. The plan is
constant, so `plan_cache` has no effect. `silenced` is history. That every step of
`Reminders` is one of `Outbox` or none is proved (`RefinesOutbox`). The offsets of reminders and
nudges, the snooze and the two windows of the refresh are any natural numbers.

Bounds. `Horizon` bounds the clock (`By` makes later dues fall due then), `MaxArmings` how often
a key is armed again, `MaxMoves` how often a booking is moved, `Switchable` the settings a run
switches. Two attempts and two armings, with one more tick than the backoff, show every
overlap of a retry and a re-arming, the one included that gives a job an attempt too many:
one worker reads the attempts, the job is snoozed, another takes its last attempt, and
the first puts it back. `Rivals` counts how often that can be. `Lookback` exceeds `Horizon`: a worker that is down for a
week (`ATTENDANCE_NUDGES_LOOKBACK_DAYS`) does lose nudges. `Morning` gives the quiet hours.

Fairness. Weak fairness of each worker's loop and of the clock, nothing of users. `Reminders`
adds strong fairness of `RefreshSchedule`: the loop passes the refresh before every batch.
`EveryJobSettles` excepts a job whose worker died with it in hand or could not record its end
(`Orphaned`): its row stays in SENDING and nothing in the code takes it up again.

## 5. Payments: `Payments` and `Ledger`

`invoice` are the rows, `provider` what ExpressPay says of each, `sub` the subscriptions, `task` the
callbacks and workers in flight, `due` the invoices a worker's tick has still to look at,
`job` the reminders of an end or an invoice, `credits` and `orders` histories. A request for an
invoice reuses a waiting one or asks the provider and writes the row (`StartPro`, `RenewPro`,
`NewInvoice`, `Issue`). A check asks the provider, reads the subscription, then takes the row's
lock, reads it again and credits (`CheckInvoice`/`Process`, `FindPaid`, then `CheckCredits` for
the handler, `PollCredits`, `Tell`, `MarkNotified`, `PollCommits` for the worker): the handler commits
before it tells the master, the worker tells him before it commits, and a failure of the
message rolls the credit back. `ProviderFails`, `SendRefused` and `Death` may strike between any
two steps; `Grant` and `Revoke` are the administrator's, with no lock at all.

`NeverOverCredited` bounds paid time from outside: no subscription lasts longer than the
days of its owner's credited invoices, laid end to end after the end of a trial or of paid
time that the rows began with, after an administrator's order, or from today.

`Ledger` is what billing promises: credits follow payments, at most one for each, and only
they and the administrator's orders move anybody's paid time. `Payments` refines it
(`KeepsLedger`): the paid invoices of the table are the credited ones, the invoices the provider
has the money of are the settled ones.

Bounds: one invoice of one master who starts on a trial, one callback and one worker,
one order of twice the days a payment buys (so that a credit may come upon more paid time
than it gives), three ticks of which two make a day. Two checkers of one invoice are what the lock
and the re-read are for; a second invoice is left to the theorems (8), which are for any
number. `Lifetime` is two ticks, so that invoices expire unpaid, paid and half checked.

Fairness. The worker's loop polls (weak); its steps on an invoice are strongly fair: neither
the provider, nor Telegram, nor the machine fails the worker every single time. Callbacks
end. Nothing is assumed of the master. `PayerIsTold` excepts an invoice whose window closed
before anybody looked: `list_due` drops it.

## 6. Clients and working days

`Clients`. `client`, `attached`, `invite`, `booking` are the tables (a booking as far as it names its
client), `pro` the masters without a limit. The job that asks a master for his first client waits
(`nudged`) or is in the worker's hand (`inhand`); it stands for each of the three of the chain, which
differ in when they are due. The first client, and any booking, cancels it, but the worker is not
told: it sends what it holds, or puts it back to PENDING by its id, cancelled or not. `late` is the
history of those, and `FirstClientEndsNudging` says there are no others. Accepting an invite reads (`Resolve`), consumes the invite with a conditional UPDATE that holds the row's lock
(`Consume`), then writes and commits; entering a client, editing a phone and inserting a
booking are a check and a write each. The four outcomes of an acceptance are those of
`_resolve_client_ctx` and `_apply_attach`: a new client, a known one, one held by hand who gets the
Telegram account, or one merged into another with his bookings. A rolled back
transaction is a step of its own; deletion of personal data cascades. `raced` and `admitted` are
histories. Bounds: two handlers, two users, two phones, two clients and two invites of one
master with a limit of one client: the least that holds a merge, a limit and a link
followed twice at once. The limit and the phones of a master are checked before they are
written, which is why `QuotaUnlessRaced` and `OnePhoneUnlessRaced` except a handler that was
overtaken. The phones have a second exception, `FromOldCard` (see 8). `FirstClients` is any set of
tables in which a Telegram user has one row, as the unique key on `telegram_id` has it.

`Workdays`. `hours`, `zone`, `override`, `booking` are tables, `sheet` each user's dialog with the list
it was given. The grid, the busy intervals and the day of a client are the functions of
`schedule.py` and `datetime_utils.py`; `FreeListIsExact` states what they should compute without
them. Overrides are checked in one transaction and written in another (`Check`,
`ApplyOverride`); settings are written without a check. `excused` names the bookings for which
the code does not keep to the hours, each with its reason. Bounds: two days of three steps,
slots of one or two steps, a client up to two steps east, two bookings, two changes of
settings, zones or overrides. An offset of two steps of three moves a day boundary, a slot of
two steps does not divide the window, and two changes put one between listing and
confirming and another after. Daylight saving is left out: an offset does not change within
a day.

## 7. Dialogs

`Chat` is one user's conversation state (`fsm`: state, keys of the data, the day listed, the slot
picked, the client selected) and the messages with buttons he can reach (`chat`: what kind,
what they show, whether they are in the dialog's bucket, whether they are its `front`, the
one it last drew or tried to). The two drift apart, and that is the subject: an edit may fail
and is only logged (`lost`), deletions are best effort (`Swept`), an old message keeps its
buttons, and a handler may be cut short after it wrote the data and before it set the
state (`CutShort`). A button is tapped (`On`) if the message has it and the router has a handler
for it in this state. What buttons a message has, in which states the router hears a button,
and what data a state needs are relations (`Keyboards`, `Filters`, `...Needs`), one piece per
dialog, each next to the dialog it is about.

`BookingDialogs`: a client books, a master books for a client, a master moves a booking.
`ProfileDialogs`: registration of either role with its consent, a client entered by hand,
the override of a day. `EditDialogs`: a master finds a client and changes his name or phone,
either role's settings, a client's name for a master, deletion of personal data. `Dialogs` puts
them on one state and one chat, with cards, the close button and the menu. A use case is
any of its outcomes; everything typed is valid or not; a list of times is the day it is for.

One user at a time is enough, and a handler is one step, because the dispatcher
isolates the events of one user (`main.py:36-46`, a lock of 60 seconds) and his data are his
own. A user keeps one role: switching clears the state, which is `Abandon`. The pages of the
settings are one kind of message, and which message their reference names is left open.

Bounds: the last two messages (`MaxScreens`), two days, two clients to edit. A message besides
the dialog's own is what every confusion of an old with a new one takes. A handler is
cut short once while the same data lives (`halted`): the properties except what follows from
it, and say so.

## 8. What is checked and proved

### Runs

| Run | Shows | Instance |
|---|---|---|
| `Bookings_core` | `TypeOK`, `NoOverlap`, `AttendanceAfterTheFact`, `QuotaOvershoot`, `LifeCycle`, `TrialNotRenewed`, and that the rows implement `Calendar` (`KeepsPromise`) | 3 bookings, 2 handlers, clock to 3, limit of one, with and without a subscription row, grants and revocations on the first tick |
| `Bookings_notices` | `JobsTellTheTruth`; `HandlersFinish` under `FairSpec` | 2 bookings, 2 handlers, Pro |
| `Bookings_moved_after_cancel` | a disagreement (below) | 2 bookings |
| `Outbox_core` | `AtMostOncePerArming`, `OnceEver`, `AttemptsBounded`, `EveryJobSettles` | 2 workers, all faults, a nudge and its snooze |
| `Reminders_nudges` | `SilencedIsQuiet` with all faults, both nudges | 1 booking, clock to 5 |
| `Reminders_forgotten` | `ForgottenGetsNudged` under `FairSpec` without faults; `SilencedIsQuiet` of a booking that moves | 1 booking, 1 move |
| `Payments_core` | `CreditedOnce`, `NeverOverCredited`, `KeepsLedger`, `PayerIsTold` | 1 invoice, a callback, a worker, all faults |
| `Clients_core` | `InviteAdmitsOnce`, `BookingsFollowTheMerge`, `MergeKeepsHistory`, `QuotaUnlessRaced`, `OnePhoneUnlessRaced`, `FirstClientEndsNudging` | see 6 |
| `Workdays_core` | `InsideHours`, `FreeListIsExact`, `RefusedOnlyIfTaken` | see 6 |
| `Workdays_picked_day` | a disagreement | no changes |
| `Dialogs_core` | `ContextIsKept`, `ConfirmIsTakenUp`, `DoesWhatItShows`, `NoDeadButton`, `AlwaysAWayOn`, `ConsentComesFirst` | see 7 |
| `Dialogs_old_screen` | a disagreement | as above |

Deadlock is not checked where the clock, the armings or the changes of a run end.

### Proofs

The theorems are for every value of the constants that the `ASSUME`s of the modules allow:
any number of masters, clients, handlers and workers, any clock, any combination of faults.

Every invariant and every action property of the passing runs is a theorem.

* `BookingsProofs`. `TypeCorrect` needs `TasksNameRows`: ids are handed out once, and no handler
  outlives its row. `NoOverlapHolds` is not inductive, because the commit of an insert checks
  nothing; `SlotsInv` says of the uncommitted inserts what `NoOverlap` says of the rows.
  `RowsStep` lists what a step can do to a row, and from it follow `LifeCycleHolds`,
  `PromiseKept` (`Bookings` refines `Calendar`), and, with what the other handlers in flight still
  know, three more: `AttendanceHolds` (`TimeInv`: a move that is still to be written is of
  a booking too recent to have been attended), `TrialNotRenewedHolds` (`TrialsInv`: a trial
  about to start finds no subscription, or a trial or an order that came since its handler
  found none, and whoever orders leaves a row, so that `ordered` dates the first) and `JobsTellTheTruthHolds`
  (`NoticesInv`: what is about to be announced was decided and stays so). The first two rest on the
  bound of a handler's life by a tick. `QuotaOvershootHolds` needs `QuotaInv`: a creation that is
  let begin found the month unspent, so what counts in the month and what is under way,
  together, can grow past the limit only one handler at a time; moves, which could bring in
  bookings from another month, are of masters on Pro, who have no limit.
* `OutboxProofs`. `AtMostOncePerArmingHolds` counts: what was delivered, what workers hold
  unsent and a row that waits never exceed the armings (`CopiesInv`). A crash, a failed
  update and a snooze can only lower the left side or raise both. `OnceEverHolds` adds that
  a key of kind `Once` is armed once; `AttemptsBoundedHolds` needs `AttemptsInv`,
  which counts the workers that have read the attempts and will put the row back: when the
  last attempt is taken each of them holds the key, and so does the worker that takes it,
  and `CopiesInv` bounds the holders by the armings; after that nobody joins them.
* `RemindersProofs`. `RefinesOutbox` maps every step of `Reminders` to a step of `Outbox` or none, and
  `OutboxPromisesHold` carries the three theorems above over to the rows of bookings. For
  `SilencedIsQuietHolds` the invariant says of a message silenced that it is pointless by the
  facts the worker asks for, or `Settled`: its job was cancelled with no worker on it, and
  no refresh arms it again, because the nudges of a booking are armed together and once, after
  its end (`NudgesInv`); and that nobody holds it unsent.
* `PaymentsProofs`. A check credits what it was told before it had the lock, so `CreditedOnceHolds`
  needs `ChecksInv`: answers of the provider stand, an uncommitted credit is of a paid invoice that is
  not credited yet, and no two checks hold one invoice. `LedgerKept` shows every step to be
  one of `Ledger` or none; a credit rolled back is none. `NeverOverCreditedHolds` needs
  `DaysInv`: a credit adds days to a reading that may be old, so it says of every reading in
  flight what the property says of the rows; by `ChecksInv` the invoice it then credits had
  not been counted.
* `ClientsProofs`. `InviteAdmitsOnceHolds` needs that the use of an invite is had by one handler
  (`LocksExclude`), `BookingsFollowTheMergeHolds` that a client about to be booked is attached yet,
  deleted, or merged away under the handler (`BookersKnow`). `MergeKeepsHistoryHolds` follows with them.
  `FirstClientEndsNudgingHolds` needs that whose clients a handler saw when it consumed the invite is
  not waiting to be asked for the first (`HadStands`), since the handler then leaves the jobs alone. Ids of masters and of clients are assumed distinct.
  `QuotaUnlessRacedHolds` and `OnePhoneUnlessRacedHolds` say of each handler what it still knows
  unless it was overtaken: how many clients there were, and who had the phone.
* `WorkdaysProofs`. What is written was decided from a list or a check made before. `SheetInv`
  says, dialog by dialog, what that still guarantees: a list no change of hours has
  overtaken fits the hours (`ListFits`), one that nothing has overtaken is the one that would be
  made now (`ListCurrent`), a check no booking has overtaken still holds (`CheckHolds`).
  `InsideHoursHolds`, `FreeListIsExactHolds` and `RefusedOnlyIfTakenHolds` follow, for any days,
  lengths of a day, zones and slots; the lemmas are about days, the grid and clashes.
* `DialogsProofs`, with the lemmas about tables and messages of `ChatProofs`. The invariant has two
  parts: `Data`, what the state asks of the data unless a handler was cut short, and `Fitting`,
  that each message on the screen says nothing the data do not. It is shown for every step of
  every dialog, and with it `ContextIsKeptHolds`, `ConfirmIsTakenUpHolds`, `NoDeadButtonHolds`,
  `AlwaysAWayOnHolds`, `ConsentComesFirstHolds` and `DoesWhatItShowsHolds`, for any days, clients
  and number of messages.

Only model-checked: the liveness properties (`HandlersFinish`, `EveryJobSettles`,
`ForgottenGetsNudged`, `PayerIsTold`), since fairness and ENABLED are out of the prover's reach, and
the three disagreements, which are counterexamples.

### Disagreements, with a run

* **A cancelled booking can be moved.** `repositories/booking.py:368` updates by id and master
  only, so a booking cancelled after the check is moved and its client told of a new time.
* **The times of another day.** `datetime_utils.py:22` takes the master's day on which the
  client's midnight falls: a client east of his master picks a day and is offered, under
  its date, the evening before.
* **An old confirmation books the new slot.** The button carries no slot
  (`handlers/client/booking.py:737`): a confirmation left open books what a newer dialog
  picked.

### Disagreements noted while modelling, without a run

* *Payments.* Two paid invoices checked at once read `paid_until` before either lock
  (`use_cases/check_pro_payment.py:220`): the second adds nothing. The worker's message sent
  inside the transaction rolls the credit back when Telegram refuses
  (`workers/payments.py:180`); the next poll credits again. `sub:pro` and `sub:trial` reminders
  once SENT are not re-armed for a second period (`repositories/scheduled_notification.py:375`).
* *Quota.* `can_create_booking` counts the month of *now* (`use_cases/entitlements.py:116`):
  bookings for next month are never limited.
* *Subscriptions.* A grant or a credit that lands between the read and the upsert of a first
  booking (`use_cases/create_client_booking.py:275-280`) is written over: the plan becomes FREE
  and a trial is added (`repositories/subscription.py:27-37`). The paid time stays, and counts,
  because `get_plan` (`use_cases/entitlements.py:95-107`) and the scheduling of nudges
  (`repositories/scheduled_notification.py:561-571`, `665-673`) look at the plan only where
  neither date is set.
* *Outbox.* `mark_sent` (`repositories/scheduled_notification.py:792`) updates by id: a snooze taken
  while its row is being sent is recorded as sent. A booking moved to B, to A and to B again
  is announced twice only, since the key names event, booking and start. A message Telegram
  refuses counts as sent (`notifications/service.py:51`). Two workers and a snooze get past
  `max_attempts` (`repositories/scheduled_notification.py:831-861`): the row is put back by its
  id on attempts read before.
* *Clients.* `_update_phone_for_master` (`handlers/master/edit_client.py:947`) asks the master's
  own clients only, and is given the `telegram_id` the dialog has kept
  (`handlers/master/edit_client.py:1084`). A master whose card is older than the client's
  registration edits the phone of a Telegram user, which other masters' clients may have.
  Two merges of one held row take the count past the limit; a booking checked
  before a merge and inserted after it stays with the client merged away.
* *Registration.* After an IntegrityError `CompleteMasterRegistration` queries in the failed
  session; the restart of a master's registration takes its user from the bot's own message.
  A menu label typed into a registration form is stored as an answer. Deletion of personal
  data cut short before the state is cleared lets a registration that is open go on without
  a consent.
* *Dialogs.* `_deny_phone_edit` (`handlers/master/edit_client.py:1003`) leaves out a required
  argument. Buttons of an old edit menu edit the client selected since. "Back" from the
  alias question keeps its state, so what is typed next becomes the alias; closing old
  settings ends a booking dialog that is running and leaves its buttons dead. The cancel
  button of a client's consent screens has no handler in their states. The month shown is
  kept under a key that is never read (`handlers/master/add_booking.py:236`).
* *Working days.* Settings are saved without the check for conflicts that overrides have; a moved
  booking keeps its length; `_conflicts_for_window` (`handlers/master/workday_overrides.py:212`)
  compares times of day, and a booking past midnight wraps.

## 9. Not modelled

* Rate limiter: it drops some of a user's taps, which the dialogs may or may not make anyway,
  and lets all through when Redis fails.
* Bot process and watchdog: the order of routers and the isolation of events are in `Chat`; the
  rest adds loggers and sends alerts.
* Start, menus and lists, with their pagination: they read what others write. What they change
  (a card opened, the state left) is in `Dialogs` and `Clients`.
* Signing of provider calls: `Payments` takes the provider as external.
* Alerts, audit log, texts, logging, metrics, settings: no state that anything reads back.
* Migrations: the exclusion constraint and the unique keys are in the modules that rely on them.
* The onboarding jobs that ask for a first booking, and the button that turns the onboarding off;
  the batch size and the recheck interval of the payments
  worker (a tick may leave any invoice for later); the month calendar's navigation and the
  horizon of days; daylight saving; names.
