------------------------------ MODULE Payments ------------------------------
(***************************************************************************)
(* Buying Pro: invoices at the provider (ExpressPay), the master who asks  *)
(* for one and checks it (handlers/billing.py), the payments worker that   *)
(* polls the open ones (workers/payments.py), the administrator who grants *)
(* and revokes (handlers/admin.py), and the reminders that follow          *)
(* (repositories/scheduled_notification.py, workers/reminders.py).         *)
(*                                                                         *)
(* A check asks the provider and reads the subscription, then locks the    *)
(* invoice, reads it again and credits it.  The master's handler commits   *)
(* before it says so; the worker says so before it commits.                *)
(*                                                                         *)
(* An `until` that falls within a tick stands for the end of the tick.     *)
(***************************************************************************)
EXTENDS Entitlements, FiniteSets

CONSTANTS
    Masters, Invoices, \* an invoice is the id of its row
    Owner,          \* whose the row with this id is going to be
    Handlers,       \* callbacks of masters in flight
    Pollers,        \* instances of the payments worker
    ProDays,        \* BILLING__PRO_DAYS
    Lifetime,       \* how long an invoice can be paid, in ticks
    Eleven,         \* the tick of a local day in which it is 11:00
    Ahead,          \* lookahead of the refresh, in ticks
    ProSteps, TrialSteps, \* bound: the reminders followed, as days before the end
    GrantDays,      \* bound: what the administrator grants
    FirstSubs,      \* bound: the subscription rows to begin with
    Faults,         \* what may go wrong: of "provider", "refused", "death"
    NoInvoice,
    MaxOrders,      \* bound: how many orders the administrator gives
    MaxNow          \* bound on the clock

ASSUME PaymentConstants ==
    /\ Masters # {}
    /\ Invoices \subseteq Nat
    /\ Owner \in [Invoices -> Masters]
    /\ Handlers \cap Pollers = {}
    /\ ProDays \in Nat \ {0}
    /\ Lifetime \in Nat \ {0}
    /\ Eleven \in 0 .. DayLen - 1
    /\ Ahead \in Nat
    /\ ProSteps \subseteq {5, 2, 0, -1}
    /\ TrialSteps \subseteq {3, 1, 0}
    /\ GrantDays \subseteq Nat \ {0}
    /\ FirstSubs \subseteq SubRow
    /\ Faults \subseteq {"provider", "refused", "death"}
    /\ NoInvoice \notin Invoices
    /\ MaxOrders \in Nat
    /\ MaxNow \in Nat

VARIABLES
    now,        \* the clock
    sub,        \* the subscriptions row of each master
    invoice,    \* the payment_invoices row of each id
    provider,   \* what the provider says of the invoice
    task,       \* what each handler and worker is doing
    due,        \* the invoices a worker's tick has still to look at
    job,        \* the outbox rows that remind of an end or of an invoice
    credits,    \* history: how often each invoice was credited
    orders      \* history: how many orders the administrator gave

vars == <<now, sub, invoice, provider, task, due, job, credits, orders>>

-----------------------------------------------------------------------------
Checkers == Handlers \cup Pollers

Row == [status : {"ABSENT", "WAITING", "PAID", "EXPIRED", "CANCELED"},
        expires : Nat, notified : BOOLEAN]

\* "LOST": the provider knows no such invoice
Answers == {"WAITING", "PAID", "EXPIRED", "CANCELED", "LOST"}

\* who and inv: for whom, about which invoice; seen, base, at: what the
\* provider answered, the subscription read after it and when; locks: the
\* transaction holds the lock of the invoice's row
Task == [step : {"idle", "issuing", "asked", "crediting", "sent", "telling", "told"},
         who : Masters, screen : {"tariffs", "message"},
         inv : Invoices \cup {NoInvoice},
         seen : {"NONE"} \cup Answers, base : SubRow, at : Nat, locks : BOOLEAN]

\* the rows of the outbox this module keeps
JobKeys ==
    [kind : {"pro"}, master : Masters, step : ProSteps]
        \cup [kind : {"trial"}, master : Masters, step : TrialSteps]
        \cup [kind : {"invoice"}, inv : Invoices]

JobRow == [status : {"ABSENT", "PENDING", "SENT", "CANCELLED"}, due : Int]

Idle == [step |-> "idle", who |-> CHOOSE m \in Masters : TRUE, screen |-> "message",
         inv |-> NoInvoice, seen |-> "NONE", base |-> NoSub, at |-> 0, locks |-> FALSE]

May(fault) == fault \in Faults

Init ==
    /\ now = 0
    /\ sub \in [Masters -> FirstSubs]
    /\ invoice = [i \in Invoices |-> [status |-> "ABSENT", expires |-> 0, notified |-> FALSE]]
    /\ provider = [i \in Invoices |-> "WAITING"]
    /\ task = [c \in Checkers |-> Idle]
    /\ due = [p \in Pollers |-> {}]
    /\ job = [k \in JobKeys |-> [status |-> "ABSENT", due |-> 0]]
    /\ credits = [i \in Invoices |-> 0]
    /\ orders = 0

-----------------------------------------------------------------------------
(* Rows and locks *)

Exists(i) == invoice[i].status # "ABSENT"

\* the payments worker keeps its transaction open while it sends
Locked(i) == \E c \in Checkers : task[c].inv = i /\ task[c].locks

\* an uncommitted credit also holds the subscription's row
SubLocked(m) ==
    \E c \in Checkers : /\ task[c].step \in {"crediting", "sent"}
                        /\ Owner[task[c].inv] = m

Waiting(m) == {i \in Invoices : Owner[i] = m /\ invoice[i].status = "WAITING"}

\* get_latest_waiting_for_master, dropped when its time is over
Payable(m) ==
    {i \in Waiting(m) : (\A j \in Waiting(m) : j <= i) /\ invoice[i].expires > now}

\* the last day of an `until`
LastDay(until) == (until - 1) \div DayLen

Max(S) == CHOOSE x \in S : \A y \in S : y <= x

\* Mutant: what is left of a trial is added to what is left of the paid time.
PaidUntilAddingTrial(s, at) ==
    EndOfDay((IF s.paid > at THEN LastDay(s.paid) ELSE DayOf(at) - 1)
                 + (IF s.trial > at THEN LastDay(s.trial) - DayOf(at) + 1 ELSE 0) + ProDays)

\* the paid time continues what is left of the paid time or of the trial
PaidUntil(s, at) ==
    EndOfDay(Max({DayOf(at) - 1}
                     \cup {LastDay(t) : t \in {u \in {s.paid, s.trial} : u > at}}) + ProDays)

\* ON CONFLICT DO UPDATE ... WHERE status <> 'sent'
Armed(row, at) == IF row.status = "SENT" THEN row ELSE [status |-> "PENDING", due |-> at]

Morning(day) == day * DayLen + Eleven

\* schedule_pro_expiry_reminders, schedule_trial_expiry_reminders
WithReminders(rows, kind, m, until) ==
    [k \in JobKeys |->
        IF k.kind = kind /\ kind # "invoice" /\ k.master = m
        THEN Armed(rows[k], Morning(LastDay(until) - k.step)) ELSE rows[k]]

\* schedule_pro_invoice_payment_reminder
WithInvoiceReminder(rows, i) ==
    LET k == [kind |-> "invoice", inv |-> i]
    IN  [rows EXCEPT ![k] = Armed(rows[k], Morning(DayOf(now) + 1))]

-----------------------------------------------------------------------------
(* Asking for an invoice: CreateProInvoice ("start"), which refuses a      *)
(* master on Pro, CreateProRenewalInvoice ("renew"), and "new", which      *)
(* never reuses.  Reached from the tariffs screen no reminder is armed.    *)

Begin(c, t) == task' = [task EXCEPT ![c] = t]

Done(c) == Begin(c, Idle)

Remembered(i, screen) ==
    IF screen = "message" THEN WithInvoiceReminder(job, i) ELSE job

AllowedTo(m, kind) == kind = "start" => ~IsPro(sub[m], now)

Reuse(h, m, kind, screen) ==
    /\ task[h].step = "idle"
    /\ kind # "new" /\ AllowedTo(m, kind)
    /\ \E i \in Payable(m) : job' = Remembered(i, screen)
    /\ UNCHANGED <<now, sub, invoice, provider, task, due, credits, orders>>

RequestInvoice(h, m, kind, screen) ==
    /\ task[h].step = "idle"
    /\ AllowedTo(m, kind)
    /\ kind # "new" => Payable(m) = {}
    /\ Begin(h, [Idle EXCEPT !.step = "issuing", !.who = m, !.screen = screen])
    /\ UNCHANGED <<now, sub, invoice, provider, due, job, credits, orders>>

\* the provider has made one: its row is inserted and committed
Issue(h) ==
    LET free == {i \in Invoices : Owner[i] = task[h].who /\ ~Exists(i)}
    IN  /\ task[h].step = "issuing"
        /\ \E i \in free :
               /\ \A y \in free : i <= y
               /\ invoice' = [invoice EXCEPT ![i] =
                      [status |-> "WAITING", expires |-> now + Lifetime, notified |-> FALSE]]
               /\ job' = Remembered(i, task[h].screen)
        /\ Done(h)
        /\ UNCHANGED <<now, sub, provider, due, credits, orders>>

-----------------------------------------------------------------------------
(* Checking one: CheckProPayment *)

\* Somebody's callback or the worker's turn has come to invoice i.
Ask(c, i) ==
    /\ Exists(i) /\ invoice[i].status # "PAID"
    /\ Begin(c, [Idle EXCEPT !.step = "asked", !.inv = i, !.who = Owner[i],
                             !.seen = provider[i], !.base = sub[Owner[i]], !.at = now])

\* Mutant: what the provider says is recorded as it is.
UnpaidVerbatim == [EXPIRED |-> "EXPIRED", CANCELED |-> "CANCELED", LOST |-> "LOST"]

\* The status update of an unpaid invoice is an UPDATE by id alone.
Unpaid == [EXPIRED |-> "EXPIRED", CANCELED |-> "CANCELED", LOST |-> "CANCELED"]

\* What a check that credits nothing ends in: a paid invoice that was not yet
\* announced is announced.
AfterReading(c, i, status) ==
    IF status = "PAID" /\ ~invoice[i].notified
    THEN Begin(c, [Idle EXCEPT !.step = "telling", !.inv = i, !.who = Owner[i],
                               !.locks = c \in Pollers])
    ELSE Done(c)

\* An early return: the row says PAID already.
AskPaid(c, i) ==
    /\ invoice[i].status = "PAID"
    /\ ~Locked(i)
    /\ AfterReading(c, i, "PAID")

RecordUnpaid(c) ==
    LET i == task[c].inv
        status == IF task[c].seen \in DOMAIN Unpaid THEN Unpaid[task[c].seen]
                  ELSE invoice[i].status
    IN  /\ task[c].step = "asked" /\ task[c].seen # "PAID"
        /\ ~Locked(i)
        /\ invoice' = [invoice EXCEPT ![i].status = status]
        /\ AfterReading(c, i, status)
        /\ UNCHANGED <<now, sub, provider, due, job, credits, orders>>

\* Mutant: the invoice is not read again under its lock.
CreditableUnread(c) ==
    /\ task[c].step = "asked" /\ task[c].seen = "PAID"
    /\ ~Locked(task[c].inv)

\* get_by_id_for_update: the row is read again once the lock is had
Creditable(c) ==
    /\ task[c].step = "asked" /\ task[c].seen = "PAID"
    /\ ~Locked(task[c].inv)
    /\ invoice[task[c].inv].status # "PAID"

FindPaid(c) ==
    /\ task[c].step = "asked" /\ task[c].seen = "PAID"
    /\ ~Locked(task[c].inv)
    /\ invoice[task[c].inv].status = "PAID"
    /\ AfterReading(c, task[c].inv, "PAID")
    /\ UNCHANGED <<now, sub, invoice, provider, due, job, credits, orders>>

\* grant_pro, the status and the reminders, in one transaction
Credited(c, notified) ==
    LET i == task[c].inv
        m == Owner[i]
        until == PaidUntil(task[c].base, task[c].at)
    IN  /\ sub' = [sub EXCEPT ![m] = GrantPro(@, until)]
        /\ invoice' = [invoice EXCEPT ![i].status = "PAID", ![i].notified = notified]
        /\ job' = WithReminders(job, "pro", m, until)
        /\ credits' = [credits EXCEPT ![i] = @ + 1]
        /\ UNCHANGED <<now, provider, due, orders>>

\* the callback commits, then tells
CheckCredits(h) ==
    /\ Creditable(h)
    /\ ~SubLocked(Owner[task[h].inv])
    /\ Credited(h, FALSE)
    /\ Begin(h, [Idle EXCEPT !.step = "telling", !.inv = task[h].inv, !.who = task[h].who])

\* the worker tells, then commits
PollCredits(p) ==
    /\ Creditable(p)
    /\ ~SubLocked(Owner[task[p].inv])
    /\ Begin(p, [task[p] EXCEPT !.step = "crediting", !.locks = TRUE])
    /\ UNCHANGED <<now, sub, invoice, provider, due, job, credits, orders>>

\* pro_paid_message
Tell(c) ==
    /\ task[c].step \in {"crediting", "telling"}
    /\ Begin(c, [task[c] EXCEPT !.step = IF @ = "crediting" THEN "sent" ELSE "told"])
    /\ UNCHANGED <<now, sub, invoice, provider, due, job, credits, orders>>

\* mark_paid_notified and the commit of what came before it
PollCommits(p) ==
    /\ task[p].step = "sent"
    /\ Credited(p, TRUE)
    /\ Done(p)

MarkNotified(c) ==
    /\ task[c].step = "told"
    /\ ~\E o \in Checkers \ {c} : task[o].inv = task[c].inv /\ task[o].locks
    /\ invoice' = [invoice EXCEPT ![task[c].inv].notified = TRUE]
    /\ Done(c)
    /\ UNCHANGED <<now, sub, provider, due, job, credits, orders>>

\* billing_pro_check
CheckInvoice(h, i) ==
    /\ task[h].step = "idle"
    /\ Ask(h, i) \/ AskPaid(h, i)
    /\ UNCHANGED <<now, sub, invoice, provider, due, job, credits, orders>>

-----------------------------------------------------------------------------
(* The payments worker *)

\* Mutant: paid invoices nobody was told of are not looked at again.
DueUntold == {}

\* notify once if the invoice is already paid
Untold == {i \in Invoices : invoice[i].status = "PAID" /\ ~invoice[i].notified}

StillOpen == {i \in Invoices : invoice[i].status = "WAITING" /\ invoice[i].expires > now}

\* _load_due_invoices; a worker remembers what the rows said
Poll(p) ==
    /\ task[p].step = "idle" /\ due[p] = {}
    /\ due' = [due EXCEPT ![p] = [inv : StillOpen, paid : {FALSE}] \cup [inv : Untold, paid : {TRUE}]]
    /\ due'[p] # {}
    /\ UNCHANGED <<now, sub, invoice, provider, task, job, credits, orders>>

Took(p, d) ==
    /\ task[p].step = "idle" /\ d \in due[p]
    /\ due' = [due EXCEPT ![p] = @ \ {d}]

\* _process_due_invoice: what was paid when the tick began is only announced
Process(p, d) ==
    /\ Took(p, d)
    /\ IF d.paid
       THEN Begin(p, [Idle EXCEPT !.step = "telling", !.inv = d.inv, !.who = Owner[d.inv]])
       ELSE Ask(p, d.inv) \/ AskPaid(p, d.inv)
    /\ UNCHANGED <<now, sub, invoice, provider, job, credits, orders>>

-----------------------------------------------------------------------------
(* What may go wrong *)

\* the provider cannot be reached, or an exception ends the handler or the item
ProviderFails(c) ==
    /\ May("provider")
    /\ task[c].step \in {"issuing", "asked"}
    /\ Done(c)
    /\ UNCHANGED <<now, sub, invoice, provider, due, job, credits, orders>>

\* Telegram refuses: the worker's transaction is rolled back with its credit,
\* the handler's is committed already.
SendRefused(c) ==
    /\ May("refused")
    /\ task[c].step \in {"crediting", "telling"}
    /\ Done(c)
    /\ UNCHANGED <<now, sub, invoice, provider, due, job, credits, orders>>

Death(c) ==
    /\ May("death")
    /\ Begin(c, Idle)
    /\ due' = [p \in Pollers |-> IF p = c THEN {} ELSE due[p]]
    /\ <<task, due>>' # <<task, due>>
    /\ UNCHANGED <<now, sub, invoice, provider, job, credits, orders>>

-----------------------------------------------------------------------------
(* The provider.  What is paid, expired or cancelled stays so.             *)

Settles(i, answer) ==
    /\ Exists(i) /\ provider[i] = "WAITING"
    /\ answer = "PAID" => invoice[i].expires > now
    /\ answer = "EXPIRED" => invoice[i].expires <= now
    /\ provider' = [provider EXCEPT ![i] = answer]
    /\ UNCHANGED <<now, sub, invoice, task, due, job, credits, orders>>

-----------------------------------------------------------------------------
(* The administrator *)

Ordered ==
    /\ orders < MaxOrders
    /\ orders' = orders + 1
    /\ UNCHANGED <<now, invoice, provider, task, due, job, credits>>

\* no reminder is armed; the paid time ends in the middle of a day
Grant(m, days) ==
    /\ ~SubLocked(m)
    /\ sub' = [sub EXCEPT ![m] = GrantPro(@, now + days * DayLen + 1)]
    /\ Ordered

Revoke(m) ==
    /\ ~SubLocked(m)
    /\ sub' = [sub EXCEPT ![m] = RevokePro(@, now)]
    /\ Ordered

-----------------------------------------------------------------------------
(* The reminders worker: reminders of an end and of an invoice *)

TrialEnds(m) ==
    /\ sub[m].trial > now /\ sub[m].trial <= now + Ahead + 3 * DayLen
    /\ sub[m].paid <= now

PaidEnds(m) ==
    /\ sub[m].paid # Null
    /\ sub[m].paid + 2 * DayLen >= now /\ sub[m].paid <= now + Ahead + 5 * DayLen

\* schedule_subscription_expiry_reminders
Refreshed(rows) ==
    [k \in JobKeys |->
        IF k.kind = "trial" /\ TrialEnds(k.master)
        THEN WithReminders(rows, "trial", k.master, sub[k.master].trial)[k]
        ELSE IF k.kind = "pro" /\ PaidEnds(k.master)
        THEN WithReminders(rows, "pro", k.master, sub[k.master].paid)[k]
        ELSE rows[k]]

Refresh ==
    /\ job' = Refreshed(job)
    /\ job' # job
    /\ UNCHANGED <<now, sub, invoice, provider, task, due, credits, orders>>

OnItsDay(k, until) == DayOf(job[k].due) = LastDay(until) - k.step

\* _send_trial_subscription_job, _send_pro_subscription_job and
\* _send_pro_invoice_reminder_job with the policy's answer
Relevant(k) ==
    IF k.kind = "invoice"
    THEN LET m == Owner[k.inv] IN k.inv \in Payable(m) /\ ~IsPro(sub[m], now)
    ELSE LET s == sub[k.master]
         IN  IF k.kind = "trial"
             THEN s.trial > now /\ s.paid <= now /\ OnItsDay(k, s.trial)
             ELSE /\ s.paid # Null /\ OnItsDay(k, s.paid)
                  /\ IF k.step = -1 THEN s.paid <= now /\ s.trial <= now ELSE s.paid > now

Remind(k) ==
    /\ job[k].status = "PENDING" /\ job[k].due <= now
    /\ job' = [job EXCEPT ![k].status = IF Relevant(k) THEN "SENT" ELSE "CANCELLED"]
    /\ UNCHANGED <<now, sub, invoice, provider, task, due, credits, orders>>

Tick ==
    /\ now < MaxNow
    /\ now' = now + 1
    /\ UNCHANGED <<sub, invoice, provider, task, due, job, credits, orders>>

-----------------------------------------------------------------------------
\* confirmed on the tariffs screen, or anywhere else
Screens == {"tariffs", "message"}

Asks(h, kind, screens) ==
    \E m \in Masters, screen \in screens :
        Reuse(h, m, kind, screen) \/ RequestInvoice(h, m, kind, screen)

StartPro(h) == Asks(h, "start", Screens)

RenewPro(h) == Asks(h, "renew", Screens)

NewInvoice(h) == Asks(h, "new", {"message"})

Checks(c) == RecordUnpaid(c) \/ FindPaid(c) \/ Tell(c) \/ MarkNotified(c)

Handle(h) ==
    \/ StartPro(h) \/ RenewPro(h) \/ NewInvoice(h) \/ Issue(h) \/ Checks(h) \/ CheckCredits(h)
    \/ \E i \in Invoices : CheckInvoice(h, i)

Work(p) ==
    \/ Poll(p) \/ Checks(p) \/ PollCredits(p) \/ PollCommits(p)
    \/ \E d \in due[p] : Process(p, d)

Next ==
    \/ \E h \in Handlers : Handle(h)
    \/ \E p \in Pollers : Work(p)
    \/ \E c \in Checkers : ProviderFails(c) \/ SendRefused(c) \/ Death(c)
    \/ \E i \in Invoices, a \in {"PAID", "EXPIRED", "CANCELED", "LOST"} : Settles(i, a)
    \/ \E m \in Masters : Revoke(m) \/ \E d \in GrantDays : Grant(m, d)
    \/ Refresh
    \/ \E k \in JobKeys : Remind(k)
    \/ Tick

Spec == Init /\ [][Next]_vars

\* The worker's loop runs, and neither the provider, nor Telegram, nor the
\* machine fails it every time.
FairSpec ==
    /\ Spec
    /\ \A p \in Pollers :
           /\ WF_vars(Poll(p))
           /\ SF_vars(\E d \in due[p] : Process(p, d))
           /\ SF_vars(RecordUnpaid(p) \/ FindPaid(p))
           /\ SF_vars(Tell(p))
           /\ SF_vars(MarkNotified(p))
           /\ SF_vars(PollCredits(p))
           /\ SF_vars(PollCommits(p))
    /\ \A h \in Handlers : WF_vars(Handle(h) /\ task[h].step # "idle")

-----------------------------------------------------------------------------
(* Properties *)

\* Every variable ranges over the states the columns and the code allow.
TypeOK ==
    /\ now \in 0 .. MaxNow
    /\ sub \in [Masters -> SubRow]
    /\ invoice \in [Invoices -> Row]
    /\ provider \in [Invoices -> Answers]
    /\ task \in [Checkers -> Task]
    /\ due \in [Pollers -> SUBSET [inv : Invoices, paid : BOOLEAN]]
    /\ job \in [JobKeys -> JobRow]
    /\ credits \in [Invoices -> Nat]
    /\ orders \in 0 .. MaxOrders

\* However often the master and the workers check an invoice, and whatever
\* fails in between, it is credited once and only if it was paid.
CreditedOnce ==
    \A i \in Invoices :
        /\ credits[i] = IF invoice[i].status = "PAID" THEN 1 ELSE 0
        /\ credits[i] = 1 => provider[i] = "PAID"

Bought(m) == {i \in Invoices : Owner[i] = m /\ credits[i] > 0}

\* yesterday, the last days of the first rows, and of what was granted
Before ==
    {DayOf(now) - 1}
        \cup {LastDay(s.paid) : s \in FirstSubs} \cup {LastDay(s.trial) : s \in FirstSubs}
        \cup {DayOf(now) + d : d \in IF orders > 0 THEN GrantDays ELSE {}}

Covered(m, until) ==
    \E day \in Before : LastDay(until) <= day + ProDays * Cardinality(Bought(m))

\* Nobody is given more days than he paid for: his paid time ends no later
\* than his credits, laid end to end after one of today, a trial and the
\* grants, reach.
NeverOverCredited == \A m \in Masters : sub[m].paid # Null => Covered(m, sub[m].paid)

\* Billing keeps the ledger: credits follow payments, and only they and the
\* administrator's orders move the end of anybody's paid time.
Book == INSTANCE Ledger WITH
            settled <- {i \in Invoices : provider[i] = "PAID"},
            credited <- {i \in Invoices : invoice[i].status = "PAID"},
            until <- [m \in Masters |-> sub[m].paid]

KeepsLedger == Book!Spec

\* Whoever pays is credited and told so in the end, by the callback or by the
\* worker, unless the window of his invoice closed before anybody checked it.
PayerIsTold ==
    \A i \in Invoices :
        provider[i] = "PAID" ~>
            \/ invoice[i].notified
            \/ invoice[i].status # "PAID" /\ invoice[i].expires <= now

=============================================================================
