---------------------------- MODULE PaymentsProofs ----------------------------
(***************************************************************************)
(* Proofs about Payments, for any number of masters, invoices, callbacks   *)
(* and workers and every combination of faults.                            *)
(*                                                                         *)
(* CreditedOnce is not inductive: a check credits what it was told before  *)
(* it had the lock, and a worker commits what it decided before it sent    *)
(* the message.  ChecksInv says what a check in flight can rely on: the    *)
(* provider does not take back an answer, and nobody touches an invoice    *)
(* that somebody else holds.                                               *)
(*                                                                         *)
(* NeverOverCredited needs DaysInv: a credit adds the days of its invoice  *)
(* to the subscription as the check read it, so that reading must have     *)
(* been paid for as well, by invoices other than the one about to be       *)
(* credited.                                                               *)
(***************************************************************************)
EXTENDS Payments, FiniteSetTheorems, TLAPS

Reads == {"asked", "crediting", "sent"}

\* What the provider said when it was asked still holds.
AnswersStand ==
    \A c \in Checkers :
        task[c].step \in Reads =>
            /\ task[c].inv \in Invoices
            /\ task[c].seen # "NONE"
            /\ task[c].seen # "WAITING" => provider[task[c].inv] = task[c].seen

\* A credit that is not committed is of a paid invoice, and holds it.
CreditsPend ==
    \A c \in Checkers :
        task[c].step \in {"crediting", "sent"} =>
            /\ task[c].locks
            /\ task[c].seen = "PAID"
            /\ invoice[task[c].inv].status # "PAID"

LocksExclude ==
    \A c, d \in Checkers :
        task[c].locks /\ task[d].locks /\ task[c].inv = task[d].inv => c = d

ChecksInv == AnswersStand /\ CreditsPend /\ LocksExclude

IInv == TypeOK /\ ChecksInv /\ CreditedOnce

-----------------------------------------------------------------------------
(* Types. *)

LEMMA DayType ==
    ASSUME NEW at \in Int
    PROVE  DayOf(at) \in Int
  BY PlanConstants DEF DayOf

LEMMA DayOfNat ==
    ASSUME NEW at \in Nat
    PROVE  DayOf(at) \in Nat
  BY PlanConstants DEF DayOf

LEMMA LastDayType ==
    ASSUME NEW until \in Int
    PROVE  LastDay(until) \in Int
  BY PlanConstants DEF LastDay

LEMMA EndOfDayType ==
    ASSUME NEW day \in Int, day >= -1
    PROVE  EndOfDay(day) \in Nat
  <1>1. day + 1 \in Nat
    OBVIOUS
  <1>2. \A a, b \in Nat : a * b \in Nat
    OBVIOUS
  <1> QED
    BY <1>1, <1>2, PlanConstants DEF EndOfDay

\* Paid time is bought by the day, from today on or from what is left.
LEMMA PaidUntilDay ==
    ASSUME NEW s \in SubRow, NEW at \in Nat
    PROVE  \E day \in Int :
              /\ day >= -1
              /\ \/ day = DayOf(at) - 1
                 \/ \E t \in {s.paid, s.trial} : t > at /\ day = LastDay(t)
              /\ PaidUntil(s, at) = EndOfDay(day + ProDays)
  <1> DEFINE today == DayOf(at) - 1
             S == {today} \cup {LastDay(t) : t \in {u \in {s.paid, s.trial} : u > at}}
  <1>1. today \in Int /\ today >= -1
    BY DayOfNat
  <1>2. LastDay(s.paid) \in Int /\ LastDay(s.trial) \in Int
    BY LastDayType DEF SubRow
  <1>3. S \subseteq {today, LastDay(s.paid), LastDay(s.trial)}
    OBVIOUS
  <1>4. \E x \in S : \A y \in S : y <= x
    <2>1. \A x, y \in Int : x <= y \/ y <= x
      OBVIOUS
    <2>2. S \subseteq Int
      BY <1>1, <1>2, <1>3
    <2>3. today \in S
      OBVIOUS
    <2> HIDE DEF S, today
    <2>4. CASE LastDay(s.paid) \in S /\ LastDay(s.trial) \in S
      BY <2>4, <2>2, <2>3, <1>3
    <2>5. CASE LastDay(s.paid) \in S /\ LastDay(s.trial) \notin S
      BY <2>5, <2>2, <2>3, <1>3
    <2>6. CASE LastDay(s.paid) \notin S /\ LastDay(s.trial) \in S
      BY <2>6, <2>2, <2>3, <1>3
    <2>7. CASE LastDay(s.paid) \notin S /\ LastDay(s.trial) \notin S
      BY <2>7, <2>2, <2>3, <1>3
    <2> QED
      BY <2>4, <2>5, <2>6, <2>7
  <1>5. Max(S) \in S /\ \A y \in S : y <= Max(S)
    BY <1>4 DEF Max
  <1>6. Max(S) \in Int /\ Max(S) >= -1
    <2>1. today \in S
      OBVIOUS
    <2>2. Max(S) \in Int
      BY <1>1, <1>2, <1>3, <1>5
    <2>3. today <= Max(S)
      BY <2>1, <1>5
    <2> HIDE DEF S, today
    <2> QED
      BY <2>2, <2>3, <1>1
  <1>7. PaidUntil(s, at) = EndOfDay(Max(S) + ProDays)
    BY DEF PaidUntil
  <1>8. \/ Max(S) = today
        \/ \E t \in {s.paid, s.trial} : t > at /\ Max(S) = LastDay(t)
    BY <1>5
  <1> HIDE DEF S
  <1> QED
    BY <1>6, <1>7, <1>8

LEMMA PaidUntilType ==
    ASSUME NEW s \in SubRow, NEW at \in Nat
    PROVE  PaidUntil(s, at) \in Nat
  <1>1. PICK day \in Int : day >= -1 /\ PaidUntil(s, at) = EndOfDay(day + ProDays)
    BY PaidUntilDay
  <1>2. day + ProDays \in Int /\ day + ProDays >= -1
    BY <1>1, PaymentConstants
  <1> QED
    BY <1>1, <1>2, EndOfDayType

\* grant_pro never shortens.
LEMMA GrantProType ==
    ASSUME NEW s \in SubRow, NEW until \in Nat
    PROVE  GrantPro(s, until) \in SubRow /\ GrantPro(s, until).paid >= s.paid
  BY DEF GrantPro, SubRow, Later

LEMMA RevokeProType ==
    ASSUME NEW s \in SubRow, NEW at
    PROVE  RevokePro(s, at) \in SubRow
  BY DEF RevokePro, SubRow, Null

LEMMA IdleType == Idle \in Task
  <1>1. (CHOOSE m \in Masters : TRUE) \in Masters
    BY PaymentConstants
  <1> QED
    BY <1>1 DEF Idle, Task, NoSub, SubRow, Null

\* What every step that begins something for invoice i puts in the task.
LEMMA AskedType ==
    ASSUME TypeOK, NEW i \in Invoices
    PROVE  [Idle EXCEPT !.step = "asked", !.inv = i, !.who = Owner[i], !.seen = provider[i],
                        !.base = sub[Owner[i]], !.at = now] \in Task
  <1>1. Owner[i] \in Masters /\ provider[i] \in Answers /\ now \in Nat
    BY PaymentConstants DEF TypeOK
  <1>2. sub[Owner[i]] \in SubRow
    BY <1>1 DEF TypeOK
  <1> QED
    BY <1>1, <1>2, IdleType DEF Task

LEMMA TellingType ==
    ASSUME NEW i \in Invoices, NEW m \in Masters, NEW l \in BOOLEAN
    PROVE  [Idle EXCEPT !.step = "telling", !.inv = i, !.who = m, !.locks = l] \in Task
  BY IdleType DEF Task

LEMMA ArmedType ==
    ASSUME NEW row \in JobRow, NEW at \in Int
    PROVE  Armed(row, at) \in JobRow
  BY DEF Armed, JobRow

LEMMA MorningType ==
    ASSUME NEW day \in Int
    PROVE  Morning(day) \in Int
  <1>1. \A a \in Int, b \in Nat : a * b \in Int
    OBVIOUS
  <1>2. day * DayLen \in Int
    BY <1>1, PlanConstants
  <1>3. Eleven \in Int
    BY PaymentConstants, PlanConstants
  <1> QED
    BY <1>2, <1>3 DEF Morning

LEMMA StepType ==
    ASSUME NEW k \in JobKeys, k.kind # "invoice"
    PROVE  k.step \in Int /\ k.master \in Masters
  <1>1. ProSteps \subseteq Int /\ TrialSteps \subseteq Int
    BY PaymentConstants
  <1>2. CASE k \in [kind : {"pro"}, master : Masters, step : ProSteps]
    BY <1>1, <1>2
  <1>3. CASE k \in [kind : {"trial"}, master : Masters, step : TrialSteps]
    BY <1>1, <1>3
  <1>4. k \notin [kind : {"invoice"}, inv : Invoices]
    OBVIOUS
  <1> QED
    BY <1>2, <1>3, <1>4 DEF JobKeys

LEMMA WithRemindersType ==
    ASSUME NEW rows \in [JobKeys -> JobRow], NEW kind, NEW m, NEW until \in Nat
    PROVE  WithReminders(rows, kind, m, until) \in [JobKeys -> JobRow]
  <1> SUFFICES ASSUME NEW k \in JobKeys, k.kind = kind, kind # "invoice"
               PROVE  Armed(rows[k], Morning(LastDay(until) - k.step)) \in JobRow
    BY DEF WithReminders
  <1>1. LastDay(until) - k.step \in Int
    BY StepType, LastDayType
  <1> QED
    BY <1>1, MorningType, ArmedType

LEMMA WithInvoiceReminderType ==
    ASSUME TypeOK, NEW i \in Invoices
    PROVE  WithInvoiceReminder(job, i) \in [JobKeys -> JobRow]
  <1> DEFINE k == [kind |-> "invoice", inv |-> i]
  <1>1. k \in JobKeys
    BY DEF JobKeys
  <1>2. DayOf(now) + 1 \in Int
    BY DayOfNat, PaymentConstants DEF TypeOK
  <1>3. job[k] \in JobRow
    BY <1>1 DEF TypeOK
  <1>4. Armed(job[k], Morning(DayOf(now) + 1)) \in JobRow
    BY <1>2, <1>3, MorningType, ArmedType
  <1> HIDE DEF k
  <1>5. [job EXCEPT ![k] = Armed(job[k], Morning(DayOf(now) + 1))] \in [JobKeys -> JobRow]
    BY <1>4 DEF TypeOK
  <1> QED
    BY <1>5 DEF WithInvoiceReminder, k

LEMMA RememberedType ==
    ASSUME TypeOK, NEW i \in Invoices, NEW screen
    PROVE  Remembered(i, screen) \in [JobKeys -> JobRow]
  BY WithInvoiceReminderType DEF Remembered, TypeOK

LEMMA RefreshedType ==
    ASSUME TypeOK
    PROVE  Refreshed(job) \in [JobKeys -> JobRow]
  <1> SUFFICES ASSUME NEW k \in JobKeys
               PROVE  Refreshed(job)[k] \in JobRow
    BY DEF Refreshed
  <1>1. job \in [JobKeys -> JobRow] /\ job[k] \in JobRow
    BY DEF TypeOK
  <1>2. CASE k.kind = "trial" /\ TrialEnds(k.master)
    <2>1. sub[k.master].trial \in Nat
      BY <1>2, StepType DEF TypeOK, SubRow
    <2>2. WithReminders(job, "trial", k.master, sub[k.master].trial)[k] \in JobRow
      BY <1>1, <2>1, WithRemindersType
    <2> QED
      BY <1>2, <2>2 DEF Refreshed
  <1>3. CASE k.kind = "pro" /\ PaidEnds(k.master)
    <2>1. sub[k.master].paid \in Nat
      BY <1>3, StepType DEF TypeOK, SubRow
    <2>2. WithReminders(job, "pro", k.master, sub[k.master].paid)[k] \in JobRow
      BY <1>1, <2>1, WithRemindersType
    <2> QED
      BY <1>3, <2>2 DEF Refreshed
  <1> QED
    BY <1>1, <1>2, <1>3 DEF Refreshed

-----------------------------------------------------------------------------
(* The initial states. *)

LEMMA InitIInv ==
    ASSUME Init
    PROVE  IInv
  <1>1. TypeOK
    <2>1. FirstSubs \subseteq SubRow
      BY PaymentConstants
    <2>2. now \in 0 .. MaxNow /\ orders \in 0 .. MaxOrders
      BY PaymentConstants DEF Init
    <2>3. invoice \in [Invoices -> Row] /\ provider \in [Invoices -> Answers]
      BY DEF Init, Row, Answers
    <2>4. job \in [JobKeys -> JobRow]
      BY DEF Init, JobRow
    <2> QED
      BY <2>1, <2>2, <2>3, <2>4, IdleType DEF Init, TypeOK
  <1>2. ChecksInv
    BY DEF Init, ChecksInv, AnswersStand, CreditsPend, LocksExclude, Idle, Reads
  <1>3. CreditedOnce
    BY DEF Init, CreditedOnce
  <1> QED
    BY <1>1, <1>2, <1>3 DEF IInv

-----------------------------------------------------------------------------
(* What the steps have in common. *)

\* A checker takes up t: what t relies on holds, and what the others rely on
\* still does.
LEMMA BeginKeeps ==
    ASSUME TypeOK, ChecksInv, NEW c \in Checkers, NEW t \in Task, Begin(c, t),
           provider' = provider,
           t.step \in Reads =>
               /\ t.inv \in Invoices /\ t.seen # "NONE"
               /\ t.seen # "WAITING" => provider[t.inv] = t.seen,
           t.step \in {"crediting", "sent"} =>
               t.locks /\ t.seen = "PAID" /\ invoice'[t.inv].status # "PAID",
           t.locks => \A d \in Checkers \ {c} : ~(task[d].locks /\ task[d].inv = t.inv),
           \A d \in Checkers \ {c} :
               task[d].step \in {"crediting", "sent"} => invoice'[task[d].inv].status # "PAID"
    PROVE  ChecksInv' /\ task' \in [Checkers -> Task]
  <1>1. task' \in [Checkers -> Task]
    BY DEF TypeOK, Begin
  <1>2. \A d \in Checkers : task'[d] = IF d = c THEN t ELSE task[d]
    BY DEF TypeOK, Begin
  <1>3. AnswersStand'
    BY <1>2 DEF ChecksInv, AnswersStand
  <1>4. CreditsPend'
    BY <1>2 DEF ChecksInv, CreditsPend
  <1>5. LocksExclude'
    BY <1>2 DEF ChecksInv, LocksExclude
  <1> QED
    BY <1>1, <1>3, <1>4, <1>5 DEF ChecksInv

\* A checker goes from one stage of its check to a later one that reads and
\* holds nothing new, or gives up.
LEMMA RestKeeps ==
    ASSUME TypeOK, ChecksInv, NEW c \in Checkers, NEW t \in Task, Begin(c, t),
           t.step \notin Reads, ~t.locks,
           UNCHANGED <<invoice, provider>>
    PROVE  ChecksInv' /\ task' \in [Checkers -> Task]
  <1>1. \A d \in Checkers \ {c} :
            task[d].step \in {"crediting", "sent"} => invoice'[task[d].inv].status # "PAID"
    BY DEF ChecksInv, CreditsPend
  <1> QED
    BY <1>1, BeginKeeps DEF Reads

LEMMA IdleKeeps ==
    ASSUME TypeOK, ChecksInv, NEW c \in Checkers, Done(c), UNCHANGED <<invoice, provider>>
    PROVE  ChecksInv' /\ task' \in [Checkers -> Task]
  <1>1. Idle.step \notin Reads /\ ~Idle.locks
    BY DEF Idle, Reads
  <1> QED
    BY <1>1, IdleType, RestKeeps DEF Done

\* What a check that credits nothing ends in.
LEMMA AfterReadingKeeps ==
    ASSUME TypeOK, ChecksInv, NEW c \in Checkers, NEW i \in Invoices, NEW status,
           AfterReading(c, i, status), ~Locked(i), provider' = provider,
           \A d \in Checkers :
               task[d].step \in {"crediting", "sent"} => invoice'[task[d].inv].status # "PAID"
    PROVE  ChecksInv' /\ task' \in [Checkers -> Task]
  <1> DEFINE t == [Idle EXCEPT !.step = "telling", !.inv = i, !.who = Owner[i],
                               !.locks = c \in Pollers]
  <1>1. CASE Done(c)
    <2>1. Idle.step \notin Reads /\ ~Idle.locks
      BY DEF Idle, Reads
    <2> QED
      BY <1>1, <2>1, IdleType, BeginKeeps DEF Done, Reads
  <1>2. CASE Begin(c, t)
    <2>1. t \in Task
      <3>1. Owner[i] \in Masters
        BY PaymentConstants
      <3>2. (c \in Pollers) \in BOOLEAN
        OBVIOUS
      <3> QED
        BY <3>1, <3>2, TellingType, Zenon
    <2>2. t.step = "telling" /\ t.inv = i
      BY DEF Idle
    <2>3. \A d \in Checkers \ {c} : ~(task[d].locks /\ task[d].inv = t.inv)
      BY <2>2 DEF Locked
    <2> HIDE DEF t
    <2> QED
      BY <1>2, <2>1, <2>2, <2>3, BeginKeeps DEF Reads
  <1> QED
    BY <1>1, <1>2 DEF AfterReading

\* An invoice that is credited while nobody holds it was not credited before.
LEMMA PendKeeps ==
    ASSUME ChecksInv, UNCHANGED invoice
    PROVE  \A d \in Checkers :
               task[d].step \in {"crediting", "sent"} => invoice'[task[d].inv].status # "PAID"
  BY DEF ChecksInv, CreditsPend

LEMMA CreditsStand ==
    ASSUME CreditedOnce, UNCHANGED <<invoice, provider, credits>>
    PROVE  CreditedOnce'
  BY DEF CreditedOnce

LEMMA QuietKeeps ==
    ASSUME ChecksInv, CreditedOnce, UNCHANGED <<invoice, provider, task, credits>>
    PROVE  ChecksInv' /\ CreditedOnce'
  BY DEF ChecksInv, CreditedOnce, AnswersStand, CreditsPend, LocksExclude

\* The question is asked: provider[i] is what the check goes by from now on.
LEMMA AskKeeps ==
    ASSUME TypeOK, ChecksInv, NEW c \in Checkers, NEW i \in Invoices, Ask(c, i),
           UNCHANGED <<invoice, provider>>
    PROVE  ChecksInv' /\ task' \in [Checkers -> Task]
  <1> DEFINE t == [Idle EXCEPT !.step = "asked", !.inv = i, !.who = Owner[i],
                               !.seen = provider[i], !.base = sub[Owner[i]], !.at = now]
  <1>1. t \in Task
    BY AskedType
  <1>2. t.step = "asked" /\ t.inv = i /\ t.seen = provider[i] /\ ~t.locks
    BY DEF Idle
  <1>3. provider[i] # "NONE"
    BY DEF TypeOK, Answers
  <1>4. Begin(c, t)
    BY DEF Ask
  <1> HIDE DEF t
  <1> QED
    BY <1>1, <1>2, <1>3, <1>4, PendKeeps, BeginKeeps

LEMMA AskPaidKeeps ==
    ASSUME TypeOK, ChecksInv, NEW c \in Checkers, NEW i \in Invoices, AskPaid(c, i),
           UNCHANGED <<invoice, provider>>
    PROVE  ChecksInv' /\ task' \in [Checkers -> Task]
  BY PendKeeps, AfterReadingKeeps DEF AskPaid

-----------------------------------------------------------------------------
(* One lemma per action. *)

LEMMA ReuseKeeps ==
    ASSUME IInv, NEW h \in Handlers, NEW m \in Masters, NEW kind, NEW screen,
           Reuse(h, m, kind, screen)
    PROVE  IInv'
  <1>1. PICK i \in Payable(m) : job' = Remembered(i, screen)
    BY DEF Reuse
  <1>2. i \in Invoices
    BY <1>1 DEF Payable, Waiting
  <1>3. TypeOK'
    BY <1>1, <1>2, RememberedType DEF IInv, TypeOK, Reuse
  <1> QED
    BY <1>3, QuietKeeps DEF IInv, Reuse

LEMMA RequestInvoiceKeeps ==
    ASSUME IInv, NEW h \in Handlers, NEW m \in Masters, NEW kind, NEW screen \in Screens,
           RequestInvoice(h, m, kind, screen)
    PROVE  IInv'
  <1> DEFINE t == [Idle EXCEPT !.step = "issuing", !.who = m, !.screen = screen]
  <1>1. t \in Task /\ t.step = "issuing" /\ ~t.locks
    BY IdleType DEF Task, Idle, Screens
  <1>2. h \in Checkers /\ Begin(h, t) /\ UNCHANGED <<invoice, provider>>
    BY DEF Checkers, RequestInvoice
  <1> HIDE DEF t
  <1>3. ChecksInv' /\ task' \in [Checkers -> Task]
    BY <1>1, <1>2, RestKeeps DEF IInv, Reads
  <1> QED
    BY <1>3, CreditsStand DEF IInv, TypeOK, RequestInvoice

\* An invoice that is inserted was nobody's business before.
LEMMA IssueKeeps ==
    ASSUME IInv, NEW h \in Handlers, Issue(h)
    PROVE  IInv'
  <1> DEFINE row == [status |-> "WAITING", expires |-> now + Lifetime, notified |-> FALSE]
  <1>1. PICK i \in Invoices : /\ ~Exists(i)
                             /\ invoice' = [invoice EXCEPT ![i] = row]
                             /\ job' = Remembered(i, task[h].screen)
    BY DEF Issue
  <1>2. invoice[i].status = "ABSENT"
    BY <1>1 DEF Exists
  <1>3. invoice' = [invoice EXCEPT ![i] = row]
    BY <1>1
  <1>4. job' = Remembered(i, task[h].screen)
    BY <1>1
  <1>5. row \in Row /\ row.status = "WAITING"
    BY PaymentConstants DEF IInv, TypeOK, Row
  <1>6. h \in Checkers /\ Done(h) /\ UNCHANGED <<now, sub, provider, due, credits, orders>>
    BY DEF Issue, Checkers
  <1> HIDE DEF row
  <1>7. \A j \in Invoices : invoice'[j] = IF j = i THEN row ELSE invoice[j]
    BY <1>3 DEF IInv, TypeOK
  <1>8. invoice' \in [Invoices -> Row]
    BY <1>3, <1>5 DEF IInv, TypeOK
  <1>9. job' \in [JobKeys -> JobRow]
    BY <1>2, <1>4, RememberedType DEF IInv
  <1>10. ChecksInv' /\ task' \in [Checkers -> Task]
    <2>1. \A d \in Checkers :
              task[d].step \in {"crediting", "sent"} => invoice'[task[d].inv].status # "PAID"
      BY <1>5, <1>7 DEF IInv, ChecksInv, CreditsPend, AnswersStand, Reads
    <2>2. Idle.step \notin Reads /\ ~Idle.locks
      BY DEF Idle, Reads
    <2> QED
      BY <1>6, <2>1, <2>2, IdleType, BeginKeeps DEF IInv, Done, Reads
  <1>11. CreditedOnce'
    BY <1>2, <1>5, <1>6, <1>7 DEF IInv, CreditedOnce
  <1> QED
    BY <1>6, <1>8, <1>9, <1>10, <1>11 DEF IInv, TypeOK

LEMMA CheckInvoiceKeeps ==
    ASSUME IInv, NEW h \in Handlers, NEW i \in Invoices, CheckInvoice(h, i)
    PROVE  IInv'
  <1>1. h \in Checkers /\ UNCHANGED <<invoice, provider>>
    BY DEF CheckInvoice, Checkers
  <1>2. ChecksInv' /\ task' \in [Checkers -> Task]
    BY <1>1, AskKeeps, AskPaidKeeps DEF IInv, CheckInvoice
  <1> QED
    BY <1>2, CreditsStand DEF IInv, TypeOK, CheckInvoice

\* Only what the provider did not call paid is recorded unpaid, and that it
\* has not called paid since.
LEMMA RecordUnpaidKeeps ==
    ASSUME IInv, NEW c \in Checkers, RecordUnpaid(c)
    PROVE  IInv'
  <1> DEFINE i == task[c].inv
             status == IF task[c].seen \in DOMAIN Unpaid THEN Unpaid[task[c].seen]
                       ELSE invoice[i].status
  <1>1. /\ task[c].step = "asked" /\ task[c].seen # "PAID" /\ ~Locked(i)
        /\ invoice' = [invoice EXCEPT ![i].status = status]
        /\ AfterReading(c, i, status)
        /\ UNCHANGED <<now, sub, provider, due, job, credits, orders>>
    BY DEF RecordUnpaid
  <1>2. /\ i \in Invoices
        /\ task[c].seen # "WAITING" => provider[i] = task[c].seen
    BY <1>1 DEF IInv, ChecksInv, AnswersStand, Reads
  <1>3. /\ \/ status = invoice[i].status
           \/ status \in {"EXPIRED", "CANCELED"} /\ provider[i] # "PAID"
        /\ status \in {"ABSENT", "WAITING", "PAID", "EXPIRED", "CANCELED"}
    <2>1. DOMAIN Unpaid = {"EXPIRED", "CANCELED", "LOST"}
      BY DEF Unpaid
    <2>2. CASE task[c].seen \in DOMAIN Unpaid
      <3>1. status \in {"EXPIRED", "CANCELED"}
        BY <2>1, <2>2 DEF Unpaid
      <3>2. provider[i] # "PAID"
        BY <1>1, <1>2, <2>1, <2>2
      <3> QED
        BY <3>1, <3>2
    <2>3. CASE task[c].seen \notin DOMAIN Unpaid
      <3>1. status = invoice[i].status
        BY <2>3
      <3>2. invoice[i] \in Row
        BY <1>2 DEF IInv, TypeOK
      <3>3. invoice[i].status \in {"ABSENT", "WAITING", "PAID", "EXPIRED", "CANCELED"}
        BY <3>2 DEF Row
      <3> QED
        BY <3>1, <3>3
    <2> QED
      BY <2>2, <2>3
  <1> HIDE DEF status, i
  <1>4. \A j \in Invoices :
            invoice'[j] = IF j = i THEN [invoice[j] EXCEPT !.status = status] ELSE invoice[j]
    BY <1>1 DEF IInv, TypeOK
  <1>5. invoice' \in [Invoices -> Row]
    BY <1>1, <1>2, <1>3 DEF IInv, TypeOK, Row
  <1>6. \A j \in Invoices : invoice'[j].status = IF j = i THEN status ELSE invoice[j].status
    BY <1>4 DEF IInv, TypeOK, Row
  <1>7. \A d \in Checkers :
            task[d].step \in {"crediting", "sent"} => invoice'[task[d].inv].status # "PAID"
    BY <1>3, <1>6 DEF IInv, ChecksInv, CreditsPend, AnswersStand, Reads
  <1>8. ChecksInv' /\ task' \in [Checkers -> Task]
    BY <1>1, <1>2, <1>7, AfterReadingKeeps DEF IInv
  <1>9. CreditedOnce'
    BY <1>1, <1>2, <1>3, <1>6 DEF IInv, CreditedOnce
  <1> QED
    BY <1>1, <1>5, <1>8, <1>9 DEF IInv, TypeOK

LEMMA FindPaidKeeps ==
    ASSUME IInv, NEW c \in Checkers, FindPaid(c)
    PROVE  IInv'
  <1>1. task[c].inv \in Invoices
    BY DEF IInv, ChecksInv, AnswersStand, Reads, FindPaid
  <1>2. ChecksInv' /\ task' \in [Checkers -> Task]
    BY <1>1, PendKeeps, AfterReadingKeeps DEF IInv, FindPaid
  <1> QED
    BY <1>2, CreditsStand DEF IInv, TypeOK, FindPaid

\* The transaction that credits invoice i, whose lock nobody else has: the
\* rows it writes, and what is left to know of the other checks.
LEMMA CreditedKeeps ==
    ASSUME IInv, NEW c \in Checkers, NEW notified \in BOOLEAN, Credited(c, notified),
           task[c].step \in Reads, task[c].seen = "PAID",
           invoice[task[c].inv].status # "PAID",
           \A d \in Checkers \ {c} : ~(task[d].locks /\ task[d].inv = task[c].inv)
    PROVE  /\ sub' \in [Masters -> SubRow] /\ invoice' \in [Invoices -> Row]
           /\ job' \in [JobKeys -> JobRow] /\ credits' \in [Invoices -> Nat]
           /\ CreditedOnce'
           /\ \A d \in Checkers \ {c} :
                  task[d].step \in {"crediting", "sent"} => invoice'[task[d].inv].status # "PAID"
  <1> DEFINE i == task[c].inv
             m == Owner[i]
             until == PaidUntil(task[c].base, task[c].at)
  <1>1. i \in Invoices /\ provider[i] = "PAID"
    BY DEF IInv, ChecksInv, AnswersStand
  <1>2. m \in Masters
    BY <1>1, PaymentConstants
  <1>3. until \in Nat
    BY PaidUntilType DEF IInv, TypeOK, Task
  <1>4. /\ sub' = [sub EXCEPT ![m] = GrantPro(sub[m], until)]
        /\ invoice' = [invoice EXCEPT ![i].status = "PAID", ![i].notified = notified]
        /\ job' = WithReminders(job, "pro", m, until)
        /\ credits' = [credits EXCEPT ![i] = credits[i] + 1]
        /\ provider' = provider
    BY DEF Credited
  <1> HIDE DEF i, m, until
  <1>5. sub' \in [Masters -> SubRow]
    BY <1>2, <1>3, <1>4, GrantProType DEF IInv, TypeOK
  <1>6. job' \in [JobKeys -> JobRow]
    BY <1>3, <1>4, WithRemindersType DEF IInv, TypeOK
  <1>7. invoice' \in [Invoices -> Row]
    BY <1>1, <1>4 DEF IInv, TypeOK, Row
  <1>8. credits' \in [Invoices -> Nat]
    BY <1>1, <1>4 DEF IInv, TypeOK
  <1>9. \A j \in Invoices :
            /\ invoice'[j].status = IF j = i THEN "PAID" ELSE invoice[j].status
            /\ credits'[j] = IF j = i THEN credits[j] + 1 ELSE credits[j]
    BY <1>1, <1>4 DEF IInv, TypeOK, Row
  <1>10. CreditedOnce'
    <2>1. invoice[i].status # "PAID"
      BY DEF i
    <2>2. credits[i] = 0
      BY <1>1, <2>1 DEF IInv, CreditedOnce
    <2>3. credits'[i] = 1 /\ invoice'[i].status = "PAID" /\ provider'[i] = "PAID"
      <3>1. credits'[i] = credits[i] + 1 /\ invoice'[i].status = "PAID"
        BY <1>1, <1>9
      <3>2. provider'[i] = "PAID"
        BY <1>1, <1>4
      <3> QED
        BY <2>2, <3>1, <3>2
    <2>4. ASSUME NEW j \in Invoices, j # i
          PROVE  /\ credits'[j] = credits[j] /\ invoice'[j].status = invoice[j].status
                 /\ provider'[j] = provider[j]
      BY <1>4, <1>9, <2>4
    <2> QED
      BY <2>3, <2>4 DEF IInv, CreditedOnce
  <1>11. \A d \in Checkers \ {c} :
            task[d].step \in {"crediting", "sent"} => invoice'[task[d].inv].status # "PAID"
    BY <1>9 DEF i, IInv, ChecksInv, CreditsPend, AnswersStand, Reads
  <1> QED
    BY <1>5, <1>6, <1>7, <1>8, <1>10, <1>11

LEMMA CheckCreditsKeeps ==
    ASSUME IInv, NEW h \in Handlers, CheckCredits(h)
    PROVE  IInv'
  <1> DEFINE t == [Idle EXCEPT !.step = "telling", !.inv = task[h].inv, !.who = task[h].who]
  <1>1. h \in Checkers
    BY DEF Checkers
  <1>2. /\ task[h].step \in Reads /\ task[h].seen = "PAID"
        /\ invoice[task[h].inv].status # "PAID" /\ ~Locked(task[h].inv)
        /\ Credited(h, FALSE) /\ Begin(h, t)
    BY DEF CheckCredits, Creditable, Reads
  <1>3. /\ sub' \in [Masters -> SubRow] /\ invoice' \in [Invoices -> Row]
        /\ job' \in [JobKeys -> JobRow] /\ credits' \in [Invoices -> Nat]
        /\ CreditedOnce'
        /\ \A d \in Checkers \ {h} :
               task[d].step \in {"crediting", "sent"} => invoice'[task[d].inv].status # "PAID"
    BY <1>1, <1>2, CreditedKeeps DEF Locked
  <1>4. t \in Task /\ t.step = "telling" /\ ~t.locks
    <2>1. task[h] \in Task
      BY <1>1 DEF IInv, TypeOK
    <2> QED
      BY <2>1, IdleType DEF Task, Idle
  <1>5. UNCHANGED <<now, provider, due, orders>>
    BY <1>2 DEF Credited
  <1> HIDE DEF t
  <1>6. ChecksInv' /\ task' \in [Checkers -> Task]
    BY <1>1, <1>2, <1>3, <1>4, <1>5, BeginKeeps DEF IInv, Reads
  <1> QED
    BY <1>3, <1>5, <1>6 DEF IInv, TypeOK

\* The worker takes the lock, reads, and has not committed.
LEMMA PollCreditsKeeps ==
    ASSUME IInv, NEW p \in Pollers, PollCredits(p)
    PROVE  IInv'
  <1> DEFINE t == [task[p] EXCEPT !.step = "crediting", !.locks = TRUE]
  <1>1. p \in Checkers
    BY DEF Checkers
  <1>2. /\ task[p].step = "asked" /\ task[p].seen = "PAID"
        /\ invoice[task[p].inv].status # "PAID" /\ ~Locked(task[p].inv) /\ Begin(p, t)
        /\ UNCHANGED <<now, sub, invoice, provider, due, job, credits, orders>>
    BY DEF PollCredits, Creditable
  <1>3. task[p] \in Task
    BY <1>1 DEF IInv, TypeOK
  <1>4. /\ t \in Task /\ t.step = "crediting" /\ t.locks
        /\ t.inv = task[p].inv /\ t.seen = task[p].seen
    BY <1>3 DEF Task
  <1>5. t.inv \in Invoices /\ provider[t.inv] = t.seen
    BY <1>1, <1>2, <1>4 DEF IInv, ChecksInv, AnswersStand, Reads
  <1>6. \A d \in Checkers \ {p} : ~(task[d].locks /\ task[d].inv = t.inv)
    BY <1>2, <1>4 DEF Locked
  <1> HIDE DEF t
  <1>7. ChecksInv' /\ task' \in [Checkers -> Task]
    BY <1>1, <1>2, <1>4, <1>5, <1>6, PendKeeps, BeginKeeps DEF IInv
  <1> QED
    BY <1>2, <1>7, CreditsStand DEF IInv, TypeOK

LEMMA TellKeeps ==
    ASSUME IInv, NEW c \in Checkers, Tell(c)
    PROVE  IInv'
  <1> DEFINE t == [task[c] EXCEPT !.step = IF @ = "crediting" THEN "sent" ELSE "told"]
  <1>1. /\ task[c].step \in {"crediting", "telling"} /\ Begin(c, t)
        /\ UNCHANGED <<now, sub, invoice, provider, due, job, credits, orders>>
    BY DEF Tell
  <1>2. task[c] \in Task
    BY DEF IInv, TypeOK
  <1>3. /\ t \in Task
        /\ t.step = IF task[c].step = "crediting" THEN "sent" ELSE "told"
        /\ t.inv = task[c].inv /\ t.seen = task[c].seen /\ t.locks = task[c].locks
    BY <1>2 DEF Task
  <1>4. t.step \in Reads => task[c].step = "crediting"
    BY <1>3 DEF Reads
  <1>5. task[c].step = "crediting" =>
            /\ t.inv \in Invoices /\ t.seen = "PAID" /\ provider[t.inv] = t.seen
            /\ t.locks /\ invoice[t.inv].status # "PAID"
    BY <1>3 DEF IInv, ChecksInv, AnswersStand, CreditsPend, Reads
  <1>6. t.locks => \A d \in Checkers \ {c} : ~(task[d].locks /\ task[d].inv = t.inv)
    BY <1>3 DEF IInv, ChecksInv, LocksExclude
  <1> HIDE DEF t
  <1>7. ChecksInv' /\ task' \in [Checkers -> Task]
    BY <1>1, <1>3, <1>4, <1>5, <1>6, PendKeeps, BeginKeeps DEF IInv, Reads
  <1> QED
    BY <1>1, <1>7, CreditsStand DEF IInv, TypeOK

LEMMA PollCommitsKeeps ==
    ASSUME IInv, NEW p \in Pollers, PollCommits(p)
    PROVE  IInv'
  <1>1. p \in Checkers /\ task[p].step = "sent" /\ Credited(p, TRUE) /\ Done(p)
    BY DEF Checkers, PollCommits
  <1>2. task[p].locks /\ task[p].seen = "PAID" /\ invoice[task[p].inv].status # "PAID"
    BY <1>1 DEF IInv, ChecksInv, CreditsPend
  <1>3. \A d \in Checkers \ {p} : ~(task[d].locks /\ task[d].inv = task[p].inv)
    BY <1>1, <1>2 DEF IInv, ChecksInv, LocksExclude
  <1>4. /\ sub' \in [Masters -> SubRow] /\ invoice' \in [Invoices -> Row]
        /\ job' \in [JobKeys -> JobRow] /\ credits' \in [Invoices -> Nat]
        /\ CreditedOnce'
        /\ \A d \in Checkers \ {p} :
               task[d].step \in {"crediting", "sent"} => invoice'[task[d].inv].status # "PAID"
    BY <1>1, <1>2, <1>3, CreditedKeeps DEF Reads
  <1>5. UNCHANGED <<now, provider, due, orders>>
    BY <1>1 DEF Credited
  <1>6. ChecksInv' /\ task' \in [Checkers -> Task]
    <2>1. Idle.step \notin Reads /\ ~Idle.locks
      BY DEF Idle, Reads
    <2> QED
      BY <1>1, <1>4, <1>5, <2>1, IdleType, BeginKeeps DEF IInv, Done, Reads
  <1> QED
    BY <1>4, <1>5, <1>6 DEF IInv, TypeOK

LEMMA MarkNotifiedKeeps ==
    ASSUME IInv, NEW c \in Checkers, MarkNotified(c)
    PROVE  IInv'
  <1> DEFINE i == task[c].inv
  <1>1. /\ invoice' = [invoice EXCEPT ![i].notified = TRUE]
        /\ Done(c)
        /\ UNCHANGED <<now, sub, provider, due, job, credits, orders>>
    BY DEF MarkNotified
  <1> HIDE DEF i
  <1>2. invoice' \in [Invoices -> Row]
    BY <1>1 DEF IInv, TypeOK, Row
  <1>3. \A j \in Invoices : invoice'[j].status = invoice[j].status
    BY <1>1 DEF IInv, TypeOK, Row
  <1>4. \A d \in Checkers :
            task[d].step \in {"crediting", "sent"} => invoice'[task[d].inv].status # "PAID"
    BY <1>3 DEF IInv, ChecksInv, CreditsPend, AnswersStand, Reads
  <1>5. ChecksInv' /\ task' \in [Checkers -> Task]
    <2>1. Idle.step \notin Reads /\ ~Idle.locks
      BY DEF Idle, Reads
    <2> QED
      BY <1>1, <1>4, <2>1, IdleType, BeginKeeps DEF IInv, Done, Reads
  <1>6. CreditedOnce'
    BY <1>1, <1>3 DEF IInv, CreditedOnce
  <1> QED
    BY <1>1, <1>2, <1>5, <1>6 DEF IInv, TypeOK

LEMMA PollKeeps ==
    ASSUME IInv, NEW p \in Pollers, Poll(p)
    PROVE  IInv'
  <1> DEFINE D == [inv : StillOpen, paid : {FALSE}] \cup [inv : Untold, paid : {TRUE}]
  <1>1. due' = [due EXCEPT ![p] = D]
    BY DEF Poll
  <1>2. D \subseteq [inv : Invoices, paid : BOOLEAN]
    BY DEF StillOpen, Untold
  <1> HIDE DEF D
  <1>3. TypeOK'
    BY <1>1, <1>2 DEF IInv, TypeOK, Poll
  <1> QED
    BY <1>3, QuietKeeps DEF IInv, Poll

LEMMA ProcessKeeps ==
    ASSUME IInv, NEW p \in Pollers, NEW d \in due[p], Process(p, d)
    PROVE  IInv'
  <1> DEFINE t == [Idle EXCEPT !.step = "telling", !.inv = d.inv, !.who = Owner[d.inv]]
  <1>1. p \in Checkers /\ UNCHANGED <<now, sub, invoice, provider, job, credits, orders>>
    BY DEF Process, Checkers
  <1>2. due[p] \subseteq [inv : Invoices, paid : BOOLEAN] /\ d.inv \in Invoices
    BY DEF IInv, TypeOK
  <1>3. due' \in [Pollers -> SUBSET [inv : Invoices, paid : BOOLEAN]]
    <2>1. due' = [due EXCEPT ![p] = due[p] \ {d}]
      BY DEF Process, Took
    <2> QED
      BY <1>2, <2>1 DEF IInv, TypeOK
  <1>4. ChecksInv' /\ task' \in [Checkers -> Task]
    <2>1. CASE d.paid
      <3>1. Owner[d.inv] \in Masters
        BY <1>2, PaymentConstants
      <3>2. t \in Task /\ t.step = "telling" /\ ~t.locks
        BY <1>2, <3>1, IdleType DEF Task, Idle
      <3>3. Begin(p, t)
        BY <2>1 DEF Process
      <3> HIDE DEF t
      <3> QED
        BY <1>1, <3>2, <3>3, RestKeeps DEF IInv, Reads
    <2>2. CASE ~d.paid
      BY <1>1, <1>2, <2>2, AskKeeps, AskPaidKeeps DEF IInv, Process
    <2> QED
      BY <2>1, <2>2
  <1> QED
    BY <1>1, <1>3, <1>4, CreditsStand DEF IInv, TypeOK

\* Whatever fails gives up what it holds: nothing of a check is kept.
LEMMA FailureKeeps ==
    ASSUME IInv, NEW c \in Checkers, ProviderFails(c) \/ SendRefused(c) \/ Death(c)
    PROVE  IInv'
  <1>1. Done(c) /\ UNCHANGED <<now, sub, invoice, provider, job, credits, orders>>
    BY DEF ProviderFails, SendRefused, Death, Done
  <1>2. due' \in [Pollers -> SUBSET [inv : Invoices, paid : BOOLEAN]]
    BY DEF ProviderFails, SendRefused, Death, IInv, TypeOK
  <1>3. ChecksInv' /\ task' \in [Checkers -> Task]
    BY <1>1, IdleKeeps DEF IInv
  <1> QED
    BY <1>1, <1>2, <1>3, CreditsStand DEF IInv, TypeOK

\* The provider answers once: no answer a check relies on changes.
LEMMA SettlesKeeps ==
    ASSUME IInv, NEW i \in Invoices, NEW a \in {"PAID", "EXPIRED", "CANCELED", "LOST"},
           Settles(i, a)
    PROVE  IInv'
  <1>1. /\ provider[i] = "WAITING" /\ provider' = [provider EXCEPT ![i] = a]
        /\ UNCHANGED <<now, sub, invoice, task, due, job, credits, orders>>
    BY DEF Settles
  <1>2. TypeOK'
    BY <1>1 DEF IInv, TypeOK, Answers
  <1>3. \A j \in Invoices : provider[j] # "WAITING" => provider'[j] = provider[j]
    BY <1>1 DEF IInv, TypeOK
  <1>4. AnswersStand'
    BY <1>1, <1>3 DEF IInv, ChecksInv, AnswersStand
  <1>5. CreditsPend' /\ LocksExclude'
    BY <1>1 DEF IInv, ChecksInv, CreditsPend, LocksExclude
  <1>6. CreditedOnce'
    BY <1>1, <1>3 DEF IInv, CreditedOnce
  <1> QED
    BY <1>2, <1>4, <1>5, <1>6 DEF IInv, ChecksInv

LEMMA OrderKeeps ==
    ASSUME IInv, NEW m \in Masters, Revoke(m) \/ \E d \in GrantDays : Grant(m, d)
    PROVE  IInv'
  <1>1. Ordered
    BY DEF Revoke, Grant
  <1>2. sub' \in [Masters -> SubRow]
    <2>1. CASE Revoke(m)
      BY <2>1, RevokeProType DEF Revoke, IInv, TypeOK
    <2>2. ASSUME NEW d \in GrantDays, Grant(m, d)
          PROVE  sub' \in [Masters -> SubRow]
      <3>1. now + d * DayLen + 1 \in Nat
        <4>1. \A a, b \in Nat : a * b \in Nat
          OBVIOUS
        <4> QED
          BY <4>1, PaymentConstants, PlanConstants DEF IInv, TypeOK
      <3> QED
        BY <2>2, <3>1, GrantProType DEF Grant, IInv, TypeOK
    <2> QED
      BY <2>1, <2>2
  <1>3. orders' \in 0 .. MaxOrders
    BY <1>1, PaymentConstants DEF Ordered, IInv, TypeOK
  <1>4. TypeOK'
    BY <1>1, <1>2, <1>3 DEF Ordered, IInv, TypeOK
  <1> QED
    BY <1>1, <1>4, QuietKeeps DEF IInv, Ordered

LEMMA RefreshKeeps ==
    ASSUME IInv, Refresh
    PROVE  IInv'
  <1>1. TypeOK'
    BY RefreshedType DEF IInv, TypeOK, Refresh
  <1> QED
    BY <1>1, QuietKeeps DEF IInv, Refresh

LEMMA RemindKeeps ==
    ASSUME IInv, NEW k \in JobKeys, Remind(k)
    PROVE  IInv'
  <1> DEFINE s == IF Relevant(k) THEN "SENT" ELSE "CANCELLED"
  <1>1. job' = [job EXCEPT ![k].status = s] /\ s \in {"SENT", "CANCELLED"}
    BY DEF Remind
  <1> HIDE DEF s
  <1>2. job' \in [JobKeys -> JobRow]
    BY <1>1 DEF IInv, TypeOK, JobRow
  <1>3. TypeOK'
    BY <1>2 DEF IInv, TypeOK, Remind
  <1> QED
    BY <1>3, QuietKeeps DEF IInv, Remind

LEMMA TickKeeps ==
    ASSUME IInv, Tick
    PROVE  IInv'
  <1>1. TypeOK'
    BY PaymentConstants DEF IInv, TypeOK, Tick
  <1> QED
    BY <1>1, QuietKeeps DEF IInv, Tick

-----------------------------------------------------------------------------
(* Every step. *)

LEMMA HandleKeeps ==
    ASSUME IInv, NEW h \in Handlers, Handle(h)
    PROVE  IInv'
  <1>1. h \in Checkers
    BY DEF Checkers
  <1>2. CASE StartPro(h) \/ RenewPro(h)
    BY <1>2, ReuseKeeps, RequestInvoiceKeeps DEF StartPro, RenewPro, Asks
  <1>3. CASE NewInvoice(h)
    <2>1. "message" \in Screens
      BY DEF Screens
    <2> QED
      BY <1>3, <2>1, ReuseKeeps, RequestInvoiceKeeps DEF NewInvoice, Asks
  <1>4. CASE Issue(h) \/ CheckCredits(h) \/ \E i \in Invoices : CheckInvoice(h, i)
    BY <1>4, IssueKeeps, CheckCreditsKeeps, CheckInvoiceKeeps
  <1>5. CASE Checks(h)
    BY <1>1, <1>5, RecordUnpaidKeeps, FindPaidKeeps, TellKeeps, MarkNotifiedKeeps DEF Checks
  <1> QED
    BY <1>2, <1>3, <1>4, <1>5 DEF Handle

LEMMA WorkKeeps ==
    ASSUME IInv, NEW p \in Pollers, Work(p)
    PROVE  IInv'
  <1>1. p \in Checkers
    BY DEF Checkers
  <1>2. CASE Poll(p) \/ PollCredits(p) \/ PollCommits(p) \/ \E d \in due[p] : Process(p, d)
    BY <1>2, PollKeeps, PollCreditsKeeps, PollCommitsKeeps, ProcessKeeps
  <1>3. CASE Checks(p)
    BY <1>1, <1>3, RecordUnpaidKeeps, FindPaidKeeps, TellKeeps, MarkNotifiedKeeps DEF Checks
  <1> QED
    BY <1>2, <1>3 DEF Work

LEMMA StepKeeps ==
    ASSUME IInv, [Next]_vars
    PROVE  IInv'
  <1>1. CASE \E h \in Handlers : Handle(h)
    BY <1>1, HandleKeeps
  <1>2. CASE \E p \in Pollers : Work(p)
    BY <1>2, WorkKeeps
  <1>3. CASE \E c \in Checkers : ProviderFails(c) \/ SendRefused(c) \/ Death(c)
    BY <1>3, FailureKeeps
  <1>4. CASE \E i \in Invoices, a \in {"PAID", "EXPIRED", "CANCELED", "LOST"} : Settles(i, a)
    BY <1>4, SettlesKeeps
  <1>5. CASE \E m \in Masters : Revoke(m) \/ \E d \in GrantDays : Grant(m, d)
    BY <1>5, OrderKeeps
  <1>6. CASE Refresh \/ (\E k \in JobKeys : Remind(k)) \/ Tick
    BY <1>6, RefreshKeeps, RemindKeeps, TickKeeps
  <1>7. CASE UNCHANGED vars
    <2>1. TypeOK'
      BY <1>7 DEF vars, IInv, TypeOK
    <2> QED
      BY <1>7, <2>1, QuietKeeps DEF vars, IInv
  <1> QED
    BY <1>1, <1>2, <1>3, <1>4, <1>5, <1>6, <1>7 DEF Next

\* What the handlers, the workers, the provider and the administrator do to
\* the rows keeps them, the checks in flight and the credits as they should be.
LEMMA Inductive == Spec => []IInv
  <1>1. Init => IInv
    BY InitIInv
  <1>2. IInv /\ [Next]_vars => IInv'
    BY StepKeeps
  <1> QED
    BY <1>1, <1>2, PTL DEF Spec

\* Every row, every task and every reminder stays within what its columns and
\* the code allow, for any number of masters, invoices, callbacks and workers.
THEOREM TypeCorrect == Spec => []TypeOK
  <1>1. IInv => TypeOK
    BY DEF IInv
  <1> QED
    BY <1>1, Inductive, PTL

\* CheckProPayment credits an invoice exactly once and only if the provider
\* has its money, however many callbacks and workers check it at a time and
\* wherever one of them fails.
THEOREM CreditedOnceHolds == Spec => []CreditedOnce
  <1>1. IInv => CreditedOnce
    BY DEF IInv
  <1> QED
    BY <1>1, Inductive, PTL

-----------------------------------------------------------------------------
(* The ledger.  Most steps do not touch it. *)

LEMMA LedgerStands ==
    ASSUME TypeOK, UNCHANGED <<sub, orders>>,
           \A i \in Invoices : /\ (invoice'[i].status = "PAID") <=> (invoice[i].status = "PAID")
                               /\ (provider'[i] = "PAID") <=> (provider[i] = "PAID")
    PROVE  UNCHANGED Book!ledgerVars
  BY DEF Book!ledgerVars

LEMMA InitLedger ==
    ASSUME Init
    PROVE  Book!Init
  <1>1. sub \in [Masters -> SubRow]
    BY PaymentConstants DEF Init
  <1>2. [m \in Masters |-> sub[m].paid] \in [Masters -> Nat]
    BY <1>1 DEF SubRow
  <1>3. {i \in Invoices : provider[i] = "PAID"} = {}
    BY DEF Init
  <1>4. {i \in Invoices : invoice[i].status = "PAID"} = {}
    BY DEF Init
  <1>5. orders = 0
    BY DEF Init
  <1> QED
    BY <1>2, <1>3, <1>4, <1>5 DEF Book!Init

LEMMA SettlesSettles ==
    ASSUME IInv, NEW i \in Invoices, NEW a \in {"PAID", "EXPIRED", "CANCELED", "LOST"},
           Settles(i, a)
    PROVE  Book!Settle(i) \/ UNCHANGED Book!ledgerVars
  <1>1. /\ provider[i] = "WAITING" /\ provider' = [provider EXCEPT ![i] = a]
        /\ UNCHANGED <<sub, invoice, orders>>
    BY DEF Settles
  <1>2. \A j \in Invoices : provider'[j] = IF j = i THEN a ELSE provider[j]
    BY <1>1 DEF IInv, TypeOK
  <1>3. CASE a = "PAID"
    <2>1. {j \in Invoices : provider'[j] = "PAID"}
              = {j \in Invoices : provider[j] = "PAID"} \cup {i}
      BY <1>2, <1>3
    <2>2. i \notin {j \in Invoices : provider[j] = "PAID"}
      BY <1>1
    <2> QED
      BY <1>1, <2>1, <2>2 DEF Book!Settle
  <1>4. CASE a # "PAID"
    BY <1>1, <1>2, <1>4, LedgerStands DEF IInv
  <1> QED
    BY <1>3, <1>4

\* A credit is of a paid invoice that had none, and prolongs one master's time.
LEMMA CreditedCredits ==
    ASSUME IInv, NEW c \in Checkers, NEW notified \in BOOLEAN, Credited(c, notified),
           task[c].step \in Reads, task[c].seen = "PAID",
           invoice[task[c].inv].status # "PAID"
    PROVE  \E i \in Invoices : Book!Credit(i)
  <1> DEFINE until == PaidUntil(task[c].base, task[c].at)
             ends == [m \in Masters |-> sub[m].paid]
  <1>0. PICK i \in Invoices : i = task[c].inv
    BY DEF IInv, ChecksInv, AnswersStand
  <1>1. provider[i] = "PAID" /\ invoice[i].status # "PAID"
    BY <1>0 DEF IInv, ChecksInv, AnswersStand
  <1>2. Owner[i] \in Masters
    BY <1>1, PaymentConstants
  <1>3. until \in Nat
    BY PaidUntilType DEF IInv, TypeOK, Task
  <1>4. /\ sub' = [sub EXCEPT ![Owner[i]] = GrantPro(sub[Owner[i]], until)]
        /\ invoice' = [invoice EXCEPT ![i].status = "PAID", ![i].notified = notified]
        /\ UNCHANGED <<provider, orders>>
    BY <1>0 DEF Credited
  <1> HIDE DEF until
  <1>5. \A j \in Invoices :
            invoice'[j].status = IF j = i THEN "PAID" ELSE invoice[j].status
    BY <1>1, <1>4 DEF IInv, TypeOK, Row
  <1>6. {j \in Invoices : invoice'[j].status = "PAID"}
            = {j \in Invoices : invoice[j].status = "PAID"} \cup {i}
    BY <1>1, <1>5
  <1>7. /\ sub'[Owner[i]].paid >= sub[Owner[i]].paid
        /\ \A m \in Masters \ {Owner[i]} : sub'[m] = sub[m]
    BY <1>2, <1>3, <1>4, GrantProType DEF IInv, TypeOK
  <1>8. Book!OnlyChanges(Owner[i])
    BY <1>7 DEF Book!OnlyChanges
  <1>9. i \in {j \in Invoices : provider[j] = "PAID"}
                \ {j \in Invoices : invoice[j].status = "PAID"}
    BY <1>1
  <1>10. ends'[Owner[i]] >= ends[Owner[i]]
    BY <1>2, <1>7
  <1>11. {j \in Invoices : provider'[j] = "PAID"} = {j \in Invoices : provider[j] = "PAID"}
    BY <1>4
  <1>12. Book!Credit(i)
    BY <1>4, <1>6, <1>8, <1>9, <1>10, <1>11 DEF Book!Credit
  <1> QED
    BY <1>12

LEMMA OrderOrders ==
    ASSUME IInv, NEW m \in Masters, Revoke(m) \/ \E d \in GrantDays : Grant(m, d)
    PROVE  Book!Order(m)
  <1>1. orders' = orders + 1 /\ UNCHANGED <<invoice, provider>>
    BY DEF Revoke, Grant, Ordered
  <1>2. \A o \in Masters \ {m} : sub'[o] = sub[o]
    BY DEF Revoke, Grant, IInv, TypeOK
  <1>3. Book!OnlyChanges(m)
    BY <1>2 DEF Book!OnlyChanges
  <1> QED
    BY <1>1, <1>3 DEF Book!Order

\* No other step makes an invoice paid, or unpaid.
LEMMA RowsStand ==
    ASSUME IInv,
           \/ \E h \in Handlers : Issue(h)
           \/ \E c \in Checkers : RecordUnpaid(c) \/ MarkNotified(c)
    PROVE  UNCHANGED Book!ledgerVars
  <1>1. CASE \E h \in Handlers : Issue(h)
    <2>1. PICK h \in Handlers : Issue(h)
      BY <1>1
    <2> DEFINE row == [status |-> "WAITING", expires |-> now + Lifetime, notified |-> FALSE]
    <2>2. PICK i \in Invoices : ~Exists(i) /\ invoice' = [invoice EXCEPT ![i] = row]
      BY <2>1 DEF Issue
    <2>3. row.status = "WAITING" /\ invoice[i].status = "ABSENT"
      BY <2>2 DEF Exists
    <2>4. UNCHANGED <<sub, provider, orders>>
      BY <2>1 DEF Issue
    <2> HIDE DEF row
    <2>5. \A j \in Invoices : invoice'[j] = IF j = i THEN row ELSE invoice[j]
      BY <2>2 DEF IInv, TypeOK
    <2> QED
      BY <2>3, <2>4, <2>5, LedgerStands DEF IInv
  <1>2. CASE \E c \in Checkers : RecordUnpaid(c)
    <2>1. PICK c \in Checkers : RecordUnpaid(c)
      BY <1>2
    <2>2. PICK i \in Invoices : i = task[c].inv
      BY <2>1 DEF IInv, ChecksInv, AnswersStand, Reads, RecordUnpaid
    <2> DEFINE status == IF task[c].seen \in DOMAIN Unpaid THEN Unpaid[task[c].seen]
                         ELSE invoice[i].status
    <2>3. /\ task[c].step = "asked" /\ task[c].seen # "PAID"
          /\ invoice' = [invoice EXCEPT ![i].status = status]
          /\ UNCHANGED <<sub, provider, orders>>
      BY <2>1, <2>2 DEF RecordUnpaid
    <2>4. task[c].seen # "WAITING" => provider[i] = task[c].seen
      BY <2>2, <2>3 DEF IInv, ChecksInv, AnswersStand, Reads
    <2>5. status = "PAID" <=> invoice[i].status = "PAID"
      <3>1. DOMAIN Unpaid = {"EXPIRED", "CANCELED", "LOST"}
        BY DEF Unpaid
      <3>2. CASE task[c].seen \in DOMAIN Unpaid
        <4>1. status # "PAID"
          BY <3>1, <3>2 DEF Unpaid
        <4>2. provider[i] # "PAID"
          BY <2>3, <2>4, <3>1, <3>2
        <4>3. invoice[i].status # "PAID"
          BY <4>2 DEF IInv, CreditedOnce
        <4> QED
          BY <4>1, <4>3
      <3>3. CASE task[c].seen \notin DOMAIN Unpaid
        BY <3>3
      <3> QED
        BY <3>2, <3>3
    <2> HIDE DEF status
    <2>6. \A j \in Invoices : invoice'[j].status = IF j = i THEN status ELSE invoice[j].status
      BY <2>3 DEF IInv, TypeOK, Row
    <2> QED
      BY <2>3, <2>5, <2>6, LedgerStands DEF IInv
  <1>3. CASE \E c \in Checkers : MarkNotified(c)
    <2>1. PICK c \in Checkers : MarkNotified(c)
      BY <1>3
    <2> DEFINE i == task[c].inv
    <2>2. /\ invoice' = [invoice EXCEPT ![i].notified = TRUE]
          /\ UNCHANGED <<sub, provider, orders>>
      BY <2>1 DEF MarkNotified
    <2> HIDE DEF i
    <2>3. \A j \in Invoices : invoice'[j].status = invoice[j].status
      BY <2>2 DEF IInv, TypeOK, Row
    <2> QED
      BY <2>2, <2>3, LedgerStands DEF IInv
  <1> QED
    BY <1>1, <1>2, <1>3

LEMMA LedgerStep ==
    ASSUME IInv, [Next]_vars
    PROVE  [Book!Next]_Book!ledgerVars
  <1> DEFINE Same == UNCHANGED <<sub, invoice, provider, orders>>
  <1>1. ASSUME Same
        PROVE  UNCHANGED Book!ledgerVars
    BY <1>1, LedgerStands DEF IInv
  <1>2. CASE \E h \in Handlers : Handle(h)
    <2>1. PICK h \in Handlers : Handle(h)
      BY <1>2
    <2>2. h \in Checkers
      BY DEF Checkers
    <2>3. CASE StartPro(h) \/ RenewPro(h) \/ NewInvoice(h)
      <3>1. Same
        BY <2>3 DEF StartPro, RenewPro, NewInvoice, Asks, Reuse, RequestInvoice
      <3> QED
        BY <1>1, <3>1
    <2>4. CASE Issue(h) \/ RecordUnpaid(h) \/ MarkNotified(h)
      BY <2>2, <2>4, RowsStand
    <2>5. CASE FindPaid(h) \/ Tell(h) \/ \E i \in Invoices : CheckInvoice(h, i)
      <3>1. Same
        BY <2>5 DEF FindPaid, Tell, CheckInvoice
      <3> QED
        BY <1>1, <3>1
    <2>6. CASE CheckCredits(h)
      <3>1. \E i \in Invoices : Book!Credit(i)
        BY <2>2, <2>6, CreditedCredits DEF CheckCredits, Creditable, Reads
      <3> QED
        BY <3>1 DEF Book!Next
    <2> QED
      BY <2>1, <2>3, <2>4, <2>5, <2>6 DEF Handle, Checks
  <1>3. CASE \E p \in Pollers : Work(p)
    <2>1. PICK p \in Pollers : Work(p)
      BY <1>3
    <2>2. p \in Checkers
      BY DEF Checkers
    <2>3. CASE RecordUnpaid(p) \/ MarkNotified(p)
      BY <2>2, <2>3, RowsStand
    <2>4. CASE Poll(p) \/ FindPaid(p) \/ Tell(p) \/ PollCredits(p) \/ \E d \in due[p] : Process(p, d)
      <3>1. Same
        BY <2>4 DEF Poll, FindPaid, Tell, PollCredits, Process
      <3> QED
        BY <1>1, <3>1
    <2>5. CASE PollCommits(p)
      <3>1. task[p].seen = "PAID" /\ invoice[task[p].inv].status # "PAID"
        BY <2>2, <2>5 DEF PollCommits, IInv, ChecksInv, CreditsPend
      <3>2. \E i \in Invoices : Book!Credit(i)
        BY <2>2, <2>5, <3>1, CreditedCredits DEF PollCommits, Reads
      <3> QED
        BY <3>2 DEF Book!Next
    <2> QED
      BY <2>1, <2>3, <2>4, <2>5 DEF Work, Checks
  <1>4. CASE \E c \in Checkers : ProviderFails(c) \/ SendRefused(c) \/ Death(c)
    <2>1. Same
      BY <1>4 DEF ProviderFails, SendRefused, Death
    <2> QED
      BY <1>1, <2>1
  <1>5. CASE \E i \in Invoices, a \in {"PAID", "EXPIRED", "CANCELED", "LOST"} : Settles(i, a)
    <2>1. (\E i \in Invoices : Book!Settle(i)) \/ UNCHANGED Book!ledgerVars
      BY <1>5, SettlesSettles
    <2> QED
      BY <2>1 DEF Book!Next
  <1>6. CASE \E m \in Masters : Revoke(m) \/ \E d \in GrantDays : Grant(m, d)
    <2>1. \E m \in Masters : Book!Order(m)
      BY <1>6, OrderOrders
    <2> QED
      BY <2>1 DEF Book!Next
  <1>7. CASE Refresh \/ (\E k \in JobKeys : Remind(k)) \/ Tick \/ UNCHANGED vars
    <2>1. Same
      BY <1>7 DEF Refresh, Remind, Tick, vars
    <2> QED
      BY <1>1, <2>1
  <1> QED
    BY <1>2, <1>3, <1>4, <1>5, <1>6, <1>7 DEF Next

\* Billing implements the ledger: credits follow payments, each at most once,
\* and besides them only the administrator's orders move anybody's paid time.
THEOREM LedgerKept == Spec => KeepsLedger
  <1>1. Init => Book!Init
    BY InitLedger
  <1>2. IInv /\ [Next]_vars => [Book!Next]_Book!ledgerVars
    BY LedgerStep
  <1> QED
    BY <1>1, <1>2, Inductive, PTL DEF Spec, KeepsLedger, Book!Spec
-----------------------------------------------------------------------------
(* Days that were paid for. *)

\* The multiples of n that an instant lies between.
LEMMA Quotient ==
    ASSUME NEW n \in Nat \ {0}, NEW w \in Int, NEW d \in Int
    PROVE  /\ w \div n \in Int /\ d * n \in Int
           /\ w \div n = d <=> (d * n <= w /\ w < d * n + n)
  <1>1. w = (w \div n) * n + (w % n) /\ w % n \in 0 .. (n - 1) /\ w \div n \in Int
    OBVIOUS
  <1>2. PICK q \in Int, r \in 0 .. (n - 1) : q = w \div n /\ r = w % n /\ w = q * n + r
    BY <1>1
  <1>3. \A a, b \in Int : a * b \in Int
    OBVIOUS
  <1>4. d * n \in Int /\ q * n \in Int
    BY <1>3
  <1>5. ASSUME d < q
        PROVE  ~(w < d * n + n)
    <2>1. q - d - 1 \in Nat /\ q = d + 1 + (q - d - 1)
      BY <1>5
    <2>2. PICK k \in Nat : q = d + 1 + k
      BY <2>1
    <2>3. q * n = d * n + n + k * n
      BY <2>2
    <2>4. k * n \in Nat
      <3>1. \A a, b \in Nat : a * b \in Nat
        OBVIOUS
      <3> QED
        BY <3>1
    <2> QED
      BY <1>2, <1>4, <2>3, <2>4
  <1>6. ASSUME q < d
        PROVE  ~(d * n <= w)
    <2>1. d - q - 1 \in Nat /\ d = q + 1 + (d - q - 1)
      BY <1>6
    <2>2. PICK k \in Nat : d = q + 1 + k
      BY <2>1
    <2>3. d * n = q * n + n + k * n
      BY <2>2
    <2>4. k * n \in Nat
      <3>1. \A a, b \in Nat : a * b \in Nat
        OBVIOUS
      <3> QED
        BY <3>1
    <2> QED
      BY <1>2, <1>4, <2>3, <2>4
  <1>7. q = d => d * n <= w /\ w < d * n + n
    BY <1>2, <1>4
  <1> QED
    BY <1>1, <1>2, <1>4, <1>5, <1>6, <1>7

LEMMA DayMonotone ==
    ASSUME NEW v \in Int, NEW w \in Int, v <= w
    PROVE  DayOf(v) \in Int /\ DayOf(w) \in Int /\ DayOf(v) <= DayOf(w)
  <1>1. DayLen \in Nat \ {0}
    BY PlanConstants
  <1>2. PICK p \in Int, q \in Int : p = DayOf(v) /\ q = DayOf(w)
    BY DayType
  <1>3. /\ p * DayLen \in Int /\ q * DayLen \in Int
        /\ p * DayLen <= v /\ w < q * DayLen + DayLen
    BY <1>1, <1>2, Quotient DEF DayOf
  <1>4. ASSUME q < p
        PROVE  FALSE
    <2>1. p - q - 1 \in Nat /\ p = q + 1 + (p - q - 1)
      BY <1>4
    <2>2. PICK k \in Nat : p = q + 1 + k
      BY <2>1
    <2>3. p * DayLen = q * DayLen + DayLen + k * DayLen
      BY <1>1, <2>2
    <2>4. k * DayLen \in Nat
      <3>1. \A a, b \in Nat : a * b \in Nat
        OBVIOUS
      <3> QED
        BY <1>1, <3>1
    <2> QED
      BY <1>1, <1>3, <2>3, <2>4
  <1> QED
    BY <1>2, <1>4

\* The last day of the time that runs to the end of a day is that day.
LEMMA LastDayOfDay ==
    ASSUME NEW day \in Int
    PROVE  LastDay(EndOfDay(day)) = day
  <1>1. DayLen \in Nat \ {0}
    BY PlanConstants
  <1>2. (day + 1) * DayLen = day * DayLen + DayLen /\ day * DayLen \in Int
    BY <1>1, Quotient
  <1>3. PICK w \in Int : w = day * DayLen + DayLen - 1
    BY <1>1, <1>2
  <1>4. day * DayLen <= w /\ w < day * DayLen + DayLen
    BY <1>1, <1>2, <1>3
  <1>5. w \div DayLen = day
    BY <1>1, <1>4, Quotient
  <1>6. EndOfDay(day) - 1 = w
    BY <1>1, <1>2, <1>3 DEF EndOfDay
  <1> QED
    BY <1>5, <1>6 DEF LastDay

\* The last day of what is granted now for some days.
LEMMA LastDayOfGrant ==
    ASSUME NEW at \in Nat, NEW days \in Nat
    PROVE  LastDay(at + days * DayLen + 1) = DayOf(at) + days
  <1>1. DayLen \in Nat \ {0}
    BY PlanConstants
  <1>2. PICK d \in Int : d = DayOf(at)
    BY DayType
  <1>3. d * DayLen \in Int /\ d * DayLen <= at /\ at < d * DayLen + DayLen
    BY <1>1, <1>2, Quotient DEF DayOf
  <1>4. days * DayLen \in Int
    BY <1>1, Quotient
  <1>5. (d + days) * DayLen = d * DayLen + days * DayLen
    BY <1>1
  <1>6. PICK w \in Int : w = at + days * DayLen
    BY <1>4
  <1>7. (d + days) * DayLen <= w /\ w < (d + days) * DayLen + DayLen
    BY <1>1, <1>3, <1>4, <1>5, <1>6
  <1>8. w \div DayLen = d + days
    BY <1>1, <1>7, Quotient
  <1>9. (at + days * DayLen + 1) - 1 = w
    BY <1>4, <1>6
  <1> QED
    BY <1>2, <1>8, <1>9 DEF LastDay

-----------------------------------------------------------------------------
(* What a check in flight read of the subscription was paid for as well. *)

Trials == {Null} \cup {s.trial : s \in FirstSubs}

\* A row whose paid time is covered for master m.
CoveredRow(m, s) == s.trial \in Trials /\ (s.paid # Null => Covered(m, s.paid))

CoveredBase(c) ==
    task[c].step \in Reads =>
        task[c].at <= now /\ CoveredRow(Owner[task[c].inv], task[c].base)

BasesCovered == \A c \in Checkers : CoveredBase(c)

DaysInv ==
    /\ \A m \in Masters : IsFiniteSet(Bought(m)) /\ CoveredRow(m, sub[m])
    /\ BasesCovered

LEMMA BeforeType ==
    ASSUME TypeOK
    PROVE  Before \subseteq Int
  <1>1. \A s \in FirstSubs : LastDay(s.paid) \in Int /\ LastDay(s.trial) \in Int
    BY LastDayType, PaymentConstants DEF SubRow
  <1>2. now \in Nat /\ GrantDays \subseteq Int
    BY PaymentConstants DEF TypeOK
  <1> QED
    BY <1>1, <1>2, DayOfNat DEF Before

\* Time, grants and credits only bring what covers.
LEMMA BeforeGrows ==
    ASSUME TypeOK, TypeOK', now <= now', orders > 0 => orders' > 0, NEW day \in Before
    PROVE  \E later \in Before' : later \in Int /\ day <= later
  <1>1. now \in Nat /\ now' \in Nat /\ GrantDays \subseteq Int /\ day \in Int
    BY PaymentConstants, BeforeType DEF TypeOK
  <1>2. DayOf(now) \in Int /\ DayOf(now)' \in Int /\ DayOf(now) <= DayOf(now)'
    <2>1. DayOf(now') \in Int /\ DayOf(now) \in Int /\ DayOf(now) <= DayOf(now')
      BY <1>1, DayMonotone
    <2> QED
      BY <2>1 DEF DayOf
  <1>3. CASE day = DayOf(now) - 1
    <2>1. DayOf(now)' - 1 \in Before'
      BY DEF Before
    <2> QED
      BY <1>2, <1>3, <2>1
  <1>4. CASE orders > 0 /\ \E d \in GrantDays : day = DayOf(now) + d
    <2>1. PICK d \in GrantDays : day = DayOf(now) + d
      BY <1>4
    <2>2. DayOf(now)' + d \in Before'
      BY <1>4 DEF Before
    <2> QED
      BY <1>1, <1>2, <2>1, <2>2
  <1>5. CASE \E s \in FirstSubs : day = LastDay(s.paid) \/ day = LastDay(s.trial)
    <2>1. day \in Before'
      BY <1>5 DEF Before
    <2> QED
      BY <1>1, <2>1
  <1> QED
    BY <1>3, <1>4, <1>5 DEF Before

LEMMA CoveredStays ==
    ASSUME TypeOK, TypeOK', now <= now', orders > 0 => orders' > 0,
           NEW m \in Masters, NEW until \in Nat,
           IsFiniteSet(Bought(m)'), Bought(m) \subseteq Bought(m)', Covered(m, until)
    PROVE  Covered(m, until)'
  <1>1. PICK day \in Before : LastDay(until) <= day + ProDays * Cardinality(Bought(m))
    BY DEF Covered
  <1>2. PICK later \in Before' : later \in Int /\ day <= later
    BY BeforeGrows
  <1>3. day \in Int /\ later \in Int
    BY <1>2, BeforeType
  <1>4. PICK k \in Nat, n \in Nat : k = Cardinality(Bought(m)) /\ n = Cardinality(Bought(m)') /\ k <= n
    BY FS_Subset, FS_CardinalityType
  <1>5. ProDays * k <= ProDays * n /\ ProDays * k \in Nat /\ ProDays * n \in Nat
    <2>1. n - k \in Nat /\ n = k + (n - k)
      BY <1>4
    <2>2. PICK j \in Nat : n = k + j
      BY <2>1
    <2>3. ProDays * n = ProDays * k + ProDays * j
      BY <2>2, PaymentConstants
    <2>4. \A a, b \in Nat : a * b \in Nat
      OBVIOUS
    <2>5. ProDays * k \in Nat /\ ProDays * j \in Nat /\ ProDays * n \in Nat
      BY <2>4, PaymentConstants
    <2> QED
      BY <2>3, <2>5
  <1>6. LastDay(until) \in Int /\ LastDay(until)' = LastDay(until)
    BY LastDayType DEF LastDay
  <1>7. LastDay(until)' <= later + ProDays * n
    BY <1>1, <1>2, <1>3, <1>4, <1>5, <1>6
  <1> QED
    BY <1>2, <1>4, <1>7 DEF Covered

LEMMA RowStays ==
    ASSUME TypeOK, TypeOK', now <= now', orders > 0 => orders' > 0,
           NEW m \in Masters, NEW s \in SubRow,
           IsFiniteSet(Bought(m)'), Bought(m) \subseteq Bought(m)', CoveredRow(m, s)
    PROVE  CoveredRow(m, s)'
  <1>1. s.paid \in Nat
    BY DEF SubRow
  <1> QED
    BY <1>1, CoveredStays DEF CoveredRow, Null, Trials

\* A check goes on with what it had read, or ends; or it has just read.
Continues(c) ==
    task'[c].step \in Reads =>
        /\ task[c].step \in Reads /\ task'[c].inv = task[c].inv
        /\ task'[c].base = task[c].base /\ task'[c].at = task[c].at

HasRead(c) ==
    task'[c].inv \in Invoices /\ task'[c].base = sub[Owner[task'[c].inv]] /\ task'[c].at = now

LEMMA BasesStay ==
    ASSUME IInv, IInv', DaysInv, now <= now', orders > 0 => orders' > 0,
           \A m \in Masters : IsFiniteSet(Bought(m)') /\ Bought(m) \subseteq Bought(m)',
           \A c \in Checkers : Continues(c) \/ HasRead(c)
    PROVE  BasesCovered'
  <1> SUFFICES ASSUME NEW c \in Checkers, task'[c].step \in Reads
               PROVE  CoveredBase(c)'
    BY DEF BasesCovered, CoveredBase
  <1>1. PICK i \in Invoices, s \in SubRow, at \in Nat :
            i = task'[c].inv /\ s = task'[c].base /\ at = task'[c].at
    <2>1. task'[c] \in Task
      BY DEF IInv, TypeOK
    <2>2. task'[c].inv \in Invoices
      BY DEF IInv, ChecksInv, AnswersStand
    <2>3. task'[c].base \in SubRow /\ task'[c].at \in Nat
      BY <2>1 DEF Task
    <2> QED
      BY <2>2, <2>3
  <1>2. Owner[i] \in Masters /\ now \in Nat /\ now' \in Nat
    BY PaymentConstants DEF IInv, TypeOK
  <1>3. at <= now /\ CoveredRow(Owner[i], s)
    <2>1. CASE Continues(c)
      BY <1>1, <2>1 DEF Continues, DaysInv, BasesCovered, CoveredBase
    <2>2. CASE HasRead(c)
      BY <1>1, <1>2, <2>2 DEF HasRead, DaysInv
    <2> QED
      BY <2>1, <2>2
  <1>4. CoveredRow(Owner[i], s)'
    BY <1>2, <1>3, RowStays DEF IInv
  <1>5. at <= now'
    BY <1>2, <1>3
  <1> QED
    BY <1>1, <1>4, <1>5 DEF CoveredBase

\* A step that credits nothing and moves nobody's paid time.
LEMMA QuietDays ==
    ASSUME IInv, IInv', DaysInv, now <= now', UNCHANGED <<sub, credits, orders>>,
           \A c \in Checkers : Continues(c) \/ HasRead(c)
    PROVE  DaysInv'
  <1>1. \A m \in Masters : IsFiniteSet(Bought(m)') /\ Bought(m) \subseteq Bought(m)'
    BY DEF DaysInv, Bought
  <1>2. \A m \in Masters : sub[m] \in SubRow
    BY DEF IInv, TypeOK
  <1>3. \A m \in Masters : CoveredRow(m, sub[m])'
    BY <1>1, <1>2, RowStays DEF IInv, DaysInv
  <1> QED
    BY <1>1, <1>3, BasesStay DEF DaysInv

LEMMA IdleStep == Idle.step \notin Reads
  BY DEF Idle, Reads

\* One checker takes up another state.
LEMMA BeginDays ==
    ASSUME IInv, IInv', DaysInv, NEW c \in Checkers, NEW t, Begin(c, t),
           UNCHANGED <<now, sub, credits, orders>>,
           \/ t.step \notin Reads
           \/ /\ task[c].step \in Reads /\ t.inv = task[c].inv
              /\ t.base = task[c].base /\ t.at = task[c].at
           \/ t.inv \in Invoices /\ t.base = sub[Owner[t.inv]] /\ t.at = now
    PROVE  DaysInv'
  <1>1. \A d \in Checkers : task'[d] = IF d = c THEN t ELSE task[d]
    BY DEF Begin, IInv, TypeOK
  <1>2. \A d \in Checkers : Continues(d) \/ HasRead(d)
    BY <1>1 DEF Continues, HasRead
  <1>3. now <= now'
    BY DEF IInv, TypeOK
  <1> QED
    BY <1>2, <1>3, QuietDays

LEMMA AskDays ==
    ASSUME IInv, IInv', DaysInv, NEW c \in Checkers, NEW i \in Invoices,
           Ask(c, i) \/ AskPaid(c, i), UNCHANGED <<now, sub, credits, orders>>
    PROVE  DaysInv'
  <1>1. CASE Ask(c, i)
    <2>1. PICK t : t = [Idle EXCEPT !.step = "asked", !.inv = i, !.who = Owner[i],
                             !.seen = provider[i], !.base = sub[Owner[i]], !.at = now]
      OBVIOUS
    <2>2. Begin(c, t)
      BY <1>1, <2>1 DEF Ask
    <2>3. t.inv = i /\ t.base = sub[Owner[i]] /\ t.at = now
      BY <2>1 DEF Idle
    <2> QED
      BY <2>2, <2>3, BeginDays
  <1>2. CASE AskPaid(c, i)
    <2>1. PICK t : t = [Idle EXCEPT !.step = "telling", !.inv = i, !.who = Owner[i],
                                  !.locks = c \in Pollers]
      OBVIOUS
    <2>2. Begin(c, t) \/ Begin(c, Idle)
      BY <1>2, <2>1 DEF AskPaid, AfterReading, Done
    <2>3. t.step \notin Reads
      BY <2>1 DEF Idle, Reads
    <2> QED
      BY <2>2, <2>3, IdleStep, BeginDays
  <1> QED
    BY <1>1, <1>2

LEMMA AfterReadingDays ==
    ASSUME IInv, IInv', DaysInv, NEW c \in Checkers, NEW i, NEW status,
           AfterReading(c, i, status), UNCHANGED <<now, sub, credits, orders>>
    PROVE  DaysInv'
  <1>1. PICK t : t = [Idle EXCEPT !.step = "telling", !.inv = i, !.who = Owner[i],
                                !.locks = c \in Pollers]
    OBVIOUS
  <1>2. Begin(c, t) \/ Begin(c, Idle)
    BY <1>1 DEF AfterReading, Done
  <1>3. t.step \notin Reads
    BY <1>1 DEF Idle, Reads
  <1> QED
    BY <1>2, <1>3, IdleStep, BeginDays

\* A credit adds ProDays to what its check had read.
LEMMA CreditedDays ==
    ASSUME IInv, IInv', DaysInv, NEW c \in Checkers, NEW notified, Credited(c, notified),
           task[c].step \in Reads, invoice[task[c].inv].status # "PAID",
           \A d \in Checkers : Continues(d)
    PROVE  DaysInv'
  <1>1. PICK i \in Invoices, s \in SubRow, at \in Nat :
            i = task[c].inv /\ s = task[c].base /\ at = task[c].at
    BY DEF IInv, TypeOK, Task, ChecksInv, AnswersStand
  <1>2. PICK m \in Masters : m = Owner[i]
    BY PaymentConstants
  <1>3. PICK until \in Nat : until = PaidUntil(s, at)
    BY PaidUntilType
  <1>4. /\ sub' = [sub EXCEPT ![m] = GrantPro(sub[m], until)]
        /\ credits' = [credits EXCEPT ![i] = credits[i] + 1]
        /\ UNCHANGED <<now, orders>>
    BY <1>1, <1>2, <1>3 DEF Credited
  <1>5. at <= now /\ CoveredRow(m, s)
    BY <1>1, <1>2 DEF DaysInv, BasesCovered, CoveredBase
  <1>6. now \in Nat /\ now' = now /\ orders' = orders /\ TypeOK /\ TypeOK'
    BY <1>4 DEF IInv, TypeOK
  <1>7. credits[i] = 0
    BY <1>1 DEF IInv, CreditedOnce
  <1>8. \A n \in Masters : Bought(n)' = IF n = m THEN Bought(n) \cup {i} ELSE Bought(n)
    <2>1. \A j \in Invoices : credits'[j] = IF j = i THEN 1 ELSE credits[j]
      BY <1>4, <1>7 DEF IInv, TypeOK
    <2> QED
      BY <1>2, <2>1 DEF Bought
  <1>9. i \notin Bought(m)
    BY <1>7 DEF Bought
  <1>10. /\ \A n \in Masters : IsFiniteSet(Bought(n)') /\ Bought(n) \subseteq Bought(n)'
         /\ Cardinality(Bought(m)') = Cardinality(Bought(m)) + 1
         /\ Cardinality(Bought(m)) \in Nat
    BY <1>8, <1>9, FS_AddElement, FS_CardinalityType DEF DaysInv
  <1>11. PICK k \in Nat : k = Cardinality(Bought(m))
    BY <1>10
  <1>12. ProDays \in Int /\ ProDays * k \in Int /\ ProDays * (k + 1) = ProDays * k + ProDays
    <2>1. \A a, b \in Int : a * b \in Int
      OBVIOUS
    <2> QED
      BY <2>1, PaymentConstants
  <1>13. PICK day \in Int :
            /\ \/ day = DayOf(at) - 1
               \/ \E t \in {s.paid, s.trial} : t > at /\ day = LastDay(t)
            /\ until = EndOfDay(day + ProDays)
    BY <1>3, PaidUntilDay
  <1>14. LastDay(until) = day + ProDays
    BY <1>12, <1>13, LastDayOfDay
  <1>15. \E b \in Before : day <= b + ProDays * k
    <2>1. 0 <= ProDays * k
      <3>1. \A a, b \in Nat : a * b \in Nat
        OBVIOUS
      <3> QED
        BY <3>1, PaymentConstants
    <2>2. CASE day = DayOf(at) - 1
      <3>1. DayOf(at) \in Int /\ DayOf(now) \in Int /\ DayOf(at) <= DayOf(now)
        BY <1>5, <1>6, DayMonotone
      <3>2. DayOf(now) - 1 \in Before
        BY DEF Before
      <3> QED
        BY <1>12, <2>1, <2>2, <3>1, <3>2
    <2>3. CASE s.paid > at /\ day = LastDay(s.paid)
      <3>1. Covered(m, s.paid)
        BY <1>5, <2>3 DEF CoveredRow, Null, SubRow
      <3> QED
        BY <1>11, <2>3, <3>1 DEF Covered
    <2>4. CASE s.trial > at /\ day = LastDay(s.trial)
      <3>1. s.trial \in Trials \ {Null}
        BY <1>5, <2>4 DEF CoveredRow, Null, SubRow
      <3>2. day \in Before
        BY <2>4, <3>1 DEF Trials, Before
      <3> QED
        BY <1>12, <2>1, <3>2
    <2> QED
      BY <1>13, <2>2, <2>3, <2>4
  <1>16. Covered(m, until)'
    <2>1. PICK b \in Before : b \in Int /\ day <= b + ProDays * k
      BY <1>6, <1>15, BeforeType
    <2>2. Before' = Before
      BY <1>4 DEF Before, DayOf
    <2>3. LastDay(until)' = LastDay(until)
      BY DEF LastDay
    <2>4. LastDay(until) <= b + ProDays * (k + 1)
      BY <1>12, <1>14, <2>1
    <2> QED
      BY <1>10, <1>11, <2>1, <2>2, <2>3, <2>4 DEF Covered
  <1>17. ASSUME NEW n \in Masters, NEW r \in SubRow, CoveredRow(n, r)
         PROVE  CoveredRow(n, r)'
    BY <1>6, <1>10, <1>17, RowStays
  <1>18. ASSUME NEW n \in Masters
         PROVE  CoveredRow(n, sub[n])'
    <2>1. PICK r \in SubRow : r = sub[n]
      BY DEF IInv, TypeOK
    <2>2. CoveredRow(n, r)'
      BY <1>17, <2>1 DEF DaysInv
    <2>3. CASE n # m
      <3>1. sub'[n] = r
        BY <1>4, <2>1, <2>3 DEF IInv, TypeOK
      <3> QED
        BY <2>2, <3>1
    <2>4. CASE n = m
      <3>1. sub'[n] = GrantPro(r, until)
        BY <1>4, <2>1, <2>4 DEF IInv, TypeOK
      <3>2. PICK g : g = GrantPro(r, until)
        OBVIOUS
      <3>3. g.trial = r.trial /\ g.paid \in {r.paid, until}
        BY <3>2 DEF GrantPro, Later
      <3>4. CoveredRow(m, g)'
        BY <1>16, <2>2, <2>4, <3>3 DEF CoveredRow
      <3> QED
        BY <2>4, <3>1, <3>2, <3>4
    <2> QED
      BY <2>3, <2>4
  <1>19. now <= now' /\ (orders > 0 => orders' > 0)
    BY <1>6
  <1>20. BasesCovered'
    BY <1>10, <1>19, BasesStay
  <1> QED
    BY <1>10, <1>18, <1>20 DEF DaysInv

\* What is granted is counted from today; what is revoked is not paid for any
\* more.
LEMMA OrderDays ==
    ASSUME IInv, IInv', DaysInv, NEW m \in Masters,
           Revoke(m) \/ \E d \in GrantDays : Grant(m, d)
    PROVE  DaysInv'
  <1>1. orders' = orders + 1 /\ UNCHANGED <<now, task, credits>>
    BY DEF Revoke, Grant, Ordered
  <1>2. /\ now \in Nat /\ now <= now' /\ orders' > 0 /\ TypeOK /\ TypeOK'
        /\ orders > 0 => orders' > 0
    BY <1>1 DEF IInv, TypeOK
  <1>3. \A n \in Masters : IsFiniteSet(Bought(n)') /\ Bought(n) \subseteq Bought(n)'
    BY <1>1 DEF DaysInv, Bought
  <1>4. ASSUME NEW n \in Masters, NEW r \in SubRow, CoveredRow(n, r)
        PROVE  CoveredRow(n, r)'
    BY <1>2, <1>3, <1>4, RowStays
  <1>5. ASSUME NEW n \in Masters
        PROVE  CoveredRow(n, sub[n])'
    <2>1. PICK r \in SubRow : r = sub[n]
      BY DEF IInv, TypeOK
    <2>2. CoveredRow(n, r)'
      BY <1>4, <2>1 DEF DaysInv
    <2>3. CASE n # m
      <3>1. sub'[n] = r
        BY <2>1, <2>3 DEF IInv, TypeOK, Revoke, Grant
      <3> QED
        BY <2>2, <3>1
    <2>4. CASE n = m /\ Revoke(m)
      <3>1. PICK g : g = RevokePro(r, now)
        OBVIOUS
      <3>2. sub'[n] = g
        BY <2>1, <2>4, <3>1 DEF IInv, TypeOK, Revoke
      <3>3. g.trial \in {r.trial, Null} /\ g.paid \in {r.paid, Null}
        BY <3>1 DEF RevokePro
      <3>4. CoveredRow(n, g)'
        BY <2>2, <3>3 DEF CoveredRow, Trials
      <3> QED
        BY <3>2, <3>4
    <2>5. CASE n = m /\ \E d \in GrantDays : Grant(m, d)
      <3>1. PICK d \in GrantDays : Grant(m, d)
        BY <2>5
      <3>2. d \in Nat /\ d * DayLen \in Nat
        <4>1. \A a, b \in Nat : a * b \in Nat
          OBVIOUS
        <4> QED
          BY <4>1, PaymentConstants, PlanConstants
      <3>3. PICK until \in Nat : until = now + d * DayLen + 1
        BY <1>2, <3>2
      <3>4. PICK g : g = GrantPro(r, until)
        OBVIOUS
      <3>5. sub'[n] = g
        BY <2>1, <2>5, <3>1, <3>3, <3>4 DEF IInv, TypeOK, Grant
      <3>6. LastDay(until) = DayOf(now) + d
        BY <1>2, <3>2, <3>3, LastDayOfGrant
      <3>7. (DayOf(now) + d) \in Before'
        BY <1>1, <1>2 DEF Before, DayOf
      <3>8. Covered(n, until)'
        <4>1. PICK k \in Nat : k = Cardinality(Bought(n)')
          BY <1>3, FS_CardinalityType
        <4>2. 0 <= ProDays * k /\ ProDays * k \in Int
          <5>1. \A a, b \in Nat : a * b \in Nat
            OBVIOUS
          <5> QED
            BY <5>1, PaymentConstants
        <4>3. DayOf(now) + d \in Int
          BY <1>2, <3>2, DayOfNat
        <4>4. LastDay(until)' <= (DayOf(now) + d) + ProDays * k
          BY <3>6, <4>2, <4>3 DEF LastDay
        <4> QED
          BY <3>7, <4>1, <4>4 DEF Covered
      <3>9. g.trial = r.trial /\ g.paid \in {r.paid, until}
        BY <3>4 DEF GrantPro, Later
      <3>10. CoveredRow(n, g)'
        BY <2>2, <3>8, <3>9 DEF CoveredRow
      <3> QED
        BY <3>5, <3>10
    <2> QED
      BY <2>3, <2>4, <2>5
  <1>6. BasesCovered'
    BY <1>1, <1>2, <1>3, BasesStay DEF Continues
  <1> QED
    BY <1>3, <1>5, <1>6 DEF DaysInv

LEMMA InitDays ==
    ASSUME Init
    PROVE  DaysInv
  <1>1. \A m \in Masters : Bought(m) = {}
    BY DEF Init, Bought
  <1>2. now = 0 /\ TypeOK
    BY InitIInv DEF Init, IInv
  <1>3. ASSUME NEW m \in Masters
        PROVE  CoveredRow(m, sub[m])
    <2>1. PICK s \in FirstSubs : s = sub[m]
      BY DEF Init
    <2>2. LastDay(s.paid) \in Before /\ LastDay(s.paid) \in Int
      BY LastDayType, PaymentConstants DEF Before, SubRow
    <2>3. Cardinality(Bought(m)) = 0
      BY <1>1, FS_EmptySet
    <2>4. LastDay(s.paid) <= LastDay(s.paid) + ProDays * 0
      BY <2>2, PaymentConstants
    <2>5. Covered(m, s.paid)
      BY <2>2, <2>3, <2>4 DEF Covered
    <2> QED
      BY <2>1, <2>5 DEF CoveredRow, Trials
  <1>4. BasesCovered
    BY IdleStep DEF Init, BasesCovered, CoveredBase
  <1> QED
    BY <1>1, <1>3, <1>4, FS_EmptySet DEF DaysInv

\* Who credits has read before, and reads nothing new.
LEMMA CreditsDays ==
    ASSUME IInv, IInv', DaysInv, NEW c \in Checkers, CheckCredits(c) \/ PollCommits(c)
    PROVE  DaysInv'
  <1>1. PICK t : t = [Idle EXCEPT !.step = "telling", !.inv = task[c].inv, !.who = task[c].who]
    OBVIOUS
  <1>2. Begin(c, t) \/ Begin(c, Idle)
    BY <1>1 DEF CheckCredits, PollCommits, Done
  <1>3. t.step \notin Reads
    BY <1>1 DEF Idle, Reads
  <1>4. \A d \in Checkers : Continues(d)
    BY <1>2, <1>3, IdleStep DEF Begin, Continues, IInv, TypeOK
  <1>5. task[c].step \in Reads /\ invoice[task[c].inv].status # "PAID"
    BY DEF CheckCredits, Creditable, PollCommits, Reads, IInv, ChecksInv, CreditsPend
  <1> QED
    BY <1>4, <1>5, CreditedDays DEF CheckCredits, PollCommits

LEMMA ChecksDays ==
    ASSUME IInv, IInv', DaysInv, NEW c \in Checkers, Checks(c)
    PROVE  DaysInv'
  <1>1. UNCHANGED <<now, sub, credits, orders>>
    BY DEF Checks, RecordUnpaid, FindPaid, Tell, MarkNotified
  <1>2. CASE RecordUnpaid(c) \/ FindPaid(c)
    BY <1>1, <1>2, AfterReadingDays DEF RecordUnpaid, FindPaid
  <1>3. CASE Tell(c)
    <2>1. task[c] \in Task /\ task[c].step \in {"crediting", "telling"}
      BY <1>3 DEF Tell, IInv, TypeOK
    <2>2. PICK t : t = [task[c] EXCEPT !.step = IF @ = "crediting" THEN "sent" ELSE "told"]
      OBVIOUS
    <2>3. Begin(c, t)
      BY <1>3, <2>2 DEF Tell
    <2>4. /\ t.step = IF task[c].step = "crediting" THEN "sent" ELSE "told"
          /\ t.inv = task[c].inv /\ t.base = task[c].base /\ t.at = task[c].at
      BY <2>1, <2>2 DEF Task
    <2> QED
      BY <1>1, <2>1, <2>3, <2>4, BeginDays DEF Reads
  <1>4. CASE MarkNotified(c)
    BY <1>1, <1>4, IdleStep, BeginDays DEF MarkNotified, Done
  <1> QED
    BY <1>2, <1>3, <1>4 DEF Checks

LEMMA HandleDays ==
    ASSUME IInv, IInv', DaysInv, NEW h \in Handlers, Handle(h)
    PROVE  DaysInv'
  <1>1. h \in Checkers
    BY DEF Checkers
  <1>2. CASE StartPro(h) \/ RenewPro(h) \/ NewInvoice(h)
    <2>1. PICK m \in Masters, kind \in {"start", "renew", "new"}, screen \in Screens :
              Reuse(h, m, kind, screen) \/ RequestInvoice(h, m, kind, screen)
      BY <1>2 DEF StartPro, RenewPro, NewInvoice, Asks, Screens
    <2>2. UNCHANGED <<now, sub, credits, orders>>
      BY <2>1 DEF Reuse, RequestInvoice
    <2>3. CASE Reuse(h, m, kind, screen)
      <3>1. UNCHANGED task /\ now <= now'
        BY <2>3 DEF Reuse, IInv, TypeOK
      <3> QED
        BY <2>2, <3>1, QuietDays DEF Continues
    <2>4. CASE RequestInvoice(h, m, kind, screen)
      <3>1. PICK t : t = [Idle EXCEPT !.step = "issuing", !.who = m, !.screen = screen]
        OBVIOUS
      <3>2. Begin(h, t) /\ t.step \notin Reads
        BY <2>4, <3>1 DEF RequestInvoice, Idle, Reads
      <3> QED
        BY <1>1, <2>2, <3>2, BeginDays
    <2> QED
      BY <2>1, <2>3, <2>4
  <1>3. CASE Issue(h)
    <2>1. Begin(h, Idle) /\ UNCHANGED <<now, sub, credits, orders>>
      BY <1>3 DEF Issue, Done
    <2> QED
      BY <1>1, <2>1, IdleStep, BeginDays
  <1>4. CASE \E i \in Invoices : CheckInvoice(h, i)
    <2>1. PICK i \in Invoices : CheckInvoice(h, i)
      BY <1>4
    <2>2. (Ask(h, i) \/ AskPaid(h, i)) /\ UNCHANGED <<now, sub, credits, orders>>
      BY <2>1 DEF CheckInvoice
    <2> QED
      BY <1>1, <2>2, AskDays
  <1> QED
    BY <1>1, <1>2, <1>3, <1>4, ChecksDays, CreditsDays DEF Handle

LEMMA WorkDays ==
    ASSUME IInv, IInv', DaysInv, NEW p \in Pollers, Work(p)
    PROVE  DaysInv'
  <1>1. p \in Checkers
    BY DEF Checkers
  <1>2. CASE Poll(p)
    <2>1. UNCHANGED <<now, sub, credits, orders, task>> /\ now <= now'
      BY <1>2 DEF Poll, IInv, TypeOK
    <2> QED
      BY <2>1, QuietDays DEF Continues
  <1>3. CASE PollCredits(p)
    <2>1. task[p] \in Task /\ task[p].step \in Reads
      BY <1>1, <1>3 DEF PollCredits, Creditable, IInv, TypeOK, Reads
    <2>2. PICK t : t = [task[p] EXCEPT !.step = "crediting", !.locks = TRUE]
      OBVIOUS
    <2>3. Begin(p, t) /\ UNCHANGED <<now, sub, credits, orders>>
      BY <1>3, <2>2 DEF PollCredits
    <2>4. t.inv = task[p].inv /\ t.base = task[p].base /\ t.at = task[p].at
      BY <2>1, <2>2 DEF Task
    <2> QED
      BY <1>1, <2>1, <2>3, <2>4, BeginDays
  <1>4. CASE \E d \in due[p] : Process(p, d)
    <2>1. PICK d \in due[p] : Process(p, d)
      BY <1>4
    <2>2. d.inv \in Invoices
      BY DEF IInv, TypeOK
    <2>3. UNCHANGED <<now, sub, credits, orders>>
      BY <2>1 DEF Process
    <2>4. CASE d.paid
      <3>1. PICK t : t = [Idle EXCEPT !.step = "telling", !.inv = d.inv, !.who = Owner[d.inv]]
        OBVIOUS
      <3>2. Begin(p, t) /\ t.step \notin Reads
        BY <2>1, <2>4, <3>1 DEF Process, Idle, Reads
      <3> QED
        BY <1>1, <2>3, <3>2, BeginDays
    <2>5. CASE ~d.paid
      <3>1. Ask(p, d.inv) \/ AskPaid(p, d.inv)
        BY <2>1, <2>5 DEF Process
      <3> QED
        BY <1>1, <2>2, <2>3, <3>1, AskDays
    <2> QED
      BY <2>4, <2>5
  <1> QED
    BY <1>1, <1>2, <1>3, <1>4, ChecksDays, CreditsDays DEF Work

LEMMA DaysStep ==
    ASSUME IInv, IInv', DaysInv, [Next]_vars
    PROVE  DaysInv'
  <1>1. CASE \E h \in Handlers : Handle(h)
    BY <1>1, HandleDays
  <1>2. CASE \E p \in Pollers : Work(p)
    BY <1>2, WorkDays
  <1>3. CASE \E c \in Checkers : ProviderFails(c) \/ SendRefused(c) \/ Death(c)
    <2>1. PICK c \in Checkers : Begin(c, Idle) /\ UNCHANGED <<now, sub, credits, orders>>
      BY <1>3 DEF ProviderFails, SendRefused, Death, Done
    <2> QED
      BY <2>1, IdleStep, BeginDays
  <1>4. CASE \/ \E i \in Invoices, a \in {"PAID", "EXPIRED", "CANCELED", "LOST"} : Settles(i, a)
             \/ Refresh \/ (\E k \in JobKeys : Remind(k)) \/ Tick \/ UNCHANGED vars
    <2>1. UNCHANGED <<sub, credits, orders, task>> /\ now <= now'
      BY <1>4 DEF Settles, Refresh, Remind, Tick, vars, IInv, TypeOK
    <2> QED
      BY <2>1, QuietDays DEF Continues
  <1>5. CASE \E m \in Masters : Revoke(m) \/ \E d \in GrantDays : Grant(m, d)
    BY <1>5, OrderDays
  <1> QED
    BY <1>1, <1>2, <1>3, <1>4, <1>5 DEF Next

\* A credit adds BILLING__PRO_DAYS to what a check read of the subscription,
\* which another check or the administrator may have moved since: still nobody's
\* paid time reaches further than the days he paid for after his trial, today or
\* a grant, for any length of a day and any number of payments.
THEOREM NeverOverCreditedHolds == Spec => []NeverOverCredited
  <1>1. Init => IInv /\ DaysInv
    BY InitIInv, InitDays
  <1>2. IInv /\ DaysInv /\ [Next]_vars => IInv' /\ DaysInv'
    BY StepKeeps, DaysStep
  <1>3. DaysInv => NeverOverCredited
    BY DEF DaysInv, CoveredRow, NeverOverCredited
  <1> QED
    BY <1>1, <1>2, <1>3, PTL DEF Spec
=============================================================================
