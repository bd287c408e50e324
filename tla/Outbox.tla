------------------------------- MODULE Outbox -------------------------------
(***************************************************************************)
(* The notification outbox: the table scheduled_notifications, one row per *)
(* deduplication key (repositories/scheduled_notification.py), and the     *)
(* loop of the reminders worker that delivers its rows                     *)
(* (workers/reminders.py).                                                 *)
(*                                                                         *)
(* What a message is about is left to the modules that compose with this   *)
(* one: here a worker that has loaded the facts of a job either drops it   *)
(* or sends it.  Every operation of the repository is one transaction and  *)
(* one action, but reschedule_after_error, which reads the attempts and    *)
(* writes the row in two.  A worker holds no transaction while it sends,   *)
(* so the bot may cancel, snooze or re-arm a job that is on its way.       *)
(***************************************************************************)
EXTENDS Naturals, FiniteSets

CONSTANTS
    Workers,        \* instances of the reminders worker
    Once,           \* keys inserted once (on_conflict_do_nothing)
    Refreshed,      \* keys upserted unless sent: subscription and invoice reminders
    Snoozed,        \* keys upserted whatever their state: the snoozed nudge of a booking
    Groups,         \* sets of keys cancelled together: the nudges of a booking,
                    \* the onboarding jobs of a master
    MaxAttempts, Backoff, BatchSize,
    Faults,         \* what may go wrong: of "telegram", "error", "database", "death"
    NoKey,          \* a worker with no job in hand
    MaxArmings,     \* bound: how often a key is armed
    Horizon         \* bound on the clock; what is due later is due then

Keys == Once \cup Refreshed \cup Snoozed

ASSUME OutboxConstants ==
    /\ IsFiniteSet(Workers)
    /\ Once \cap (Refreshed \cup Snoozed) = {}
    /\ Refreshed \cap Snoozed = {}
    /\ NoKey \notin Keys
    /\ Groups \subseteq SUBSET Keys
    /\ MaxAttempts \in Nat \ {0}
    /\ Backoff \in Nat
    /\ BatchSize \in Nat \ {0}
    /\ MaxArmings \in Nat
    /\ Horizon \in Nat

VARIABLES
    now,        \* the clock
    job,        \* the row of each key
    worker,     \* what each worker has reserved and is doing
    armed,      \* history: how often a row was inserted or made PENDING by an upsert
    delivered   \* history: how many messages each key put in front of the recipient

vars == <<now, job, worker, armed, delivered>>

-----------------------------------------------------------------------------
Live == {"PENDING", "SENDING"}

Final == {"SENT", "CANCELLED", "FAILED"}

\* "ABSENT": no row has the key
Row == [status : {"ABSENT"} \cup Live \cup Final, due : 0..Horizon, attempts : Nat]

Absent == [status |-> "ABSENT", due |-> 0, attempts |-> 0]

\* key: the reserved job in hand; result: what _send_job returned, "none" before;
\* after an error, "retry" or "failed" once the attempts have been read
Idle == [batch |-> {}, key |-> NoKey, result |-> "none", at |-> 0]

Worker == [batch : SUBSET Keys, key : Keys \cup {NoKey},
           result : {"none", "true", "false", "error", "retry", "failed"}, at : 0..Horizon]

By(t) == IF t > Horizon THEN Horizon ELSE t

May(fault) == fault \in Faults

Init ==
    /\ now = 0
    /\ job = [k \in Keys |-> Absent]
    /\ worker = [w \in Workers |-> Idle]
    /\ armed = [k \in Keys |-> 0]
    /\ delivered = [k \in Keys |-> 0]

-----------------------------------------------------------------------------
(* The operations of the bot and of the schedule refresh.  A transaction   *)
(* cancels live jobs, then arms others; which keys it can arm depends on   *)
(* the conflict clause of the INSERT that names them.                      *)

\* ON CONFLICT DO NOTHING: client notices, onboarding, client reminders, nudges
Insertable == {k \in Once : job[k].status = "ABSENT"}

\* ON CONFLICT DO UPDATE ... WHERE status <> 'sent'
Refreshable == {k \in Refreshed : job[k].status # "SENT"}

\* the unconditional DO UPDATE of snooze_attendance_nudges_for_booking
Snoozable == Snoozed

\* Mutant: a conflicting INSERT of any kind updates the row.
ArmableAny == Keys

Armable == Insertable \cup Refreshable \cup Snoozable

Fresh(due) == [status |-> "PENDING", due |-> due, attempts |-> 0]

\* Mutant: another spelling of the status, which is a plain string in the table.
CancelledMisspelt(row) ==
    IF row.status \in Live THEN [row EXCEPT !.status = "CANCELED"] ELSE row

\* cancel_attendance_nudges_for_booking, cancel_onboarding_for_master
Cancelled(row) == IF row.status \in Live THEN [row EXCEPT !.status = "CANCELLED"] ELSE row

Enqueue(cancel, fresh, due) ==
    /\ fresh \subseteq Armable
    /\ job' = [k \in Keys |-> IF k \in fresh THEN Fresh(due[k])
                              ELSE IF k \in cancel THEN Cancelled(job[k]) ELSE job[k]]
    /\ armed' = [k \in Keys |-> IF k \in fresh THEN armed[k] + 1 ELSE armed[k]]
    /\ UNCHANGED <<now, worker, delivered>>

-----------------------------------------------------------------------------
(* The worker. *)

\* Mutant: jobs a worker left SENDING are reserved again.
DueOrSending == {k \in Keys : job[k].status \in Live /\ job[k].due <= now}

DuePending == {k \in Keys : job[k].status = "PENDING" /\ job[k].due <= now}

\* ORDER BY due_at LIMIT n (the order of equal dues is any)
Earliest(batch) ==
    /\ batch \subseteq DuePending
    /\ Cardinality(batch) <= BatchSize
    /\ batch # DuePending => Cardinality(batch) = BatchSize
    /\ \A k \in batch, l \in DuePending \ batch : job[k].due <= job[l].due

\* Mutant: a reservation does not count as an attempt.
ReservedUncounted(row) == [row EXCEPT !.status = "SENDING"]

Reserved(row) == [row EXCEPT !.status = "SENDING", !.attempts = @ + 1]

\* reserve_due: FOR UPDATE SKIP LOCKED makes the reservations disjoint
Reserve(w, batch) ==
    /\ worker[w].key = NoKey
    /\ worker[w].batch = {}
    /\ batch # {}
    /\ Earliest(batch)
    /\ job' = [k \in Keys |-> IF k \in batch THEN Reserved(job[k]) ELSE job[k]]
    /\ worker' = [worker EXCEPT ![w] = [Idle EXCEPT !.batch = batch, !.at = now]]
    /\ UNCHANGED <<now, armed, delivered>>

\* _send_job up to the policy: "false" when the facts or the policy say no
Take(w, k, verdict) ==
    /\ worker[w].key = NoKey
    /\ k \in worker[w].batch
    /\ worker' = [worker EXCEPT ![w] =
          [batch |-> @.batch \ {k}, key |-> k, result |-> verdict, at |-> @.at]]
    /\ UNCHANGED <<now, job, armed, delivered>>

\* send_message reached the recipient
Deliver(w) ==
    /\ worker[w].key # NoKey
    /\ worker[w].result = "none"
    /\ worker' = [worker EXCEPT ![w].result = "true"]
    /\ delivered' = [delivered EXCEPT ![worker[w].key] = @ + 1]
    /\ UNCHANGED <<now, job, armed>>

\* a TelegramAPIError is logged and swallowed: maybe_send returns True all the same
DeliverRefused(w) ==
    /\ May("telegram")
    /\ worker[w].key # NoKey
    /\ worker[w].result = "none"
    /\ worker' = [worker EXCEPT ![w].result = "true"]
    /\ UNCHANGED <<now, job, armed, delivered>>

\* any other exception before the message went out: None
SendError(w) ==
    /\ May("error")
    /\ worker[w].key # NoKey
    /\ worker[w].result = "none"
    /\ worker' = [worker EXCEPT ![w].result = "error"]
    /\ UNCHANGED <<now, job, armed, delivered>>

\* Mutant: one attempt more.
OneMoreAttempt(row) == row.attempts <= MaxAttempts

AttemptLeft(row) == row.attempts < MaxAttempts

\* the SELECT of reschedule_after_error; it locks nothing
ReadAttempts(w) ==
    /\ worker[w].key # NoKey
    /\ worker[w].result = "error"
    /\ worker' = [worker EXCEPT ![w].result =
          IF AttemptLeft(job[worker[w].key]) THEN "retry" ELSE "failed"]
    /\ UNCHANGED <<now, job, armed, delivered>>

\* mark_sent, cancel, and the two UPDATEs of reschedule_after_error
StatusAfter(result) ==
    CASE result = "true"   -> "SENT"
      [] result = "false"  -> "CANCELLED"
      [] result = "retry"  -> "PENDING"
      [] result = "failed" -> "FAILED"

\* the UPDATE names the id alone: it does not ask what the row says by now
After(row, result, at) ==
    [row EXCEPT !.status = StatusAfter(result),
                !.due = IF result = "retry" THEN By(at + Backoff) ELSE @]

Dropped(w) ==
    worker' = [worker EXCEPT ![w] =
        IF @.batch = {} THEN Idle ELSE [@ EXCEPT !.key = NoKey, !.result = "none"]]

Finalize(w) ==
    /\ worker[w].key # NoKey
    /\ worker[w].result \notin {"none", "error"}
    /\ job' = [job EXCEPT ![worker[w].key] = After(@, worker[w].result, worker[w].at)]
    /\ Dropped(w)
    /\ UNCHANGED <<now, armed, delivered>>

\* _finalize_job raised: logged, and the loop goes on to the next job
FinalizeFails(w) ==
    /\ May("database")
    /\ worker[w].key # NoKey
    /\ worker[w].result # "none"
    /\ Dropped(w)
    /\ UNCHANGED <<now, job, armed, delivered>>

\* the process dies, or a load of _send_job raises and ends the loop; it restarts
Die(w) ==
    /\ May("death")
    /\ worker[w] # Idle
    /\ worker' = [worker EXCEPT ![w] = Idle]
    /\ UNCHANGED <<now, job, armed, delivered>>

Tick ==
    /\ now < Horizon
    /\ now' = now + 1
    /\ UNCHANGED <<job, worker, armed, delivered>>

-----------------------------------------------------------------------------
\* what the worker does about the batch it has
Process(w) ==
    \/ \E k \in Keys, verdict \in {"none", "false"} : Take(w, k, verdict)
    \/ Deliver(w)
    \/ DeliverRefused(w)
    \/ SendError(w)
    \/ ReadAttempts(w)
    \/ Finalize(w)
    \/ FinalizeFails(w)

Work(w) ==
    \/ \E batch \in SUBSET DuePending : Reserve(w, batch)
    \/ Process(w)

\* bound: MaxArmings, for the keys that can be armed again
Operate ==
    \E cancel \in Groups \cup {{}},
       fresh \in SUBSET {k \in Armable : k \in Once \/ armed[k] < MaxArmings} :
        /\ cancel \cup fresh # {}
        /\ \E due \in [fresh -> 0..Horizon] : Enqueue(cancel, fresh, due)

Next ==
    \/ Operate
    \/ \E w \in Workers : Work(w) \/ Die(w)
    \/ Tick

Spec == Init /\ [][Next]_vars

\* the loop of the worker runs for ever, and time passes
FairSpec == Spec /\ WF_vars(Tick) /\ \A w \in Workers : WF_vars(Work(w))

-----------------------------------------------------------------------------
(* Properties *)

\* Every variable holds values of its type.
TypeOK ==
    /\ now \in 0..Horizon
    /\ job \in [Keys -> Row]
    /\ worker \in [Workers -> Worker]
    /\ armed \in [Keys -> Nat]
    /\ delivered \in [Keys -> Nat]

\* No more messages go out under a key than it was armed for: neither a retry, nor
\* two workers, nor a worker that died and restarted, nor a job that was cancelled
\* or re-armed while it was being sent, delivers one twice.
AtMostOncePerArming == \A k \in Keys : delivered[k] <= armed[k]

\* A message whose key is inserted once reaches its recipient once at most, however
\* often it is scheduled again: a client is not reminded twice of one booking.
OnceEver == \A k \in Once : delivered[k] <= 1

Waiting(row) == IF row.status = "PENDING" THEN 1 ELSE 0

\* how many workers but one can have a key in hand, each from an arming of its own
Rivals(arms) ==
    LET holders == IF arms < Cardinality(Workers) THEN arms ELSE Cardinality(Workers)
    IN  IF holders = 0 THEN 0 ELSE holders - 1

\* A job is tried MaxAttempts times between two armings, and one that may be
\* reserved has an attempt left; but each worker that read the attempts before the
\* job was armed again can put it back once more.  With one worker, or under a key
\* that is inserted once, nobody can.
AttemptsBounded ==
    \A k \in Keys : job[k].attempts + Waiting(job[k]) <= MaxAttempts + Rivals(armed[k])

\* reserved, and no worker has it any more: nothing in the code takes it up again
Orphaned(k) ==
    job[k].status = "SENDING"
    /\ \A w \in Workers : k \notin worker[w].batch /\ worker[w].key # k

\* A job does not stay in the queue: each is sent, dropped or given up, its retries
\* included, or was in the hands of a worker that died or could not record the end.
EveryJobSettles ==
    \A k \in Keys : job[k].status \in Live ~> job[k].status \in Final \/ Orphaned(k)

=============================================================================
