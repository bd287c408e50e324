--------------------------- MODULE BookingsProofs ---------------------------
(***************************************************************************)
(* Proofs about Bookings, for every number of masters, clients, bookings   *)
(* and concurrent handlers, every set of slot lengths and start instants,  *)
(* and every bound on the clock.                                           *)
(*                                                                         *)
(* NoOverlap is not inductive: between its INSERT and its COMMIT a booking *)
(* is not a row yet, and the commit itself checks nothing.  SlotsInv says  *)
(* of the uncommitted inserts what NoOverlap says of the rows; TimeInv and *)
(* NoticesInv say of the other handlers in flight what their earlier reads *)
(* still guarantee of the clock and of the decision they are to announce.  *)
(***************************************************************************)
EXTENDS Bookings, FiniteSetTheorems, TLAPS

\* a handler acts on a row that exists, an insert on an id of its own
TasksNameRows ==
    /\ \A t \in Tasks :
          task[t].op \in {"move", "review", "reload", "notify"} => task[t].booking \in Rows
    /\ \A t \in InFlight("inserted") : task[t].booking \notin Rows
    /\ \A t, u \in InFlight("inserted") : t # u => task[t].booking # task[u].booking

\* an uncommitted insert is in nobody's way, and nobody is in its way
InsertsApart ==
    /\ \A t \in InFlight("inserted") : \A b \in Rows :
          booking[b].status \in Live => ~Clash(task[t].row, booking[b])
    /\ \A t, u \in InFlight("inserted") : t # u => ~Clash(task[t].row, task[u].row)

\* a row is inserted live, with no attendance
InsertsFresh ==
    \A t \in InFlight("inserted") :
        task[t].row.status \in Live /\ task[t].row.outcome = "UNKNOWN"

SlotsInv == TypeOK /\ NoOverlap /\ TasksNameRows /\ InsertsApart /\ InsertsFresh

\* a handler in flight is at most one tick old
Timely == \A t \in Tasks : task[t] # Idle => task[t].began <= now /\ now <= task[t].began + 1

\* the booking a reschedule is about cannot have been attended yet
MovesInTime ==
    \A t \in InFlight("move") :
        /\ task[t].at > task[t].began
        /\ booking[task[t].booking].start >= task[t].began
        /\ booking[task[t].booking].outcome = "UNKNOWN"

\* the message a handler is about to enqueue is true, and stays true
TruthOf(event, b) ==
    /\ event \in {"created_confirmed", "confirmed"} =>
          booking[b].status \in {"CONFIRMED", "CANCELLED"}
    /\ event = "declined" => booking[b].status = "DECLINED"
    /\ event = "cancelled_by_master" => booking[b].status = "CANCELLED"

NoticesTrue ==
    /\ \A t \in InFlight("notify") : TruthOf(task[t].event, task[t].booking)
    /\ \A t \in InFlight("reload") : booking[task[t].booking].status = "CANCELLED"

TimeInv == SlotsInv /\ Timely /\ MovesInTime /\ AttendanceAfterTheFact

\* a payment or an administrator leaves a row behind
OrdersKnown == \A m \in DOMAIN ordered : sub[m] # NoSub /\ ordered[m] <= now

\* the subscription a first booking may find, that saw none at the instant since or later:
\* still none, the row of a first order given meanwhile, or a trial started meanwhile
FreshRow(m, since) ==
    /\ ~LifetimePro(sub[m])
    /\ m \in DOMAIN ordered => since <= ordered[m]
    /\ \/ sub[m] = NoSub
       \/ m \in DOMAIN ordered /\ sub[m].trial = Null
       \/ \E x \in Nat : since <= x /\ x <= now /\ sub[m].trial = TrialUntil(x)

TrialsFresh ==
    \A t \in InFlight("inserted") :
        task[t].trial => FreshRow(task[t].row.master, task[t].began)

TrialsInv == SlotsInv /\ Timely /\ OrdersKnown /\ TrialsFresh

NoticesInv == SlotsInv /\ NoticesTrue /\ JobsTellTheTruth

-----------------------------------------------------------------------------
(* Types *)

\* What a handler in flight carries, by the kind of its operation.
LEMMA TaskTypes ==
    ASSUME TypeOK, NEW t \in Tasks
    PROVE  /\ task[t].op = "create" => task[t] \in CreateTask
           /\ task[t].op = "inserted" => task[t] \in InsertedTask
           /\ task[t].op = "move" => task[t] \in MoveTask
           /\ task[t].op = "review" => task[t] \in ReviewTask
           /\ task[t].op = "reload" => task[t] \in ReloadTask
           /\ task[t].op = "notify" => task[t] \in NotifyTask
           /\ task[t] # Idle => task[t].began \in Nat
<1>1. task[t] \in Task
  BY DEF TypeOK
<1>2. QED
  BY <1>1 DEF Task, Idle, CreateTask, InsertedTask, MoveTask, ReviewTask, ReloadTask, NotifyTask

\* The end of a trial is an instant.
LEMMA TrialUntilNat ==
    ASSUME NEW at \in Nat
    PROVE  TrialUntil(at) \in Nat
<1>1. DayOf(at) \in Nat
  BY PlanConstants DEF DayOf
<1>2. PICK d \in Nat : d = DayOf(at) + TrialDays - 1 + 1
  BY <1>1, PlanConstants
<1>3. \A x, y \in Nat : x * y \in Nat
  OBVIOUS
<1>4. d * DayLen \in Nat
  BY <1>3, PlanConstants
<1>5. QED
  BY <1>1, <1>2, <1>4 DEF TrialUntil, EndOfDay

\* The row a committing insert adds, and the rows it leaves alone.
LEMMA CommitTypes ==
    ASSUME TypeOK, NEW t \in Tasks, CreateCommit(t)
    PROVE  /\ Rows' = Rows \cup {task[t].booking}
           /\ booking'[task[t].booking] = task[t].row
           /\ \A b \in Rows : b # task[t].booking => booking'[b] = booking[b]
           /\ task[t].row \in Row
           /\ task[t].booking \in Bookings
           /\ booking' \in [DOMAIN booking' -> Row]
<1>1. task[t] \in InsertedTask
  BY TaskTypes DEF CreateCommit
<1>2. task[t].row \in Row /\ task[t].booking \in Bookings
  BY <1>1 DEF InsertedTask
<1>3. booking' = [x \in Rows \cup {task[t].booking} |->
                     IF x = task[t].booking THEN task[t].row ELSE booking[x]]
  BY DEF CreateCommit
<1>4. \A b \in Rows : booking[b] \in Row
  BY DEF TypeOK, Rows
<1>5. QED
  BY <1>2, <1>3, <1>4 DEF Rows

LEMMA InitType == Init => TypeOK
<1> SUFFICES ASSUME Init PROVE TypeOK
  OBVIOUS
<1>1. booking \in [DOMAIN booking -> Row] /\ DOMAIN booking \subseteq Bookings
  BY DEF Init
<1>2. sub \in [Masters -> SubRow] /\ slot \in [Masters -> Durations]
  BY BookingConstants DEF Init
<1>3. trialJobs \in [Masters -> Nat] /\ DOMAIN ordered \subseteq Masters
      /\ ordered \in [DOMAIN ordered -> Nat]
  BY DEF Init, Null
<1>4. task \in [Tasks -> Task]
  BY DEF Init, Task
<1>5. now \in Nat /\ outbox \subseteq Job
  BY DEF Init
<1>6. QED
  BY <1>1, <1>2, <1>3, <1>4, <1>5 DEF TypeOK

LEMMA InitSlots == Init => SlotsInv
BY InitType DEF Init, SlotsInv, NoOverlap, TasksNameRows, InsertsApart, InsertsFresh,
                InFlight, Idle, Rows

\* Beginning a handler changes nothing but its own entry of task.
LEMMA BeginType ==
    ASSUME TypeOK, NEW t \in Tasks, Begin(t)
    PROVE  TypeOK'
<1> USE DEF TypeOK, Become
<1>1. ASSUME NEW m \in Masters, NEW c \in Clients, NEW at \in Starts, NEW status \in Live,
             CreateCheck(t, m, c, at, status)
      PROVE  TypeOK'
  <2>1. HasBookings(m) \in BOOLEAN /\ ProNow(m) \in BOOLEAN
    BY DEF HasBookings, ProNow, IsPro
  <2>2. [op |-> "create", master |-> m, client |-> c, at |-> at, dur |-> slot[m],
         status |-> status, first |-> ~HasBookings(m), pro |-> ProNow(m),
         began |-> now] \in CreateTask
    BY <2>1 DEF CreateTask
  <2>3. QED
    BY <1>1, <2>2 DEF CreateCheck, Task
<1>2. ASSUME NEW b \in Bookings, NEW at \in Starts, MoveCheck(t, b, at)
      PROVE  TypeOK'
  BY <1>2 DEF MoveCheck, Task, MoveTask
<1>3. ASSUME NEW b \in Bookings, NEW verdict \in {"CONFIRMED", "DECLINED"},
             ReviewCheck(t, b, verdict)
      PROVE  TypeOK'
  <2>1. booking[b].start \in Starts
    BY <1>3 DEF ReviewCheck, Rows, Row
  <2>2. QED
    BY <1>3, <2>1 DEF ReviewCheck, Task, ReviewTask
<1>4. ASSUME NEW b \in Bookings, CancelByMaster(t, b)
      PROVE  TypeOK'
  <2>1. [booking[b] EXCEPT !.status = "CANCELLED"] \in Row
    BY <1>4 DEF CancelByMaster, Rows, Row, Status
  <2>2. [op |-> "reload", booking |-> b, began |-> now] \in Task
    BY DEF Task, ReloadTask
  <2>3. QED
    BY <1>4, <2>1, <2>2 DEF CancelByMaster, Rows
<1>5. QED
  BY <1>1, <1>2, <1>3, <1>4 DEF Begin
-----------------------------------------------------------------------------
(* The steps of a handler preserve the types. *)

LEMMA InsertType ==
    ASSUME TypeOK, NEW t \in Tasks, NEW b \in Bookings, CreateInsert(t, b)
    PROVE  TypeOK' /\ NewRow(t) \in Row
<1>1. task[t] \in CreateTask
  BY TaskTypes DEF CreateInsert
<1>2. NewRow(t) \in Row
  BY <1>1 DEF NewRow, Row, CreateTask, Status, Outcome
<1>3. (task[t].first /\ sub[task[t].master] = NoSub) \in BOOLEAN
  OBVIOUS
<1>4. [op |-> "inserted", booking |-> b, row |-> NewRow(t),
       trial |-> task[t].first /\ sub[task[t].master] = NoSub,
       pro |-> task[t].pro, began |-> task[t].began] \in InsertedTask
  BY <1>1, <1>2, <1>3 DEF InsertedTask, CreateTask
<1>5. QED
  BY <1>2, <1>4 DEF CreateInsert, TypeOK, Task, Become

LEMMA CommitType ==
    ASSUME TypeOK, NEW t \in Tasks, CreateCommit(t)
    PROVE  TypeOK'
<1> DEFINE b == task[t].booking
           m == task[t].row.master
<1>1. task[t] \in InsertedTask
  BY TaskTypes DEF CreateCommit
<1>2. m \in Masters /\ b \in Bookings /\ task[t].row.start \in Starts
  BY <1>1 DEF InsertedTask, Row
<1>3. DOMAIN booking' \subseteq Bookings /\ booking' \in [DOMAIN booking' -> Row]
  BY <1>2, CommitTypes DEF TypeOK, Rows
<1>4. TrialUntil(now) \in Nat
  BY TrialUntilNat DEF TypeOK
<1>5. UpsertTrial(sub[m], TrialUntil(now)) \in SubRow
  BY <1>2, <1>4 DEF UpsertTrial, SubRow, Later, TypeOK
<1>6. sub' \in [Masters -> SubRow] /\ trialJobs' \in [Masters -> Nat]
  BY <1>2, <1>4, <1>5 DEF CreateCommit, TypeOK
<1>7. [op |-> "notify", event |-> "created_confirmed", booking |-> b,
       at |-> task[t].row.start, pro |-> task[t].pro, began |-> task[t].began] \in NotifyTask
  BY <1>1, <1>2 DEF NotifyTask, InsertedTask, Events
<1>8. task' \in [Tasks -> Task]
  BY <1>7 DEF CreateCommit, TypeOK, Task, Become
<1>9. QED
  BY <1>3, <1>6, <1>8 DEF CreateCommit, TypeOK

\* A step that gives one row another value of its type, and one handler another
\* state of its type, and nothing else.
LEMMA UpdateType ==
    ASSUME TypeOK, NEW b \in Rows, NEW r \in Row, NEW t \in Tasks, NEW s \in Task,
           booking' = [booking EXCEPT ![b] = r], Become(t, s),
           UNCHANGED <<now, sub, slot, trialJobs, outbox, ordered>>
    PROVE  TypeOK'
BY DEF TypeOK, Become, Rows

LEMMA MoveType ==
    ASSUME TypeOK, TasksNameRows, NEW t \in Tasks, MoveCommit(t)
    PROVE  TypeOK' /\ Moved(t) \in Row /\ task[t].booking \in Rows
<1>1. task[t] \in MoveTask
  BY TaskTypes DEF MoveCommit
<1>2. task[t].booking \in Rows
  BY DEF TasksNameRows, MoveCommit
<1>3. Moved(t) \in Row
  BY <1>1, <1>2 DEF Moved, MoveTask, Row, TypeOK, Rows
<1>4. [op |-> "notify", event |-> "rescheduled", booking |-> task[t].booking,
       at |-> task[t].at, pro |-> TRUE, began |-> task[t].began] \in Task
  BY <1>1 DEF MoveTask, NotifyTask, Task, Events
<1>5. QED
  BY <1>2, <1>3, <1>4, UpdateType DEF MoveCommit

LEMMA ReviewType ==
    ASSUME TypeOK, TasksNameRows, NEW t \in Tasks, ReviewCommit(t)
    PROVE  TypeOK' /\ task[t].booking \in Rows /\ task[t] \in ReviewTask
<1> DEFINE b == task[t].booking
<1>1. task[t] \in ReviewTask
  BY TaskTypes DEF ReviewCommit
<1>2. b \in Rows
  BY DEF TasksNameRows, ReviewCommit
<1>3. [booking[b] EXCEPT !.status = task[t].verdict] \in Row
  BY <1>1, <1>2 DEF ReviewTask, Row, TypeOK, Rows, Status, Live
<1>4. ProNow(booking[b].master) \in BOOLEAN
  BY DEF ProNow, IsPro
<1>5. [op |-> "notify", event |-> VerdictEvent(task[t].verdict), booking |-> b,
       at |-> task[t].at, pro |-> ProNow(booking[b].master),
       began |-> task[t].began] \in Task
  BY <1>1, <1>4 DEF ReviewTask, NotifyTask, Task, Events, VerdictEvent
<1>6. booking' = [booking EXCEPT ![b] = [booking[b] EXCEPT !.status = task[t].verdict]]
  BY <1>2 DEF ReviewCommit, TypeOK, Rows
<1>7. QED
  BY <1>1, <1>2, <1>3, <1>5, <1>6, UpdateType DEF ReviewCommit

LEMMA ReloadType ==
    ASSUME TypeOK, TasksNameRows, NEW t \in Tasks, ReloadCancelled(t)
    PROVE  TypeOK' /\ task[t].booking \in Rows
<1> DEFINE b == task[t].booking
<1>1. task[t] \in ReloadTask
  BY TaskTypes DEF ReloadCancelled
<1>2. b \in Rows
  BY DEF TasksNameRows, ReloadCancelled
<1>3. booking[b].start \in Starts /\ ProNow(booking[b].master) \in BOOLEAN
  BY <1>2 DEF TypeOK, Rows, Row, ProNow, IsPro
<1>4. [op |-> "notify", event |-> "cancelled_by_master", booking |-> b,
       at |-> booking[b].start, pro |-> ProNow(booking[b].master),
       began |-> task[t].began] \in Task
  BY <1>1, <1>3 DEF ReloadTask, NotifyTask, Task, Events
<1>5. QED
  BY <1>2, <1>4 DEF ReloadCancelled, TypeOK, Become

LEMMA AnnounceType ==
    ASSUME TypeOK, NEW t \in Tasks, Announce(t)
    PROVE  TypeOK'
<1>1. task[t] \in NotifyTask
  BY TaskTypes DEF Announce
<1>2. JobOf(task[t]) \in Job
  BY <1>1 DEF NotifyTask, JobOf, Job
<1>3. QED
  BY <1>2 DEF Announce, TypeOK, Become, Task

LEMMA ProceedType ==
    ASSUME TypeOK, TasksNameRows, NEW t \in Tasks, Proceed(t)
    PROVE  TypeOK'
<1>1. CASE CreateRejected(t) \/ MoveRejected(t) \/ ReviewTooLate(t)
  BY <1>1 DEF CreateRejected, MoveRejected, ReviewTooLate, TypeOK, Become, Task
<1>2. QED
  BY <1>1, InsertType, CommitType, MoveType, ReviewType, ReloadType, AnnounceType DEF Proceed
-----------------------------------------------------------------------------
(* The remaining steps, and type correctness. *)

\* A step that changes the status or the outcome of one row, and nothing else.
LEMMA StatusType ==
    ASSUME TypeOK, NEW b \in Rows
    PROVE  /\ [booking[b] EXCEPT !.status = "CANCELLED"] \in Row
           /\ \A o \in {"ATTENDED", "NO_SHOW"} : [booking[b] EXCEPT !.outcome = o] \in Row
BY DEF TypeOK, Rows, Row, Status, Outcome

\* An order is about the subscription of its master, and leaves it with one.
LEMMA OrderShape ==
    ASSUME NEW m \in Masters, Order(m)
    PROVE  UNCHANGED <<now, booking, slot, trialJobs, outbox, task>>
BY DEF Order, Grant, Revoke

LEMMA OrderStep ==
    ASSUME TypeOK, NEW m \in Masters, Order(m)
    PROVE  /\ sub' \in [Masters -> SubRow]
           /\ \A o \in Masters \ {m} : sub'[o] = sub[o]
           /\ sub'[m] # NoSub /\ ~LifetimePro(sub'[m])
           /\ sub'[m].trial \in {sub[m].trial, Null}
           /\ DOMAIN ordered' = DOMAIN ordered \cup {m}
           /\ ordered' \in [DOMAIN ordered' -> Nat]
           /\ \A x \in DOMAIN ordered : ordered'[x] = ordered[x]
           /\ m \notin DOMAIN ordered => ordered'[m] = now
<1>1. sub[m] \in SubRow /\ now \in Nat
  BY DEF TypeOK
<1> DEFINE Written == /\ sub' \in [Masters -> SubRow]
                      /\ \A o \in Masters \ {m} : sub'[o] = sub[o]
                      /\ sub'[m] # NoSub /\ ~LifetimePro(sub'[m])
                      /\ sub'[m].trial \in {sub[m].trial, Null}
<1>2. ASSUME Revoke(m) PROVE Written
  <2>1. sub' = [sub EXCEPT ![m] = RevokePro(sub[m], now)] /\ sub[m] # NoSub
    BY <1>2 DEF Revoke
  <2>2. /\ RevokePro(sub[m], now) \in SubRow
        /\ RevokePro(sub[m], now) # NoSub /\ ~LifetimePro(RevokePro(sub[m], now))
        /\ RevokePro(sub[m], now).trial \in {sub[m].trial, Null}
    BY <1>1, <2>1 DEF RevokePro, SubRow, NoSub, LifetimePro, Null
  <2>3. QED
    BY <2>1, <2>2 DEF TypeOK
<1>3. ASSUME \E until \in PaidUntils : Grant(m, until) PROVE Written
  <2>1. PICK until \in PaidUntils : Grant(m, until)
    BY <1>3
  <2>2. until \in Nat /\ until > now
    BY <2>1, BookingConstants DEF Grant
  <2>3. /\ GrantPro(sub[m], until) \in SubRow
        /\ GrantPro(sub[m], until) # NoSub /\ ~LifetimePro(GrantPro(sub[m], until))
        /\ GrantPro(sub[m], until).trial = sub[m].trial
    BY <1>1, <2>2 DEF GrantPro, SubRow, NoSub, LifetimePro, Later, Null
  <2>4. QED
    BY <2>1, <2>3 DEF TypeOK, Grant
<1>4. ordered' = [x \in DOMAIN ordered \cup {m} |->
                     IF x \in DOMAIN ordered THEN ordered[x] ELSE now]
  BY DEF Order, Grant, Revoke, Ordered
<1>5. /\ DOMAIN ordered' = DOMAIN ordered \cup {m}
      /\ \A x \in DOMAIN ordered : ordered'[x] = ordered[x] /\ ordered[x] \in Nat
      /\ m \notin DOMAIN ordered => ordered'[m] = now
  BY <1>4 DEF TypeOK
<1>6. ordered' \in [DOMAIN ordered' -> Nat]
  BY <1>1, <1>4, <1>5
<1>7. Written
  BY <1>2, <1>3 DEF Order
<1>8. QED
  BY <1>5, <1>6, <1>7

LEMMA OtherTypes ==
    ASSUME TypeOK
    PROVE  /\ \A b \in Bookings : CancelByClient(b) => TypeOK'
           /\ \A b \in Bookings, o \in {"ATTENDED", "NO_SHOW"} : MarkAttendance(b, o) => TypeOK'
           /\ \A m \in Masters, d \in Durations : SetSlotSize(m, d) => TypeOK'
           /\ \A m \in Masters : Order(m) => TypeOK'
           /\ Crash => TypeOK'
           /\ Tick => TypeOK'
<1>1. ASSUME NEW b \in Bookings, CancelByClient(b) PROVE TypeOK'
  BY <1>1, StatusType DEF CancelByClient, TypeOK, Rows
<1>2. ASSUME NEW b \in Bookings, NEW o \in {"ATTENDED", "NO_SHOW"}, MarkAttendance(b, o)
      PROVE  TypeOK'
  BY <1>2, StatusType DEF MarkAttendance, TypeOK, Rows
<1>3. ASSUME NEW m \in Masters, NEW d \in Durations, SetSlotSize(m, d) PROVE TypeOK'
  BY <1>3 DEF SetSlotSize, TypeOK
<1>4. Crash => TypeOK'
  BY DEF Crash, TypeOK, Task
<1>5. Tick => TypeOK'
  BY DEF Tick, TypeOK
<1>6. ASSUME NEW m \in Masters, Order(m) PROVE TypeOK'
  <2>1. DOMAIN ordered' \subseteq Masters /\ ordered' \in [DOMAIN ordered' -> Nat]
    BY <1>6, OrderStep DEF TypeOK
  <2>2. QED
    BY <1>6, <2>1, OrderShape, OrderStep DEF TypeOK
<1>7. QED
  BY <1>1, <1>2, <1>3, <1>4, <1>5, <1>6

LEMMA NextType == TypeOK /\ TasksNameRows /\ [Next]_vars => TypeOK'
<1> SUFFICES ASSUME TypeOK, TasksNameRows, [Next]_vars PROVE TypeOK'
  OBVIOUS
<1>1. CASE UNCHANGED vars
  BY <1>1 DEF vars, TypeOK
<1>2. CASE Next
  BY <1>2, BeginType, ProceedType, OtherTypes DEF Next
<1>3. QED
  BY <1>1, <1>2

-----------------------------------------------------------------------------
(* Handlers in flight act on rows that exist, and on ids of their own. *)

\* The steps that add no row: the ids handlers hold stay good.
LEMMA SameRowsKeepNames ==
    ASSUME TypeOK, TasksNameRows, Rows' = Rows, NEW t \in Tasks, NEW s \in Task,
           Become(t, s),
           s.op \in {"move", "review", "reload", "notify"} => s.booking \in Rows,
           s.op # "inserted"
    PROVE  TasksNameRows'
<1>1. \A u \in Tasks : task'[u] = IF u = t THEN s ELSE task[u]
  BY DEF Become, TypeOK
<1>2. QED
  BY <1>1 DEF TasksNameRows, InFlight

\* What beginning a handler does to the handlers in flight.
LEMMA BeginShape ==
    ASSUME TypeOK, NEW t \in Tasks, Begin(t)
    PROVE  /\ task'[t].op \in {"create", "move", "review", "reload"}
           /\ task'[t].op # "create" => task'[t].booking \in Rows
           /\ Become(t, task'[t])
           /\ \A u \in Tasks \ {t} : task'[u] = task[u]
<1> USE DEF Become, TypeOK
<1>1. CASE \E m \in Masters, c \in Clients, at \in Starts, status \in Live :
              CreateCheck(t, m, c, at, status)
  BY <1>1 DEF CreateCheck
<1>2. CASE \E b \in Bookings, at \in Starts : MoveCheck(t, b, at)
  BY <1>2 DEF MoveCheck
<1>3. CASE \E b \in Bookings, verdict \in {"CONFIRMED", "DECLINED"} : ReviewCheck(t, b, verdict)
  BY <1>3 DEF ReviewCheck
<1>4. CASE \E b \in Bookings : CancelByMaster(t, b)
  BY <1>4 DEF CancelByMaster
<1>5. QED
  BY <1>1, <1>2, <1>3, <1>4 DEF Begin

LEMMA BeginNames ==
    ASSUME TypeOK, TasksNameRows, NEW t \in Tasks, Begin(t)
    PROVE  TasksNameRows'
<1>1. task'[t] \in Task
  BY BeginType DEF TypeOK
<1>2. Rows' = Rows
  BY DEF Begin, CreateCheck, MoveCheck, ReviewCheck, CancelByMaster, Rows, TypeOK
<1>3. QED
  BY <1>1, <1>2, BeginShape, SameRowsKeepNames

LEMMA InsertNames ==
    ASSUME TypeOK, TasksNameRows, NEW t \in Tasks, NEW b \in Bookings, CreateInsert(t, b)
    PROVE  TasksNameRows'
<1>1. /\ \A u \in Tasks \ {t} : task'[u] = task[u]
      /\ task'[t].op = "inserted" /\ task'[t].booking = b
      /\ Rows' = Rows
  BY DEF CreateInsert, Become, TypeOK, Rows
<1>2. b \notin Rows /\ \A u \in InFlight("inserted") : task[u].booking # b
  BY DEF CreateInsert
<1>3. QED
  BY <1>1, <1>2 DEF TasksNameRows, InFlight

LEMMA CommitNames ==
    ASSUME TypeOK, TasksNameRows, NEW t \in Tasks, CreateCommit(t)
    PROVE  TasksNameRows'
<1>1. /\ \A u \in Tasks \ {t} : task'[u] = task[u]
      /\ task'[t].op \in {"idle", "notify"}
      /\ task'[t].op = "notify" => task'[t].booking = task[t].booking
  BY DEF CreateCommit, Become, TypeOK, Idle
<1>2. Rows' = Rows \cup {task[t].booking}
  BY CommitTypes
<1>3. t \in InFlight("inserted")
  BY DEF CreateCommit, InFlight
<1>4. QED
  BY <1>1, <1>2, <1>3 DEF TasksNameRows, InFlight

LEMMA ProceedNames ==
    ASSUME TypeOK, TasksNameRows, NEW t \in Tasks, Proceed(t)
    PROVE  TasksNameRows'
<1>1. CASE \/ CreateRejected(t) \/ MoveRejected(t) \/ ReviewTooLate(t)
           \/ MoveCommit(t) \/ ReviewCommit(t) \/ ReloadCancelled(t) \/ Announce(t)
  <2>1. TypeOK'
    BY ProceedType
  <2>2. task'[t] \in Task /\ Become(t, task'[t])
    BY <1>1, <2>1 DEF TypeOK, CreateRejected, MoveRejected, ReviewTooLate, MoveCommit,
                      ReviewCommit, ReloadCancelled, Announce, Become
  <2>3. Rows' = Rows
    BY <1>1 DEF CreateRejected, MoveRejected, ReviewTooLate, MoveCommit,
                ReviewCommit, ReloadCancelled, Announce, Rows, TypeOK
  <2>4. /\ task'[t].op \in {"idle", "notify"}
        /\ task'[t].op = "notify" => task'[t].booking = task[t].booking
    BY <1>1 DEF CreateRejected, MoveRejected, ReviewTooLate, MoveCommit,
                ReviewCommit, ReloadCancelled, Announce, Become, TypeOK, Idle
  <2>5. task'[t].op = "notify" => task[t].booking \in Rows
    BY <1>1 DEF CreateRejected, MoveRejected, ReviewTooLate, MoveCommit,
                ReviewCommit, ReloadCancelled, Announce, Become, TypeOK, Idle, TasksNameRows
  <2>6. QED
    BY <2>2, <2>3, <2>4, <2>5, SameRowsKeepNames
<1>2. QED
  BY <1>1, InsertNames, CommitNames DEF Proceed

LEMMA NextNames == TypeOK /\ TasksNameRows /\ [Next]_vars => TasksNameRows'
<1> SUFFICES ASSUME TypeOK, TasksNameRows, [Next]_vars PROVE TasksNameRows'
  OBVIOUS
<1>1. CASE UNCHANGED vars
  BY <1>1 DEF vars, TasksNameRows, InFlight, Rows
<1>2. CASE \E b \in Bookings : CancelByClient(b)
  BY <1>2 DEF CancelByClient, TasksNameRows, InFlight, Rows, TypeOK
<1>3. CASE \E b \in Bookings, outcome \in {"ATTENDED", "NO_SHOW"} : MarkAttendance(b, outcome)
  BY <1>3 DEF MarkAttendance, TasksNameRows, InFlight, Rows, TypeOK
<1>4. CASE \E m \in Masters, d \in Durations : SetSlotSize(m, d)
  BY <1>4 DEF SetSlotSize, TasksNameRows, InFlight, Rows
<1>5. CASE Crash
  BY <1>5 DEF Crash, TasksNameRows, InFlight, Idle
<1>6. CASE Tick
  BY <1>6 DEF Tick, TasksNameRows, InFlight, Rows
<1>7. CASE \E m \in Masters : Order(m)
  BY <1>7, OrderShape DEF TasksNameRows, InFlight, Rows
<1>8. QED
  BY <1>1, <1>2, <1>3, <1>4, <1>5, <1>6, <1>7, BeginNames, ProceedNames DEF Next

\* Every variable holds values of its type: the sequence never hands an id out
\* twice, and no handler outlives the row it is about.
THEOREM TypeCorrect == Spec => []TypeOK
<1>1. Init => TypeOK /\ TasksNameRows
  BY InitSlots DEF SlotsInv
<1>2. TypeOK /\ TasksNameRows /\ [Next]_vars => (TypeOK /\ TasksNameRows)'
  BY NextType, NextNames
<1>3. QED
  BY <1>1, <1>2, PTL DEF Spec
-----------------------------------------------------------------------------
(* No two live bookings of a master share an instant. *)

LEMMA ClashSym == ASSUME NEW r, NEW s PROVE Clash(r, s) <=> Clash(s, r)
BY DEF Clash

\* A step that moves no row, revives none and inserts none keeps slots apart.
LEMMA QuietKeepsSlots ==
    ASSUME SlotsInv, Rows' = Rows,
           \A b \in Rows : /\ booking'[b].master = booking[b].master
                           /\ booking'[b].start = booking[b].start
                           /\ booking'[b].dur = booking[b].dur
                           /\ booking'[b].status \in Live => booking[b].status \in Live,
           \A u \in Tasks : task'[u].op = "inserted" => task'[u] = task[u]
    PROVE  NoOverlap' /\ InsertsApart' /\ InsertsFresh'
<1>1. \A b, o \in Rows : Clash(booking'[b], booking'[o]) <=> Clash(booking[b], booking[o])
  BY DEF Clash
<1>2. NoOverlap'
  BY <1>1 DEF SlotsInv, NoOverlap
<1>3. \A u \in InFlight("inserted")' : u \in InFlight("inserted") /\ task'[u] = task[u]
  BY DEF InFlight
<1>4. \A u \in InFlight("inserted"), b \in Rows :
          Clash(task[u].row, booking'[b]) <=> Clash(task[u].row, booking[b])
  BY DEF Clash
<1>5. InsertsApart'
  BY <1>3, <1>4 DEF SlotsInv, InsertsApart
<1>6. InsertsFresh'
  BY <1>3 DEF SlotsInv, InsertsFresh
<1>7. QED
  BY <1>2, <1>5, <1>6

\* The steps of a handler that neither insert, commit an insert nor move a row.
LEMMA HandlerQuiet ==
    ASSUME SlotsInv, NEW t \in Tasks,
           \/ Begin(t)
           \/ CreateRejected(t) \/ MoveRejected(t) \/ ReviewTooLate(t)
           \/ ReviewCommit(t) \/ ReloadCancelled(t) \/ Announce(t)
    PROVE  NoOverlap' /\ InsertsApart' /\ InsertsFresh'
<1> USE DEF SlotsInv, TypeOK, Become
<1>1. CASE Begin(t) /\ UNCHANGED booking
  <2>1. task'[t].op # "inserted" /\ \A u \in Tasks \ {t} : task'[u] = task[u]
    BY <1>1, BeginShape
  <2>2. QED
    BY <1>1, <2>1, QuietKeepsSlots DEF Rows
<1>2. CASE \E b \in Bookings : CancelByMaster(t, b)
  <2>1. task'[t].op # "inserted" /\ \A u \in Tasks \ {t} : task'[u] = task[u]
    BY <1>2 DEF CancelByMaster
  <2>2. /\ Rows' = Rows
        /\ \A b \in Rows : \/ booking'[b] = booking[b]
                           \/ /\ booking'[b] = [booking[b] EXCEPT !.status = "CANCELLED"]
                              /\ booking[b] \in Row
    BY <1>2 DEF CancelByMaster, Rows
  <2>3. \A b \in Rows : /\ booking'[b].master = booking[b].master
                        /\ booking'[b].start = booking[b].start
                        /\ booking'[b].dur = booking[b].dur
                        /\ booking'[b].status \in Live => booking[b].status \in Live
    BY <2>2 DEF Row, Live
  <2>4. QED
    BY <2>1, <2>2, <2>3, QuietKeepsSlots
<1>3. CASE \/ CreateRejected(t) \/ MoveRejected(t) \/ ReviewTooLate(t)
           \/ ReloadCancelled(t) \/ Announce(t)
  <2>1. task'[t].op # "inserted" /\ \A u \in Tasks \ {t} : task'[u] = task[u]
    BY <1>3 DEF CreateRejected, MoveRejected, ReviewTooLate, ReloadCancelled, Announce, Idle
  <2>2. booking' = booking
    BY <1>3 DEF CreateRejected, MoveRejected, ReviewTooLate, ReloadCancelled, Announce
  <2>3. QED
    BY <2>1, <2>2, QuietKeepsSlots DEF Rows
<1>4. CASE ReviewCommit(t)
  <2>1. task'[t].op # "inserted" /\ \A u \in Tasks \ {t} : task'[u] = task[u]
    BY <1>4 DEF ReviewCommit
  <2>2. task[t].booking \in Rows
    BY <1>4, ReviewType
  <2>3. /\ Rows' = Rows
        /\ \A b \in Rows : \/ booking'[b] = booking[b]
                           \/ /\ booking'[b] = [booking[b] EXCEPT !.status = task[t].verdict]
                              /\ booking[b] \in Row /\ booking[b].status = "PENDING"
    BY <1>4, <2>2 DEF ReviewCommit, Rows
  <2>4. \A b \in Rows : /\ booking'[b].master = booking[b].master
                        /\ booking'[b].start = booking[b].start
                        /\ booking'[b].dur = booking[b].dur
                        /\ booking'[b].status \in Live => booking[b].status \in Live
    BY <2>3 DEF Row, Live
  <2>5. QED
    BY <2>1, <2>3, <2>4, QuietKeepsSlots
<1>5. Begin(t) => UNCHANGED booking \/ \E b \in Bookings : CancelByMaster(t, b)
  BY DEF Begin, CreateCheck, MoveCheck, ReviewCheck
<1>6. QED
  BY <1>1, <1>2, <1>3, <1>4, <1>5

\* The insert itself: the constraint and the wait put the new row clear of all.
LEMMA InsertKeepsSlots ==
    ASSUME SlotsInv, NEW t \in Tasks, NEW b \in Bookings, CreateInsert(t, b)
    PROVE  NoOverlap' /\ InsertsApart' /\ InsertsFresh'
<1>1. /\ \A u \in Tasks \ {t} : task'[u] = task[u]
      /\ task'[t].op = "inserted" /\ task'[t].row = NewRow(t)
      /\ booking' = booking /\ Rows' = Rows
  BY DEF CreateInsert, Become, SlotsInv, TypeOK, Rows
<1>2. InFlight("inserted")' = InFlight("inserted") \cup {t} /\ t \notin InFlight("inserted")
  BY <1>1 DEF InFlight, CreateInsert
<1>3. \A o \in Rows : booking[o].status \in Live => ~Clash(NewRow(t), booking[o])
  BY DEF CreateInsert, Excluded
<1>4. \A u \in InFlight("inserted") : ~Clash(NewRow(t), task[u].row)
  BY DEF CreateInsert, MustWait
<1>5. NoOverlap'
  BY <1>1 DEF SlotsInv, NoOverlap
<1>6. InsertsApart'
  <2>1. \A u \in InFlight("inserted") : task'[u] = task[u]
    BY <1>1, <1>2 DEF InFlight
  <2>2. \A u \in InFlight("inserted") : ~Clash(task[u].row, NewRow(t))
    BY <1>4, ClashSym
  <2>3. QED
    BY <1>1, <1>2, <1>3, <1>4, <2>1, <2>2 DEF SlotsInv, InsertsApart
<1>7. NewRow(t).status \in Live /\ NewRow(t).outcome = "UNKNOWN"
  <2>1. task[t] \in CreateTask
    BY TaskTypes DEF CreateInsert, SlotsInv
  <2>2. QED
    BY <2>1 DEF NewRow, CreateTask
<1>8. InsertsFresh'
  <2>1. \A u \in InFlight("inserted") : task'[u] = task[u]
    BY <1>1, <1>2 DEF InFlight
  <2>2. QED
    BY <1>1, <1>2, <1>7, <2>1 DEF SlotsInv, InsertsFresh
<1>9. QED
  BY <1>5, <1>6, <1>8

\* The commit checks nothing: the row it shows has been clear since the insert.
LEMMA CommitKeepsSlots ==
    ASSUME SlotsInv, NEW t \in Tasks, CreateCommit(t)
    PROVE  NoOverlap' /\ InsertsApart' /\ InsertsFresh'
<1> DEFINE n == task[t].booking
<1>1. t \in InFlight("inserted")
  BY DEF CreateCommit, InFlight
<1>2. /\ \A u \in Tasks \ {t} : task'[u] = task[u]
      /\ task'[t].op # "inserted"
  BY DEF CreateCommit, Become, SlotsInv, TypeOK, Idle
<1>3. InFlight("inserted")' = InFlight("inserted") \ {t}
  BY <1>2 DEF InFlight
<1>4. /\ Rows' = Rows \cup {n} /\ n \notin Rows
      /\ booking'[n] = task[t].row
      /\ \A b \in Rows : booking'[b] = booking[b]
  BY <1>1, CommitTypes DEF SlotsInv, TasksNameRows
<1>5. \A b \in Rows : booking[b].status \in Live =>
          ~Clash(task[t].row, booking[b]) /\ ~Clash(booking[b], task[t].row)
  BY <1>1, ClashSym DEF SlotsInv, InsertsApart
<1>6. NoOverlap'
  BY <1>4, <1>5 DEF SlotsInv, NoOverlap
<1>7. \A u \in InFlight("inserted") \ {t} : task'[u] = task[u] /\ ~Clash(task[u].row, task[t].row)
  BY <1>1, <1>2 DEF SlotsInv, InsertsApart, InFlight
<1>8. InsertsApart'
  BY <1>3, <1>4, <1>7 DEF SlotsInv, InsertsApart
<1>9. InsertsFresh'
  BY <1>3, <1>7 DEF SlotsInv, InsertsFresh
<1>10. QED
  BY <1>6, <1>8, <1>9

\* The move: the constraint guards the row while it is live.
LEMMA MoveKeepsSlots ==
    ASSUME SlotsInv, NEW t \in Tasks, MoveCommit(t)
    PROVE  NoOverlap' /\ InsertsApart' /\ InsertsFresh'
<1> DEFINE n == task[t].booking
<1>1. /\ \A u \in Tasks \ {t} : task'[u] = task[u]
      /\ task'[t].op # "inserted" /\ task[t].op # "inserted"
  BY DEF MoveCommit, Become, SlotsInv, TypeOK
<1>2. InFlight("inserted")' = InFlight("inserted")
      /\ \A u \in InFlight("inserted") : task'[u] = task[u]
  BY <1>1 DEF InFlight
<1>3. n \in Rows /\ Rows' = Rows /\ booking'[n] = Moved(t)
      /\ \A b \in Rows \ {n} : booking'[b] = booking[b]
  BY MoveType DEF SlotsInv, MoveCommit, TypeOK, Rows
<1>4. Moved(t).status \in Live => \A b \in Rows \ {n} :
          booking[b].status \in Live => ~Clash(Moved(t), booking[b]) /\ ~Clash(booking[b], Moved(t))
  BY ClashSym DEF MoveCommit, Excluded
<1>5. Moved(t).status \in Live => \A u \in InFlight("inserted") : ~Clash(task[u].row, Moved(t))
  BY ClashSym DEF MoveCommit, MustWait
<1>6. NoOverlap'
  BY <1>3, <1>4 DEF SlotsInv, NoOverlap
<1>7. InsertsApart'
  BY <1>2, <1>3, <1>5 DEF SlotsInv, InsertsApart
<1>8. InsertsFresh'
  BY <1>2 DEF SlotsInv, InsertsFresh
<1>9. QED
  BY <1>6, <1>7, <1>8

LEMMA NextSlots == SlotsInv /\ [Next]_vars => SlotsInv'
<1> SUFFICES ASSUME SlotsInv, [Next]_vars PROVE SlotsInv'
  OBVIOUS
<1>1. TypeOK' /\ TasksNameRows'
  BY NextType, NextNames DEF SlotsInv
<1>2. NoOverlap' /\ InsertsApart' /\ InsertsFresh'
  <2>1. CASE \/ UNCHANGED vars \/ Tick
             \/ \E m \in Masters : Order(m) \/ \E d \in Durations : SetSlotSize(m, d)
    <3>1. booking' = booking /\ task' = task
      BY <2>1, OrderShape DEF vars, Tick, SetSlotSize
    <3>2. QED
      BY <3>1, QuietKeepsSlots DEF Rows
  <2>2. CASE \E t \in Tasks : Begin(t) \/ Proceed(t)
    BY <2>2, HandlerQuiet, InsertKeepsSlots, CommitKeepsSlots, MoveKeepsSlots DEF Proceed
  <2>3. CASE \E b \in Bookings : CancelByClient(b)
    <3>1. /\ Rows' = Rows /\ task' = task
          /\ \A b \in Rows : \/ booking'[b] = booking[b]
                             \/ /\ booking'[b] = [booking[b] EXCEPT !.status = "CANCELLED"]
                                /\ booking[b] \in Row
      BY <2>3 DEF CancelByClient, SlotsInv, TypeOK, Rows
    <3>2. \A b \in Rows : /\ booking'[b].master = booking[b].master
                          /\ booking'[b].start = booking[b].start
                          /\ booking'[b].dur = booking[b].dur
                          /\ booking'[b].status \in Live => booking[b].status \in Live
      BY <3>1 DEF Row, Live
    <3>3. QED
      BY <3>1, <3>2, QuietKeepsSlots
  <2>4. CASE \E b \in Bookings, outcome \in {"ATTENDED", "NO_SHOW"} : MarkAttendance(b, outcome)
    <3>1. PICK o \in {"ATTENDED", "NO_SHOW"} :
             /\ Rows' = Rows /\ task' = task
             /\ \A b \in Rows : \/ booking'[b] = booking[b]
                                \/ /\ booking'[b] = [booking[b] EXCEPT !.outcome = o]
                                   /\ booking[b] \in Row
      BY <2>4 DEF MarkAttendance, SlotsInv, TypeOK, Rows
    <3>2. \A b \in Rows : /\ booking'[b].master = booking[b].master
                          /\ booking'[b].start = booking[b].start
                          /\ booking'[b].dur = booking[b].dur
                          /\ booking'[b].status = booking[b].status
      BY <3>1 DEF Row
    <3>3. QED
      BY <3>1, <3>2, QuietKeepsSlots
  <2>5. CASE Crash
    <3>1. booking' = booking /\ \A u \in Tasks : task'[u].op # "inserted"
      BY <2>5 DEF Crash, Idle
    <3>2. QED
      BY <3>1, QuietKeepsSlots DEF Rows
  <2>6. QED
    BY <2>1, <2>2, <2>3, <2>4, <2>5 DEF Next
<1>3. QED
  BY <1>1, <1>2 DEF SlotsInv

\* However creations and reschedules interleave, and whichever of them crash,
\* two live bookings of one master never share an instant.
THEOREM NoOverlapHolds == Spec => []NoOverlap
<1>1. SlotsInv => NoOverlap
  BY DEF SlotsInv
<1>2. QED
  BY InitSlots, NextSlots, <1>1, PTL DEF Spec
-----------------------------------------------------------------------------
(* What a step does to the rows. *)

\* the steps of a status
Ages(from, to) ==
    \/ from = "PENDING" /\ to \in {"CONFIRMED", "DECLINED", "CANCELLED"}
    \/ from = "CONFIRMED" /\ to = "CANCELLED"

StatusSet(b, s) == booking' = [booking EXCEPT ![b] = [booking[b] EXCEPT !.status = s]]

OutcomeSet(b, o) == booking' = [booking EXCEPT ![b] = [booking[b] EXCEPT !.outcome = o]]

\* the session of b is over, and nobody has said who came
Unattended(b) ==
    /\ booking[b].status = "CONFIRMED" /\ booking[b].outcome = "UNKNOWN"
    /\ booking[b].start + booking[b].dur <= now

LEMMA RowsStep ==
    ASSUME SlotsInv, [Next]_vars
    PROVE  \/ booking' = booking
           \/ \E t \in Tasks : CreateCommit(t) \/ MoveCommit(t)
           \/ \E b \in Rows, s \in Status : Ages(booking[b].status, s) /\ StatusSet(b, s)
           \/ \E b \in Rows, o \in {"ATTENDED", "NO_SHOW"} : Unattended(b) /\ OutcomeSet(b, o)
<1> USE DEF Ages, Status, Live
<1>1. CASE \/ UNCHANGED vars \/ Crash \/ Tick
           \/ \E m \in Masters : Order(m) \/ \E d \in Durations : SetSlotSize(m, d)
  BY <1>1, OrderShape DEF vars, Crash, Tick, SetSlotSize
<1>2. CASE \E t \in Tasks : Begin(t)
  <2>1. CASE \E t \in Tasks, b \in Bookings : CancelByMaster(t, b)
    BY <2>1 DEF CancelByMaster, StatusSet, SlotsInv, TypeOK, Rows
  <2>2. QED
    BY <1>2, <2>1 DEF Begin, CreateCheck, MoveCheck, ReviewCheck
<1>3. ASSUME NEW t \in Tasks, Proceed(t)
      PROVE  \/ booking' = booking
             \/ CreateCommit(t) \/ MoveCommit(t)
             \/ \E b \in Rows, s \in Status : Ages(booking[b].status, s) /\ StatusSet(b, s)
  <2>1. CASE ReviewCommit(t)
    <3>1. task[t].booking \in Rows /\ task[t] \in ReviewTask
      BY <2>1, ReviewType DEF SlotsInv
    <3>2. booking[task[t].booking].status = "PENDING" /\ StatusSet(task[t].booking, task[t].verdict)
      BY <2>1, <3>1 DEF ReviewCommit, StatusSet, Rows
    <3>3. task[t].verdict \in {"CONFIRMED", "DECLINED"}
      BY <3>1 DEF ReviewTask
    <3>4. QED
      BY <3>1, <3>2, <3>3
  <2>2. QED
    BY <1>3, <2>1 DEF Proceed, CreateInsert, CreateRejected, MoveRejected, ReviewTooLate,
                      ReloadCancelled, Announce
<1>4. CASE \E b \in Bookings : CancelByClient(b)
  BY <1>4 DEF CancelByClient, StatusSet, SlotsInv, TypeOK, Rows
<1>5. CASE \E b \in Bookings, o \in {"ATTENDED", "NO_SHOW"} : MarkAttendance(b, o)
  BY <1>5 DEF MarkAttendance, OutcomeSet, Unattended, SlotsInv, TypeOK, Rows
<1>6. QED
  BY <1>1, <1>2, <1>3, <1>4, <1>5 DEF Next

\* What becomes of one row: it stays, and only one of its fields may change.
LEMMA RowStep ==
    ASSUME SlotsInv, [Next]_vars, NEW b \in Rows
    PROVE  /\ b \in Rows'
           /\ \/ booking'[b] = booking[b]
              \/ /\ \E t \in Tasks : /\ MoveCommit(t) /\ task[t].booking = b
                                     /\ booking'[b].start = task[t].at
                 /\ booking'[b].status = booking[b].status
                 /\ booking'[b].outcome = booking[b].outcome
              \/ /\ Ages(booking[b].status, booking'[b].status)
                 /\ booking'[b].start = booking[b].start
                 /\ booking'[b].dur = booking[b].dur
                 /\ booking'[b].outcome = booking[b].outcome
              \/ /\ Unattended(b)
                 /\ booking'[b].status = booking[b].status
                 /\ booking'[b].start = booking[b].start
                 /\ booking'[b].dur = booking[b].dur
<1>1. booking[b] \in Row
  BY DEF SlotsInv, TypeOK, Rows
<1>2. CASE booking' = booking
  BY <1>2 DEF Rows
<1>3. ASSUME NEW t \in Tasks, CreateCommit(t)
      PROVE  b \in Rows' /\ booking'[b] = booking[b]
  <2>1. t \in InFlight("inserted")
    BY <1>3 DEF CreateCommit, InFlight
  <2>2. task[t].booking # b
    BY <2>1 DEF SlotsInv, TasksNameRows
  <2>3. QED
    BY <1>3, <2>2, CommitTypes DEF SlotsInv
<1>4. ASSUME NEW t \in Tasks, MoveCommit(t)
      PROVE  /\ b \in Rows'
             /\ task[t].booking # b => booking'[b] = booking[b]
             /\ task[t].booking = b => /\ booking'[b].start = task[t].at
                                       /\ booking'[b].status = booking[b].status
                                       /\ booking'[b].outcome = booking[b].outcome
  BY <1>1, <1>4 DEF MoveCommit, Moved, Rows, Row
<1>5. ASSUME NEW c \in Rows, NEW s \in Status, Ages(booking[c].status, s), StatusSet(c, s)
      PROVE  /\ b \in Rows'
             /\ c # b => booking'[b] = booking[b]
             /\ c = b => /\ booking'[b].status = s
                         /\ booking'[b].start = booking[b].start
                         /\ booking'[b].dur = booking[b].dur
                         /\ booking'[b].outcome = booking[b].outcome
  BY <1>1, <1>5 DEF StatusSet, Rows, Row
<1>6. ASSUME NEW c \in Rows, NEW o \in {"ATTENDED", "NO_SHOW"}, OutcomeSet(c, o)
      PROVE  /\ b \in Rows'
             /\ c # b => booking'[b] = booking[b]
             /\ c = b => /\ booking'[b].status = booking[b].status
                         /\ booking'[b].start = booking[b].start
                         /\ booking'[b].dur = booking[b].dur
  BY <1>1, <1>6 DEF OutcomeSet, Rows, Row
<1>7. QED
  BY <1>2, <1>3, <1>4, <1>5, <1>6, RowsStep

\* A decision is never reversed, whatever status a handler had read.
THEOREM LifeCycleHolds == Spec => LifeCycle
<1>1. ASSUME SlotsInv, [Next]_vars
      PROVE  \A b \in Rows :
                booking'[b].status # booking[b].status =>
                   \/ booking[b].status = "PENDING"
                   \/ booking[b].status = "CONFIRMED" /\ booking'[b].status = "CANCELLED"
  BY <1>1, RowStep DEF Ages
<1>2. QED
  BY <1>1, InitSlots, NextSlots, PTL DEF Spec, LifeCycle
-----------------------------------------------------------------------------
(* Time: what a handler in flight read of the clock and of its booking. *)

\* A handler goes on from where it was, begins, ends, or is not concerned.
LEMMA TaskStep ==
    ASSUME SlotsInv, [Next]_vars, NEW t \in Tasks
    PROVE  \/ task'[t] = task[t]
           \/ task'[t] = Idle
           \/ Begin(t)
           \/ Proceed(t)
<1> USE DEF SlotsInv, TypeOK, Become
<1>1. ASSUME NEW u \in Tasks, u # t, Begin(u)
      PROVE  task'[t] = task[t]
  BY <1>1, BeginShape
<1>2. ASSUME NEW u \in Tasks, u # t, Proceed(u)
      PROVE  task'[t] = task[t]
  BY <1>2 DEF Proceed, CreateInsert, CreateRejected, CreateCommit, MoveCommit, MoveRejected,
              ReviewCommit, ReviewTooLate, ReloadCancelled, Announce
<1>3. QED
  BY <1>1, <1>2, OrderShape
     DEF Next, vars, CancelByClient, MarkAttendance, SetSlotSize, Crash, Tick

LEMMA RowNumbers ==
    ASSUME NEW r \in Row
    PROVE  r.start \in Nat /\ r.dur \in Nat /\ r.dur >= 2
<1>1. r.start \in Starts /\ r.dur \in Durations
  BY DEF Row
<1>2. r.start \in Nat /\ r.dur \in Nat \ {0, 1}
  BY <1>1, BookingConstants
<1>3. QED
  BY <1>2

LEMMA BeganStep ==
    ASSUME SlotsInv, NEW t \in Tasks
    PROVE  /\ Begin(t) => task[t] = Idle /\ task'[t].began = now /\ now' = now
           /\ Proceed(t) => /\ now' = now /\ task[t] # Idle
                            /\ task'[t] = Idle \/ task'[t].began = task[t].began
                            /\ task'[t].op # "move"
<1> USE DEF SlotsInv, TypeOK, Become, Idle
<1>1. ASSUME Begin(t)
      PROVE  task[t] = Idle /\ task'[t].began = now /\ now' = now
  <2>1. CASE \E m \in Masters, c \in Clients, at \in Starts, status \in Live :
                CreateCheck(t, m, c, at, status)
    BY <2>1 DEF CreateCheck
  <2>2. CASE \E b \in Bookings, at \in Starts : MoveCheck(t, b, at)
    BY <2>2 DEF MoveCheck
  <2>3. CASE \E b \in Bookings, verdict \in {"CONFIRMED", "DECLINED"} :
                ReviewCheck(t, b, verdict)
    BY <2>3 DEF ReviewCheck
  <2>4. CASE \E b \in Bookings : CancelByMaster(t, b)
    BY <2>4 DEF CancelByMaster
  <2>5. QED
    BY <1>1, <2>1, <2>2, <2>3, <2>4 DEF Begin
<1>2. ASSUME Proceed(t)
      PROVE  /\ now' = now /\ task[t] # Idle
             /\ task'[t] = Idle \/ task'[t].began = task[t].began
             /\ task'[t].op # "move"
  BY <1>2 DEF Proceed, CreateInsert, CreateRejected, CreateCommit, MoveCommit, MoveRejected,
              ReviewCommit, ReviewTooLate, ReloadCancelled, Announce
<1>3. QED
  BY <1>1, <1>2

LEMMA TimelyStep ==
    ASSUME SlotsInv, Timely, [Next]_vars
    PROVE  Timely'
<1>1. now \in Nat /\ \A t \in Tasks : task[t] # Idle => task[t].began \in Nat
  BY TaskTypes DEF SlotsInv, TypeOK
<1>2. CASE Tick
  BY <1>1, <1>2 DEF Tick, Timely
<1>3. CASE ~Tick
  <2>1. now' = now
    <3>1. \A t \in Tasks : Begin(t) \/ Proceed(t) => now' = now
      BY BeganStep
    <3>2. QED
      BY <1>3, <3>1, OrderShape
         DEF Next, vars, CancelByClient, MarkAttendance, SetSlotSize, Crash
  <2>2. QED
    BY <1>1, <2>1, TaskStep, BeganStep DEF Timely
<1>4. QED
  BY <1>2, <1>3

LEMMA NowGrows ==
    ASSUME SlotsInv, [Next]_vars
    PROVE  now \in Nat /\ now' \in Nat /\ now' >= now
BY BeganStep, OrderShape
   DEF SlotsInv, TypeOK, Next, vars, CancelByClient, MarkAttendance, SetSlotSize, Crash, Tick

\* A move that is still to be written is of a booking that nobody can have
\* attended: its start, wherever it has been moved since, is too recent.
LEMMA MovesStep ==
    ASSUME SlotsInv, Timely, MovesInTime, AttendanceAfterTheFact, [Next]_vars
    PROVE  MovesInTime'
<1> SUFFICES ASSUME NEW t \in Tasks, task'[t].op = "move"
             PROVE  /\ task'[t].at > task'[t].began
                    /\ booking'[task'[t].booking].start >= task'[t].began
                    /\ booking'[task'[t].booking].outcome = "UNKNOWN"
  BY DEF MovesInTime, InFlight
<1>1. CASE task'[t] = task[t]
  <2> DEFINE b == task[t].booking
             n == task[t].began
  <2>1. /\ task[t] \in MoveTask /\ task[t] # Idle /\ t \in InFlight("move")
        /\ b \in Rows /\ booking[b] \in Row
        /\ now \in Nat /\ n \in Nat
    BY <1>1, TaskTypes DEF SlotsInv, TypeOK, TasksNameRows, InFlight, Idle, Rows
  <2>2. /\ task[t].at > n /\ booking[b].start >= n /\ booking[b].outcome = "UNKNOWN"
        /\ n <= now /\ now <= n + 1
    BY <2>1 DEF MovesInTime, Timely
  <2>3. /\ booking[b].start \in Nat /\ booking[b].dur \in Nat /\ booking[b].dur >= 2
    BY <2>1, RowNumbers
  <2>4. ~Unattended(b)
    BY <2>1, <2>2, <2>3 DEF Unattended
  <2>5. ASSUME NEW u \in Tasks, MoveCommit(u), task[u].booking = b
        PROVE  task[u].at >= n
    <3>1. task[u] \in MoveTask /\ task[u] # Idle /\ u \in InFlight("move")
      BY <2>5, TaskTypes DEF SlotsInv, MoveCommit, InFlight, Idle
    <3>2. task[u].began \in Nat /\ task[u].at \in Starts
      BY <3>1 DEF MoveTask
    <3>3. task[u].at \in Nat
      BY <3>2, BookingConstants
    <3>4. task[u].at > task[u].began /\ now <= task[u].began + 1
      BY <3>1 DEF MovesInTime, Timely
    <3>5. QED
      BY <2>1, <2>2, <3>2, <3>3, <3>4
  <2>6. booking'[b].start >= n /\ booking'[b].outcome = "UNKNOWN"
    BY <2>1, <2>2, <2>4, <2>5, RowStep
  <2>7. QED
    BY <1>1, <2>2, <2>6
<1>2. CASE Begin(t)
  <2>1. PICK b \in Bookings, at \in Starts : MoveCheck(t, b, at)
    <3>1. CASE \E m \in Masters, c \in Clients, at \in Starts, status \in Live :
                  CreateCheck(t, m, c, at, status)
      BY <3>1 DEF CreateCheck, SlotsInv, TypeOK, Become
    <3>2. CASE \E b \in Bookings, verdict \in {"CONFIRMED", "DECLINED"} :
                  ReviewCheck(t, b, verdict)
      BY <3>2 DEF ReviewCheck, SlotsInv, TypeOK, Become
    <3>3. CASE \E b \in Bookings : CancelByMaster(t, b)
      BY <3>3 DEF CancelByMaster, SlotsInv, TypeOK, Become
    <3>4. QED
      BY <1>2, <3>1, <3>2, <3>3 DEF Begin
  <2>2. /\ task'[t].at = at /\ task'[t].booking = b /\ task'[t].began = now
        /\ b \in Rows /\ at > now /\ booking[b].start > now /\ booking' = booking
    BY <2>1 DEF MoveCheck, SlotsInv, TypeOK, Become
  <2>3. booking[b] \in Row /\ now \in Nat
    BY <2>2 DEF SlotsInv, TypeOK, Rows
  <2>4. booking[b].start \in Nat /\ booking[b].dur \in Nat
    BY <2>3, RowNumbers
  <2>5. booking[b].outcome = "UNKNOWN"
    BY <2>2, <2>3, <2>4 DEF AttendanceAfterTheFact
  <2>6. QED
    BY <2>2, <2>3, <2>4, <2>5
<1>3. QED
  BY <1>1, <1>2, TaskStep, BeganStep DEF Idle

LEMMA AttendanceStep ==
    ASSUME SlotsInv, Timely, MovesInTime, AttendanceAfterTheFact, [Next]_vars
    PROVE  AttendanceAfterTheFact'
<1> SUFFICES ASSUME NEW b \in Rows', booking'[b].outcome # "UNKNOWN"
             PROVE  /\ booking'[b].status \in {"CONFIRMED", "CANCELLED"}
                    /\ booking'[b].start + booking'[b].dur <= now'
  BY DEF AttendanceAfterTheFact
<1>1. now \in Nat /\ now' \in Nat /\ now' >= now
  BY NowGrows
<1>2. CASE b \in Rows
  <2>1. booking[b] \in Row /\ booking[b].start \in Nat /\ booking[b].dur \in Nat
    <3>1. booking[b] \in Row
      BY <1>2 DEF SlotsInv, TypeOK, Rows
    <3>2. QED
      BY <3>1, RowNumbers
  <2>2. CASE booking'[b] = booking[b]
    BY <1>1, <1>2, <2>1, <2>2 DEF AttendanceAfterTheFact
  <2>3. ASSUME NEW t \in Tasks, MoveCommit(t), task[t].booking = b
        PROVE  booking[b].outcome = "UNKNOWN"
    BY <2>3 DEF MoveCommit, MovesInTime, InFlight
  <2>4. CASE /\ Ages(booking[b].status, booking'[b].status)
             /\ booking'[b].start = booking[b].start
             /\ booking'[b].dur = booking[b].dur
             /\ booking'[b].outcome = booking[b].outcome
    BY <1>1, <1>2, <2>1, <2>4 DEF AttendanceAfterTheFact, Ages
  <2>5. CASE /\ Unattended(b)
             /\ booking'[b].status = booking[b].status
             /\ booking'[b].start = booking[b].start
             /\ booking'[b].dur = booking[b].dur
    BY <1>1, <2>1, <2>5 DEF Unattended
  <2>6. QED
    BY <1>2, <2>2, <2>3, <2>4, <2>5, RowStep
<1>3. CASE b \notin Rows
  <2>1. PICK t \in Tasks : CreateCommit(t)
    BY <1>3, RowsStep DEF StatusSet, OutcomeSet, MoveCommit, Rows
  <2>2. t \in InFlight("inserted") /\ booking'[b] = task[t].row
    <3>1. Rows' = Rows \cup {task[t].booking} /\ booking'[task[t].booking] = task[t].row
      BY <2>1, CommitTypes DEF SlotsInv
    <3>2. QED
      BY <1>3, <2>1, <3>1 DEF CreateCommit, InFlight
  <2>3. QED
    BY <2>2 DEF SlotsInv, InsertsFresh
<1>4. QED
  BY <1>2, <1>3

\* Attendance is on record only for a confirmed booking whose session is over by
\* the start it has now, provided no handler outlives half of the shortest slot.
THEOREM AttendanceHolds == Spec => []AttendanceAfterTheFact
<1>1. Init => TimeInv
  BY InitSlots DEF TimeInv, Init, Timely, MovesInTime, AttendanceAfterTheFact, InFlight, Idle, Rows
<1>2. TimeInv /\ [Next]_vars => TimeInv'
  BY NextSlots, TimelyStep, MovesStep, AttendanceStep DEF TimeInv
<1>3. TimeInv => AttendanceAfterTheFact
  BY DEF TimeInv
<1>4. QED
  BY <1>1, <1>2, <1>3, PTL DEF Spec
-----------------------------------------------------------------------------
(* The trial. *)

LEMMA Quotient ==
    ASSUME NEW d \in Nat \ {0}, NEW n \in Nat
    PROVE  /\ n \div d \in Nat
           /\ (n \div d) * d <= n
           /\ n < (n \div d) * d + d
<1>1. n = (n \div d) * d + (n % d) /\ n % d \in 0..(d - 1) /\ n \div d \in Nat
  OBVIOUS
<1>2. QED
  BY <1>1

\* A tick later it is the same day or the next.
LEMMA NextDay ==
    ASSUME NEW n \in Nat
    PROVE  DayOf(n + 1) <= DayOf(n) + 1
<1> DEFINE q == DayOf(n)
           p == DayOf(n + 1)
<1>1. /\ q \in Nat /\ q * DayLen <= n /\ n < q * DayLen + DayLen
      /\ p \in Nat /\ p * DayLen <= n + 1
  BY Quotient, PlanConstants DEF DayOf
<1> HIDE DEF p, q
<1>2. ASSUME p >= q + 2 PROVE FALSE
  <2>1. PICK k \in Nat : p = q + 2 + k
    BY <1>1, <1>2
  <2>2. p * DayLen = q * DayLen + DayLen + DayLen + k * DayLen
    BY <1>1, <2>1, PlanConstants
  <2>3. k * DayLen \in Nat /\ q * DayLen \in Nat
    BY <1>1, <2>1, PlanConstants
  <2>4. QED
    BY <1>1, <2>2, <2>3, PlanConstants
<1>3. p <= q + 1
  BY <1>1, <1>2
<1>4. QED
  BY <1>3 DEF p, q

\* A trial ends after its beginning, and at most a day later than one a tick older.
LEMMA TrialUntilStep ==
    ASSUME NEW x \in Nat
    PROVE  /\ TrialUntil(x) \in Nat \ {0}
           /\ TrialUntil(x + 1) <= TrialUntil(x) + DayLen
<1>1. DayOf(x) \in Nat /\ DayOf(x + 1) \in Nat
  BY PlanConstants DEF DayOf
<1>2. PICK a \in Nat \ {0}, b \in Nat \ {0} :
         a = DayOf(x) + TrialDays - 1 + 1 /\ b = DayOf(x + 1) + TrialDays - 1 + 1
  BY <1>1, PlanConstants
<1>3. b <= a + 1
  BY <1>1, <1>2, NextDay, PlanConstants
<1>4. \A k, l \in Nat \ {0} : k * l \in Nat \ {0}
  OBVIOUS
<1>5. PICK e \in Nat : a + 1 = b + e
  <2>1. a + 1 - b \in Nat
    BY <1>2, <1>3
  <2>2. QED
    BY <2>1
<1>6. (a + 1) * DayLen = b * DayLen + e * DayLen /\ (a + 1) * DayLen = a * DayLen + DayLen
  BY <1>2, <1>5, PlanConstants
<1>7. \A k, l \in Nat : k * l \in Nat
  OBVIOUS
<1>8. a * DayLen \in Nat \ {0} /\ b * DayLen \in Nat /\ e * DayLen \in Nat
  BY <1>2, <1>4, <1>5, <1>7, PlanConstants
<1>9. b * DayLen <= a * DayLen + DayLen
  BY <1>6, <1>8, PlanConstants
<1>10. TrialUntil(x) = a * DayLen /\ TrialUntil(x + 1) = b * DayLen
  BY <1>2 DEF TrialUntil, EndOfDay
<1>11. QED
  BY <1>8, <1>9, <1>10

\* Subscriptions change by a first booking's commit and by orders.
LEMMA SubStep ==
    ASSUME SlotsInv, [Next]_vars
    PROVE  \/ sub' = sub /\ ordered' = ordered
           \/ \E m \in Masters : Order(m)
           \/ \E t \in Tasks :
                 /\ CreateCommit(t) /\ t \in InFlight("inserted") /\ task[t].trial
                 /\ task[t].row.master \in Masters
                 /\ now' = now /\ ordered' = ordered
                 /\ sub' = [sub EXCEPT ![task[t].row.master] = UpsertTrial(@, TrialUntil(now))]
<1>1. ASSUME NEW t \in Tasks, CreateCommit(t)
      PROVE  /\ t \in InFlight("inserted") /\ task[t].row.master \in Masters
             /\ now' = now /\ ordered' = ordered
             /\ IF task[t].trial
                THEN sub' = [sub EXCEPT ![task[t].row.master] = UpsertTrial(@, TrialUntil(now))]
                ELSE sub' = sub
  <2>1. task[t].row \in Row
    BY <1>1, CommitTypes DEF SlotsInv
  <2>2. QED
    BY <1>1, <2>1 DEF CreateCommit, InFlight, Row
<1>2. CASE UNCHANGED vars \/ Crash \/ Tick \/ \E m \in Masters, d \in Durations : SetSlotSize(m, d)
  BY <1>2 DEF vars, Crash, Tick, SetSlotSize
<1>3. CASE \E t \in Tasks : Begin(t)
  BY <1>3 DEF Begin, CreateCheck, MoveCheck, ReviewCheck, CancelByMaster
<1>4. CASE \E t \in Tasks : Proceed(t) /\ ~CreateCommit(t)
  BY <1>4 DEF Proceed, CreateInsert, CreateRejected, MoveCommit, MoveRejected, ReviewCommit,
              ReviewTooLate, ReloadCancelled, Announce
<1>5. CASE \/ \E b \in Bookings : CancelByClient(b)
           \/ \E b \in Bookings, o \in {"ATTENDED", "NO_SHOW"} : MarkAttendance(b, o)
  BY <1>5 DEF CancelByClient, MarkAttendance
<1>6. QED
  BY <1>1, <1>2, <1>3, <1>4, <1>5 DEF Next

\* What a trial started now makes of a subscription that is new or as fresh.
LEMMA UpsertFresh ==
    ASSUME SlotsInv, NEW m \in Masters,
           sub' = [sub EXCEPT ![m] = UpsertTrial(@, TrialUntil(now))]
    PROVE  /\ sub[m].trial = Null => sub'[m].trial = TrialUntil(now)
           /\ sub'[m].trial \in {sub[m].trial, TrialUntil(now)}
           /\ sub'[m].trial >= sub[m].trial
           /\ sub'[m].paid = sub[m].paid
           /\ sub'[m] # NoSub /\ ~LifetimePro(sub'[m])
<1>1. TrialUntil(now) \in Nat
  BY TrialUntilNat DEF SlotsInv, TypeOK
<1>2. sub'[m] = UpsertTrial(sub[m], TrialUntil(now)) /\ sub[m].trial \in Nat
  BY DEF SlotsInv, TypeOK, SubRow
<1>3. QED
  BY <1>1, <1>2 DEF UpsertTrial, Later, NoSub, Null, LifetimePro

LEMMA OrdersStep ==
    ASSUME SlotsInv, OrdersKnown, [Next]_vars
    PROVE  OrdersKnown'
<1> SUFFICES ASSUME NEW m \in DOMAIN ordered'
             PROVE  sub'[m] # NoSub /\ ordered'[m] <= now'
  BY DEF OrdersKnown
<1>1. now \in Nat /\ now' \in Nat /\ now' >= now
  BY NowGrows
<1>2. CASE \E o \in Masters : Order(o)
  <2>1. PICK o \in Masters : Order(o)
    BY <1>2
  <2>2. m \in Masters /\ (m \in DOMAIN ordered => sub[m] # NoSub /\ ordered[m] <= now)
    BY <2>1, OrderStep DEF OrdersKnown, SlotsInv, TypeOK
  <2>3. /\ m \in DOMAIN ordered => ordered'[m] = ordered[m]
        /\ m \notin DOMAIN ordered => m = o /\ ordered'[m] = now
    BY <2>1, OrderStep DEF SlotsInv
  <2>4. sub'[m] # NoSub
    BY <2>1, <2>2, <2>3, OrderStep DEF SlotsInv
  <2>5. ordered'[m] <= now'
    <3>1. m \in DOMAIN ordered => ordered[m] \in Nat
      BY DEF SlotsInv, TypeOK
    <3>2. QED
      BY <1>1, <2>2, <2>3, <3>1
  <2>6. QED
    BY <2>4, <2>5
<1>3. CASE ordered' = ordered
  <2>1. sub[m] # NoSub /\ ordered[m] <= now /\ ordered[m] \in Nat /\ m \in Masters
    BY <1>3 DEF OrdersKnown, SlotsInv, TypeOK
  <2>2. sub'[m] # NoSub
    <3>1. CASE sub' = sub
      BY <2>1, <3>1
    <3>2. CASE sub' # sub /\ ~\E o \in Masters : Order(o)
      <4>1. PICK t \in Tasks :
               /\ task[t].row.master \in Masters
               /\ sub' = [sub EXCEPT ![task[t].row.master] = UpsertTrial(@, TrialUntil(now))]
        BY <3>2, SubStep
      <4>2. CASE m = task[t].row.master
        BY <2>1, <4>1, <4>2, UpsertFresh
      <4>3. CASE m # task[t].row.master
        BY <2>1, <4>1, <4>3 DEF SlotsInv, TypeOK
      <4>4. QED
        BY <4>2, <4>3
    <3>3. QED
      BY <1>2, <3>1, <3>2, OrderStep DEF SlotsInv
  <2>3. QED
    BY <1>1, <1>3, <2>1, <2>2
<1>4. QED
  BY <1>2, <1>3, SubStep

LEMMA TrialsStep ==
    ASSUME SlotsInv, Timely, OrdersKnown, TrialsFresh, [Next]_vars
    PROVE  TrialsFresh'
<1> SUFFICES ASSUME NEW t \in Tasks, task'[t].op = "inserted", task'[t].trial,
                    NEW m, m = task'[t].row.master, NEW n, n = task'[t].began
             PROVE  FreshRow(m, n)'
  BY DEF TrialsFresh, InFlight, FreshRow
<1>1. now \in Nat /\ now' \in Nat /\ now' >= now
  BY NowGrows
<1>2. CASE task'[t] = task[t]
  <2>1. /\ t \in InFlight("inserted") /\ task[t] # Idle /\ n \in Nat
        /\ m \in Masters
    BY <1>2, TaskTypes DEF InFlight, Idle, SlotsInv, InsertedTask, Row
  <2>2. FreshRow(m, n)
    BY <1>2, <2>1 DEF TrialsFresh
  <2>3. n <= now
    BY <1>2, <2>1 DEF Timely
  <2>4. CASE sub'[m] = sub[m] /\ ordered' = ordered
    BY <1>1, <2>1, <2>2, <2>4 DEF FreshRow
  <2>5. CASE /\ ordered' = ordered
             /\ sub' = [sub EXCEPT ![m] = UpsertTrial(@, TrialUntil(now))]
    <3>1. ~LifetimePro(sub'[m])
      BY <2>1, <2>5, UpsertFresh
    <3>2. \E x \in Nat : n <= x /\ x <= now' /\ sub'[m].trial = TrialUntil(x)
      <4>1. CASE sub'[m].trial = TrialUntil(now)
        BY <1>1, <2>3, <4>1
      <4>2. CASE sub'[m].trial # TrialUntil(now)
        <5>1. sub'[m].trial = sub[m].trial /\ sub[m].trial # Null
          BY <2>1, <2>5, <4>2, UpsertFresh
        <5>2. PICK x \in Nat : n <= x /\ x <= now /\ sub[m].trial = TrialUntil(x)
          BY <2>2, <5>1 DEF FreshRow, NoSub
        <5>3. x <= now'
          BY <1>1, <5>2
        <5>4. QED
          BY <5>1, <5>2, <5>3
      <4>3. QED
        BY <4>1, <4>2
    <3>3. QED
      BY <2>2, <2>5, <3>1, <3>2 DEF FreshRow
  <2>6. ASSUME NEW o \in Masters, Order(o)
        PROVE  FreshRow(m, n)'
    <3>1. /\ m \in DOMAIN ordered => m \in DOMAIN ordered' /\ ordered'[m] = ordered[m]
          /\ m \in DOMAIN ordered' => m \in DOMAIN ordered \/ ordered'[m] = now
          /\ o \in DOMAIN ordered'
      BY <2>6, OrderStep DEF SlotsInv
    <3>2. m \in DOMAIN ordered' => n <= ordered'[m]
      BY <2>2, <2>3, <3>1 DEF FreshRow
    <3>3. CASE m # o
      <4>1. sub'[m] = sub[m] /\ now' = now
        BY <2>1, <2>6, <3>3, OrderShape, OrderStep DEF SlotsInv
      <4>2. QED
        BY <2>2, <3>1, <3>2, <4>1 DEF FreshRow
    <3>4. CASE m = o
      <4>1. /\ ~LifetimePro(sub'[m]) /\ now' = now
            /\ sub'[m].trial \in {sub[m].trial, Null}
        BY <2>6, <3>4, OrderShape, OrderStep DEF SlotsInv
      <4>2. QED
        BY <2>2, <3>1, <3>2, <3>4, <4>1 DEF FreshRow, NoSub
    <3>5. QED
      BY <3>3, <3>4
  <2>7. CASE ~\E o \in Masters : Order(o)
    BY <2>1, <2>4, <2>5, <2>7, SubStep DEF SlotsInv, TypeOK
  <2>8. QED
    BY <2>6, <2>7
<1>3. CASE Begin(t)
  BY <1>3, BeginShape DEF SlotsInv
<1>4. CASE Proceed(t)
  <2>1. PICK b \in Bookings : CreateInsert(t, b)
    BY <1>4 DEF Proceed, CreateRejected, CreateCommit, MoveCommit, MoveRejected, ReviewCommit,
                ReviewTooLate, ReloadCancelled, Announce, Become, Idle, SlotsInv, TypeOK
  <2>2. m = task[t].master /\ sub' = sub /\ ordered' = ordered /\ sub[m] = NoSub
    BY <2>1 DEF CreateInsert, NewRow, Become, SlotsInv, TypeOK
  <2>3. m \notin DOMAIN ordered
    BY <2>2 DEF OrdersKnown
  <2>4. QED
    BY <2>2, <2>3 DEF FreshRow, LifetimePro, NoSub
<1>5. QED
  BY <1>2, <1>3, <1>4, TaskStep DEF Idle

\* A booking starts a trial for a master without a subscription.  The upsert writes over
\* whatever came since its handler found none, and that is the trial of another first
\* booking or the row of an order no older than the handler: no paid time is lost, no
\* trial is cut short, and no Pro without an end is taken away.
THEOREM TrialNotRenewedHolds == Spec => TrialNotRenewed
<1>1. Init => TrialsInv
  BY InitSlots DEF TrialsInv, Init, Timely, OrdersKnown, TrialsFresh, InFlight, Idle
<1>2. TrialsInv /\ [Next]_vars => TrialsInv'
  BY NextSlots, TimelyStep, OrdersStep, TrialsStep DEF TrialsInv
<1>3. ASSUME TrialsInv, [Next]_vars
      PROVE  \A m \in Masters :
                booking' # booking /\ sub'[m] # sub[m] =>
                   /\ sub'[m].paid = sub[m].paid
                   /\ sub'[m].trial >= sub[m].trial
                   /\ ~LifetimePro(sub[m])
                   /\ \/ sub[m] = NoSub
                      \/ sub[m].trial # Null /\ sub'[m].trial <= sub[m].trial + DayLen
                      \/ sub[m].trial = Null /\ m \in DOMAIN ordered /\ now <= ordered[m] + 1
  <2> SUFFICES ASSUME NEW m \in Masters, booking' # booking, sub'[m] # sub[m]
               PROVE  /\ sub'[m].paid = sub[m].paid
                      /\ sub'[m].trial >= sub[m].trial
                      /\ ~LifetimePro(sub[m])
                      /\ sub[m] # NoSub =>
                            \/ /\ sub[m].trial # Null
                               /\ sub'[m].trial <= sub[m].trial + DayLen
                            \/ /\ sub[m].trial = Null
                               /\ m \in DOMAIN ordered /\ now <= ordered[m] + 1
    OBVIOUS
  <2>1. PICK t \in Tasks :
           /\ t \in InFlight("inserted") /\ task[t].trial /\ task[t].row.master = m
           /\ sub' = [sub EXCEPT ![m] = UpsertTrial(@, TrialUntil(now))]
    <3>1. ~\E o \in Masters : Order(o)
      BY OrderShape
    <3>2. QED
      BY <1>3, <3>1, SubStep DEF TrialsInv, SlotsInv, TypeOK
  <2>2. task[t] # Idle /\ task[t].began \in Nat /\ now \in Nat
    BY <1>3, <2>1, TaskTypes DEF InFlight, Idle, TrialsInv, SlotsInv, TypeOK
  <2>3. FreshRow(m, task[t].began) /\ now <= task[t].began + 1
    BY <1>3, <2>1, <2>2 DEF TrialsInv, TrialsFresh, Timely
  <2>4. sub'[m].paid = sub[m].paid /\ sub'[m].trial >= sub[m].trial /\ ~LifetimePro(sub[m])
    BY <1>3, <2>1, <2>3, UpsertFresh DEF TrialsInv, FreshRow
  <2>5. CASE m \in DOMAIN ordered /\ sub[m].trial = Null
    <3>1. ordered[m] \in Nat /\ task[t].began <= ordered[m]
      BY <1>3, <2>3, <2>5 DEF FreshRow, TrialsInv, SlotsInv, TypeOK
    <3>2. now <= ordered[m] + 1
      BY <2>2, <2>3, <3>1
    <3>3. QED
      BY <2>4, <2>5, <3>2
  <2>6. ASSUME NEW x \in Nat, task[t].began <= x, x <= now, sub[m].trial = TrialUntil(x)
        PROVE  sub[m].trial # Null /\ sub'[m].trial <= sub[m].trial + DayLen
    <3>1. now = x \/ now = x + 1
      BY <2>2, <2>3, <2>6
    <3>2. sub'[m].trial \in {TrialUntil(x), TrialUntil(now)}
      BY <1>3, <2>1, <2>6, UpsertFresh DEF TrialsInv
    <3>3. QED
      BY <2>6, <3>1, <3>2, TrialUntilStep, PlanConstants DEF Null
  <2>7. QED
    BY <2>3, <2>4, <2>5, <2>6 DEF FreshRow
<1>4. QED
  BY <1>1, <1>2, <1>3, PTL DEF Spec, TrialNotRenewed
-----------------------------------------------------------------------------
(* The free limit of a month.  What counts against it and the creations    *)
(* that will, taken together, grow only when a handler finds the limit     *)
(* unspent; and the bookings of a master who was never Pro stay where they *)
(* are, since only a Pro master moves one.                                 *)

Counted(m, month) == {b \in Rows : booking[b].master = m /\ MonthOf(booking[b].start) = month}

\* the booking that a handler is about to make
Aimed(t, m, month) ==
    \/ task[t].op = "create" /\ task[t].master = m /\ MonthOf(task[t].at) = month
    \/ task[t].op = "inserted" /\ task[t].row.master = m /\ MonthOf(task[t].row.start) = month

Coming(m, month) == {t \in Tasks : Aimed(t, m, month)}

WithinLimit ==
    \A m \in Masters, t \in Tasks :
        LET month == MonthOf(task[t].began) IN
            NeverPro(m) /\ Aimed(t, m, month) =>
                Cardinality(Counted(m, month)) + Cardinality(Coming(m, month))
                    <= FreeBookings + Cardinality(Tasks) - 1

MovesOfPro ==
    \A t \in Tasks : task[t].op = "move" => ~NeverPro(booking[task[t].booking].master)

QuotaInv ==
    /\ SlotsInv /\ Timely
    /\ IsFiniteSet(Rows)
    /\ MovesOfPro
    /\ WithinLimit

\* A month does not come back.
LEMMA MonthsPass ==
    ASSUME NEW x \in Nat, NEW y \in Nat, x <= y
    PROVE  MonthOf(x) \in Nat /\ MonthOf(y) \in Nat /\ MonthOf(x) <= MonthOf(y)
<1> DEFINE q == x \div MonthLen
           p == y \div MonthLen
<1>1. /\ q \in Nat /\ q * MonthLen <= x
      /\ p \in Nat /\ y < p * MonthLen + MonthLen
  BY Quotient, PlanConstants
<1> HIDE DEF p, q
<1>2. ASSUME q > p PROVE FALSE
  <2>1. PICK k \in Nat : q = p + 1 + k
    <3>1. q - p - 1 \in Nat /\ q = p + 1 + (q - p - 1)
      BY <1>1, <1>2
    <3>2. QED
      BY <3>1
  <2>2. q * MonthLen = p * MonthLen + MonthLen + k * MonthLen
    BY <1>1, <2>1, PlanConstants
  <2>3. k * MonthLen \in Nat /\ p * MonthLen \in Nat
    BY <1>1, <2>1, PlanConstants
  <2>4. QED
    BY <1>1, <2>2, <2>3, PlanConstants
<1>3. q <= p
  BY <1>1, <1>2
<1>4. QED
  BY <1>1, <1>3 DEF p, q, MonthOf

\* Nobody becomes a master who was never Pro.
LEMMA NeverWas ==
    ASSUME SlotsInv, [Next]_vars, NEW m \in Masters, NeverPro(m)'
    PROVE  NeverPro(m) /\ ~ProNow(m)
<1>1. NeverPro(m)
  <2>1. CASE \E o \in Masters : Order(o)
    <3>1. PICK o \in Masters : Order(o)
      BY <2>1
    <3>2. DOMAIN ordered' = DOMAIN ordered \cup {o} /\ \A p \in Masters \ {o} : sub'[p] = sub[p]
      BY <3>1, OrderStep DEF SlotsInv
    <3>3. QED
      BY <3>2 DEF NeverPro
  <2>2. CASE ordered' = ordered /\ sub'[m] = sub[m]
    BY <2>2 DEF NeverPro
  <2>3. CASE ordered' = ordered /\ sub'[m] # sub[m] /\ ~\E o \in Masters : Order(o)
    <3>1. sub' = [sub EXCEPT ![m] = UpsertTrial(@, TrialUntil(now))] /\ now \in Nat
      BY <2>3, SubStep DEF SlotsInv, TypeOK
    <3>2. sub'[m] = UpsertTrial(sub[m], TrialUntil(now)) /\ sub[m].trial \in Nat
      BY <3>1 DEF SlotsInv, TypeOK, SubRow
    <3>3. TrialUntil(now) \in Nat \ {0}
      BY <3>1, TrialUntilStep
    <3>4. sub'[m].trial # 0
      BY <3>2, <3>3 DEF UpsertTrial, Later
    <3>5. QED
      BY <3>4 DEF NeverPro, Null
  <2>4. QED
    BY <2>1, <2>2, <2>3, SubStep
<1>2. ~ProNow(m)
  <2>1. now \in Nat
    BY DEF SlotsInv, TypeOK
  <2>2. sub[m].plan = "FREE" /\ sub[m].trial = 0 /\ sub[m].paid = 0
    BY <1>1 DEF NeverPro, Null
  <2>3. QED
    BY <2>1, <2>2 DEF ProNow, IsPro, PaidActive, TrialActive, LifetimePro
<1>3. QED
  BY <1>1, <1>2

\* A booking stays with its master.
LEMMA MasterStays ==
    ASSUME SlotsInv, [Next]_vars, NEW b \in Rows
    PROVE  b \in Rows' /\ booking'[b].master = booking[b].master
<1>1. booking[b] \in Row
  BY DEF SlotsInv, TypeOK, Rows
<1>2. ASSUME NEW t \in Tasks, CreateCommit(t)
      PROVE  booking'[b] = booking[b]
  <2>1. t \in InFlight("inserted")
    BY <1>2 DEF CreateCommit, InFlight
  <2>2. task[t].booking # b
    BY <2>1 DEF SlotsInv, TasksNameRows
  <2>3. QED
    BY <1>2, <2>2, CommitTypes DEF SlotsInv
<1>3. ASSUME NEW t \in Tasks, MoveCommit(t)
      PROVE  booking'[b].master = booking[b].master
  BY <1>1, <1>3 DEF MoveCommit, Moved, Rows, Row
<1>4. ASSUME NEW c \in Rows, NEW s, StatusSet(c, s) \/ OutcomeSet(c, s)
      PROVE  booking'[b].master = booking[b].master
  BY <1>1, <1>4 DEF StatusSet, OutcomeSet, Rows, Row
<1>5. b \in Rows'
  BY RowStep
<1>6. QED
  BY <1>2, <1>3, <1>4, <1>5, RowsStep

LEMMA MovesOfProStep ==
    ASSUME SlotsInv, MovesOfPro, [Next]_vars
    PROVE  MovesOfPro'
<1> SUFFICES ASSUME NEW t \in Tasks, task'[t].op = "move"
             PROVE  ~NeverPro(booking[task[t].booking].master)'
  BY DEF MovesOfPro, NeverPro
<1>1. CASE task'[t] = task[t]
  <2> PICK b : b = task[t].booking
    OBVIOUS
  <2>1. b \in Rows /\ ~NeverPro(booking[b].master) /\ booking[b] \in Row
    BY <1>1 DEF MovesOfPro, SlotsInv, TypeOK, TasksNameRows, Rows
  <2>2. booking[b].master \in Masters
    BY <2>1 DEF Row
  <2>3. booking'[b].master = booking[b].master
    BY <2>1, MasterStays
  <2>4. QED
    <3>1. PICK m \in Masters : m = booking[b].master
      BY <2>2
    <3>2. ~NeverPro(m)'
      BY <2>1, <3>1, NeverWas
    <3>3. QED
      BY <1>1, <2>3, <3>1, <3>2 DEF NeverPro
<1>2. CASE Begin(t)
  <2>1. PICK b \in Bookings, at \in Starts : MoveCheck(t, b, at)
    <3>1. CASE \E m \in Masters, c \in Clients, at \in Starts, status \in Live :
                  CreateCheck(t, m, c, at, status)
      BY <3>1 DEF CreateCheck, SlotsInv, TypeOK, Become
    <3>2. CASE \E b \in Bookings, verdict \in {"CONFIRMED", "DECLINED"} :
                  ReviewCheck(t, b, verdict)
      BY <3>2 DEF ReviewCheck, SlotsInv, TypeOK, Become
    <3>3. CASE \E b \in Bookings : CancelByMaster(t, b)
      BY <3>3 DEF CancelByMaster, SlotsInv, TypeOK, Become
    <3>4. QED
      BY <1>2, <3>1, <3>2, <3>3 DEF Begin
  <2>2. /\ task'[t].booking = b /\ b \in Rows /\ booking' = booking
        /\ ProNow(booking[b].master)
    BY <2>1 DEF MoveCheck, SlotsInv, TypeOK, Become
  <2>3. booking[b].master \in Masters
    BY <2>2 DEF SlotsInv, TypeOK, Rows, Row
  <2>4. QED
    <3>1. PICK m \in Masters : m = booking[b].master
      BY <2>3
    <3>2. ~NeverPro(m)'
      BY <2>2, <3>1, NeverWas
    <3>3. QED
      BY <2>2, <3>1, <3>2 DEF NeverPro
<1>3. QED
  BY <1>1, <1>2, TaskStep, BeganStep DEF Idle

LEMMA RowsFiniteStep ==
    ASSUME SlotsInv, IsFiniteSet(Rows), [Next]_vars
    PROVE  IsFiniteSet(Rows')
<1>1. CASE \E t \in Tasks : CreateCommit(t)
  <2>1. PICK t \in Tasks : CreateCommit(t)
    BY <1>1
  <2>2. Rows' = Rows \cup {task[t].booking}
    BY <2>1, CommitTypes DEF SlotsInv
  <2>3. QED
    BY <2>2, FS_AddElement
<1>2. CASE ~\E t \in Tasks : CreateCommit(t)
  <2>1. Rows' = Rows
    BY <1>2, RowsStep DEF StatusSet, OutcomeSet, MoveCommit, Rows
  <2>2. QED
    BY <2>1
<1>3. QED
  BY <1>1, <1>2

\* A creation that is under way was so before, or finds the limit unspent
LEMMA AimedStep ==
    ASSUME SlotsInv, [Next]_vars, NEW m \in Masters, NEW month, NEW t \in Tasks,
           Aimed(t, m, month)'
    PROVE  \/ Aimed(t, m, month) /\ task'[t].began = task[t].began
           \/ \E c \in Clients, at \in Starts, status \in Live :
                 CreateCheck(t, m, c, at, status) /\ MonthOf(at) = month /\ task'[t].began = now
<1>1. CASE task'[t] = task[t]
  BY <1>1 DEF Aimed
<1>2. CASE task'[t] = Idle
  BY <1>2 DEF Aimed, Idle
<1>3. CASE Begin(t)
  <2>1. PICK n \in Masters, c \in Clients, at \in Starts, status \in Live :
           CreateCheck(t, n, c, at, status)
    <3>1. CASE \E b \in Bookings, at \in Starts : MoveCheck(t, b, at)
      BY <3>1 DEF MoveCheck, SlotsInv, TypeOK, Become, Aimed
    <3>2. CASE \E b \in Bookings, verdict \in {"CONFIRMED", "DECLINED"} :
                  ReviewCheck(t, b, verdict)
      BY <3>2 DEF ReviewCheck, SlotsInv, TypeOK, Become, Aimed
    <3>3. CASE \E b \in Bookings : CancelByMaster(t, b)
      BY <3>3 DEF CancelByMaster, SlotsInv, TypeOK, Become, Aimed
    <3>4. QED
      BY <1>3, <3>1, <3>2, <3>3 DEF Begin
  <2>2. /\ task'[t].op = "create" /\ task'[t].master = n /\ task'[t].at = at
        /\ task'[t].began = now
    BY <2>1 DEF CreateCheck, SlotsInv, TypeOK, Become
  <2>3. n = m /\ MonthOf(at) = month
    BY <2>2 DEF Aimed
  <2>4. QED
    BY <2>1, <2>2, <2>3
<1>4. CASE Proceed(t)
  <2>1. CASE \E b \in Bookings : CreateInsert(t, b)
    <3>1. /\ task[t].op = "create" /\ task'[t].op = "inserted"
          /\ task'[t].row = NewRow(t) /\ task'[t].began = task[t].began
      BY <2>1 DEF CreateInsert, SlotsInv, TypeOK, Become
    <3>2. QED
      BY <3>1 DEF Aimed, NewRow
  <2>2. CASE ~\E b \in Bookings : CreateInsert(t, b)
    <3>1. task'[t].op \in {"idle", "notify"}
      BY <1>4, <2>2 DEF Proceed, CreateRejected, CreateCommit, MoveCommit, MoveRejected,
          ReviewCommit, ReviewTooLate, ReloadCancelled, Announce, Become, Idle, SlotsInv, TypeOK
    <3>2. QED
      BY <3>1 DEF Aimed
  <2>3. QED
    BY <2>1, <2>2
<1>5. QED
  BY <1>1, <1>2, <1>3, <1>4, TaskStep

\* What counts grows by a commit only
LEMMA CountedStep ==
    ASSUME SlotsInv, MovesOfPro, [Next]_vars, NEW m \in Masters, NeverPro(m)', NEW month
    PROVE  \/ Counted(m, month)' \subseteq Counted(m, month)
           \/ \E t \in Tasks : /\ CreateCommit(t) /\ Aimed(t, m, month)
                               /\ ~Aimed(t, m, month)'
                               /\ Counted(m, month)' \subseteq
                                     Counted(m, month) \cup {task[t].booking}
<1>1. ASSUME NEW b \in Rows, booking'[b].master = m, MonthOf(booking'[b].start) = month
      PROVE  b \in Counted(m, month)
  <2>1. booking[b].master = m
    BY <1>1, MasterStays
  <2>2. booking'[b].start = booking[b].start
    <3>1. ASSUME NEW t \in Tasks, MoveCommit(t), task[t].booking = b
          PROVE  FALSE
      BY <2>1, <3>1, NeverWas DEF MoveCommit, MovesOfPro
    <3>2. QED
      BY <3>1, RowStep
  <2>3. QED
    BY <1>1, <2>1, <2>2 DEF Counted
<1>2. CASE \E t \in Tasks : CreateCommit(t)
  <2>1. PICK t \in Tasks : CreateCommit(t)
    BY <1>2
  <2>2. /\ Rows' = Rows \cup {task[t].booking} /\ booking'[task[t].booking] = task[t].row
    BY <2>1, CommitTypes DEF SlotsInv
  <2>3. Counted(m, month)' \subseteq Counted(m, month) \cup {task[t].booking}
    BY <1>1, <2>2 DEF Counted
  <2>4. CASE task[t].booking \notin Counted(m, month)'
    BY <2>3, <2>4
  <2>5. CASE task[t].booking \in Counted(m, month)'
    <3>1. task[t].row.master = m /\ MonthOf(task[t].row.start) = month
      BY <2>2, <2>5 DEF Counted
    <3>2. Aimed(t, m, month)
      BY <2>1, <3>1 DEF Aimed, CreateCommit
    <3>3. ~Aimed(t, m, month)'
      BY <2>1 DEF Aimed, CreateCommit, Become, Idle, SlotsInv, TypeOK
    <3>4. QED
      BY <2>1, <2>3, <3>2, <3>3
  <2>6. QED
    BY <2>4, <2>5
<1>3. CASE ~\E t \in Tasks : CreateCommit(t)
  <2>1. Rows' = Rows
    BY <1>3, RowsStep DEF StatusSet, OutcomeSet, MoveCommit, Rows
  <2>2. QED
    BY <1>1, <2>1 DEF Counted
<1>4. QED
  BY <1>2, <1>3

LEMMA TaskTypesNext ==
    ASSUME SlotsInv, [Next]_vars, NEW t \in Tasks, task'[t] # Idle
    PROVE  task'[t].began \in Nat
<1>1. TypeOK'
  BY NextSlots DEF SlotsInv
<1>2. task'[t] \in Task
  BY <1>1 DEF TypeOK
<1>3. QED
  BY <1>2 DEF Task, CreateTask, InsertedTask, MoveTask, ReviewTask, ReloadTask, NotifyTask

LEMMA WithinLimitStep ==
    ASSUME QuotaInv, [Next]_vars
    PROVE  WithinLimit'
<1> SUFFICES ASSUME NEW m \in Masters, NEW t \in Tasks, NeverPro(m)',
                    NEW month, month = MonthOf(task'[t].began), Aimed(t, m, month)'
             PROVE  Cardinality(Counted(m, month)') + Cardinality(Coming(m, month)')
                        <= FreeBookings + Cardinality(Tasks) - 1
  BY DEF WithinLimit, Counted, Coming, Aimed, NeverPro
<1>1. SlotsInv /\ Timely /\ IsFiniteSet(Rows) /\ MovesOfPro /\ WithinLimit /\ now \in Nat
  BY DEF QuotaInv, SlotsInv, TypeOK
<1>2. NeverPro(m) /\ ~ProNow(m)
  BY <1>1, NeverWas
<1>3. /\ IsFiniteSet(Counted(m, month)) /\ Cardinality(Counted(m, month)) \in Nat
      /\ IsFiniteSet(Coming(m, month)) /\ Cardinality(Coming(m, month)) \in Nat
  <2>1. Counted(m, month) \subseteq Rows /\ Coming(m, month) \subseteq Tasks
    BY DEF Counted, Coming
  <2>2. QED
    BY <1>1, <2>1, BookingConstants, FS_Subset, FS_CardinalityType
<1>4. /\ IsFiniteSet(Coming(m, month)') /\ Cardinality(Coming(m, month)') \in Nat
      /\ Cardinality(Coming(m, month)') <= Cardinality(Tasks)
      /\ Cardinality(Tasks) \in Nat
  <2>1. Coming(m, month)' \subseteq Tasks
    BY DEF Coming
  <2>2. QED
    BY <2>1, BookingConstants, FS_Subset, FS_CardinalityType
<1>5. CASE \E u \in Tasks, c \in Clients, at \in Starts, status \in Live :
              CreateCheck(u, m, c, at, status) /\ MonthOf(at) = month
  <2>1. PICK u \in Tasks, c \in Clients, at \in Starts, status \in Live :
           CreateCheck(u, m, c, at, status) /\ MonthOf(at) = month
    BY <1>5
  <2>2. /\ at > now /\ CanCreateBooking(m) /\ booking' = booking /\ now' = now
    BY <2>1 DEF CreateCheck
  <2>3. at \in Nat
    BY BookingConstants
  <2>4. task'[t].began \in Nat /\ task'[t].began <= now
    <3>1. task'[t] # Idle
      BY DEF Aimed, Idle
    <3>2. QED
      BY <1>1, <2>2, <3>1, TaskTypesNext, TimelyStep DEF Timely
  <2>5. MonthOf(now) = month
    <3>1. /\ MonthOf(task'[t].began) <= MonthOf(now)
          /\ MonthOf(now) \in Nat /\ MonthOf(task'[t].began) \in Nat
      BY <1>1, <2>4, MonthsPass
    <3>2. MonthOf(now) <= MonthOf(at)
      BY <1>1, <2>2, <2>3, MonthsPass
    <3>3. QED
      BY <2>1, <3>1, <3>2
  <2>6. Cardinality(Counted(m, month)) < FreeBookings
    BY <1>2, <2>2, <2>5 DEF CanCreateBooking, MonthUsage, Counted
  <2>7. Counted(m, month)' = Counted(m, month)
    BY <2>2 DEF Counted, Rows
  <2>8. QED
    BY <1>3, <1>4, <2>6, <2>7, PlanConstants
<1>6. CASE ~\E u \in Tasks, c \in Clients, at \in Starts, status \in Live :
              CreateCheck(u, m, c, at, status) /\ MonthOf(at) = month
  <2>1. Aimed(t, m, month) /\ task'[t].began = task[t].began
    BY <1>1, <1>6, AimedStep
  <2>2. Cardinality(Counted(m, month)) + Cardinality(Coming(m, month))
            <= FreeBookings + Cardinality(Tasks) - 1
    BY <1>1, <1>2, <2>1 DEF WithinLimit
  <2>3. Coming(m, month)' \subseteq Coming(m, month)
    BY <1>1, <1>6, AimedStep DEF Coming
  <2>4. CASE Counted(m, month)' \subseteq Counted(m, month)
    <3>1. /\ IsFiniteSet(Counted(m, month)') /\ Cardinality(Counted(m, month)') \in Nat
          /\ Cardinality(Counted(m, month)') <= Cardinality(Counted(m, month))
          /\ Cardinality(Coming(m, month)') <= Cardinality(Coming(m, month))
      BY <1>3, <2>3, <2>4, FS_Subset, FS_CardinalityType
    <3>2. QED
      BY <1>3, <1>4, <2>2, <3>1, PlanConstants
  <2>5. ASSUME NEW u \in Tasks, Aimed(u, m, month), ~Aimed(u, m, month)', NEW b,
               Counted(m, month)' \subseteq Counted(m, month) \cup {b}
        PROVE  Cardinality(Counted(m, month)') + Cardinality(Coming(m, month)')
                   <= FreeBookings + Cardinality(Tasks) - 1
    <3>1. /\ u \in Coming(m, month)
          /\ Coming(m, month)' \subseteq Coming(m, month) \ {u}
      BY <2>3, <2>5 DEF Coming
    <3>2. /\ IsFiniteSet(Counted(m, month) \cup {b})
          /\ Cardinality(Counted(m, month) \cup {b}) \in Nat
          /\ Cardinality(Counted(m, month) \cup {b}) <= Cardinality(Counted(m, month)) + 1
      <4>1. /\ IsFiniteSet(Counted(m, month) \cup {b})
            /\ \/ Cardinality(Counted(m, month) \cup {b}) = Cardinality(Counted(m, month)) + 1
               \/ Cardinality(Counted(m, month) \cup {b}) = Cardinality(Counted(m, month))
        BY <1>3, FS_AddElement
      <4>2. QED
        BY <1>3, <4>1
    <3>3. /\ IsFiniteSet(Counted(m, month)') /\ Cardinality(Counted(m, month)') \in Nat
          /\ Cardinality(Counted(m, month)') <= Cardinality(Counted(m, month) \cup {b})
      BY <2>5, <3>2, FS_Subset, FS_CardinalityType
    <3>4. /\ IsFiniteSet(Coming(m, month) \ {u})
          /\ Cardinality(Coming(m, month) \ {u}) = Cardinality(Coming(m, month)) - 1
      BY <1>3, <3>1, FS_RemoveElement
    <3>5. Cardinality(Coming(m, month)') <= Cardinality(Coming(m, month) \ {u})
      BY <3>1, <3>4, FS_Subset
    <3>6. QED
      BY <1>3, <1>4, <2>2, <3>2, <3>3, <3>4, <3>5, PlanConstants
  <2>6. QED
    BY <1>1, <2>4, <2>5, CountedStep
<1>7. QED
  BY <1>5, <1>6

\* Creations that race take a month past the free limit by no more than the other handlers
\* in flight: each of them found the limit unspent, and once it is spent none is added.
THEOREM QuotaOvershootHolds == Spec => []QuotaOvershoot
<1>1. Init => QuotaInv
  <2> SUFFICES ASSUME Init PROVE QuotaInv
    OBVIOUS
  <2>1. SlotsInv /\ Rows = {} /\ \A t \in Tasks : task[t] = Idle
    BY InitSlots DEF Init, Rows
  <2>2. QED
    BY <2>1, FS_EmptySet DEF QuotaInv, Timely, MovesOfPro, WithinLimit, Aimed, Idle
<1>2. QuotaInv /\ [Next]_vars => QuotaInv'
  BY NextSlots, TimelyStep, RowsFiniteStep, MovesOfProStep, WithinLimitStep DEF QuotaInv
<1>3. QuotaInv => QuotaOvershoot
  <2> SUFFICES ASSUME QuotaInv, NEW t \in Tasks, task[t].op = "inserted",
                      NEW m, m = task[t].row.master, NeverPro(m),
                      NEW month, month = MonthOf(task[t].row.start),
                      month = MonthOf(task[t].began)
               PROVE  MonthUsage(m, month) + 1 <= FreeBookings + Cardinality(Tasks) - 1
    BY DEF QuotaOvershoot, InFlight
  <2>1. m \in Masters
    BY TaskTypes DEF QuotaInv, SlotsInv, InsertedTask, Row
  <2>2. Aimed(t, m, month)
    BY DEF Aimed
  <2>3. Cardinality(Counted(m, month)) + Cardinality(Coming(m, month))
            <= FreeBookings + Cardinality(Tasks) - 1
    BY <2>1, <2>2 DEF QuotaInv, WithinLimit
  <2>4. Cardinality(Coming(m, month)) \in Nat /\ Cardinality(Coming(m, month)) # 0
    <3>1. Coming(m, month) \subseteq Tasks /\ t \in Coming(m, month)
      BY <2>2 DEF Coming
    <3>2. IsFiniteSet(Coming(m, month))
      BY <3>1, BookingConstants, FS_Subset
    <3>3. QED
      BY <3>1, <3>2, FS_CardinalityType, FS_EmptySet
  <2>5. Cardinality(Counted(m, month)) \in Nat /\ Cardinality(Tasks) \in Nat
    <3>1. Counted(m, month) \subseteq Rows
      BY DEF Counted
    <3>2. QED
      BY <3>1, BookingConstants, FS_Subset, FS_CardinalityType DEF QuotaInv
  <2>6. MonthUsage(m, month) = Cardinality(Counted(m, month))
    BY DEF MonthUsage, Counted
  <2>7. QED
    BY <2>3, <2>4, <2>5, <2>6, PlanConstants
<1>4. QED
  BY <1>1, <1>2, <1>3, PTL DEF Spec
-----------------------------------------------------------------------------
(* What the outbox tells. *)

LEMMA BeginOps ==
    ASSUME TypeOK, NEW t \in Tasks, Begin(t)
    PROVE  \/ \E b \in Bookings : CancelByMaster(t, b)
           \/ task'[t].op \in {"create", "move", "review"}
<1> USE DEF Become, TypeOK
<1>1. CASE \E m \in Masters, c \in Clients, at \in Starts, status \in Live :
              CreateCheck(t, m, c, at, status)
  BY <1>1 DEF CreateCheck
<1>2. CASE \E b \in Bookings, at \in Starts : MoveCheck(t, b, at)
  BY <1>2 DEF MoveCheck
<1>3. CASE \E b \in Bookings, verdict \in {"CONFIRMED", "DECLINED"} : ReviewCheck(t, b, verdict)
  BY <1>3 DEF ReviewCheck
<1>4. QED
  BY <1>1, <1>2, <1>3 DEF Begin

LEMMA NoticesStep ==
    ASSUME SlotsInv, NoticesTrue, [Next]_vars
    PROVE  NoticesTrue'
<1> USE DEF SlotsInv
<1> DEFINE Honest(t) ==
              /\ task[t].op = "notify" => TruthOf(task[t].event, task[t].booking)
              /\ task[t].op = "reload" => booking[task[t].booking].status = "CANCELLED"
<1>1. SUFFICES ASSUME NEW t \in Tasks PROVE Honest(t)'
  BY DEF NoticesTrue, InFlight
<1>2. CASE task'[t] = task[t]
  <2>1. CASE task[t].op = "notify"
    <3>1. task[t].booking \in Rows /\ TruthOf(task[t].event, task[t].booking)
      BY <2>1 DEF NoticesTrue, InFlight, TasksNameRows
    <3>2. QED
      BY <1>2, <2>1, <3>1, RowStep DEF TruthOf, Ages
  <2>2. CASE task[t].op = "reload"
    <3>1. task[t].booking \in Rows /\ booking[task[t].booking].status = "CANCELLED"
      BY <2>2 DEF NoticesTrue, InFlight, TasksNameRows
    <3>2. QED
      BY <1>2, <2>2, <3>1, RowStep DEF Ages
  <2>3. QED
    BY <1>2, <2>1, <2>2
<1>3. CASE task'[t] = Idle
  BY <1>3 DEF Idle
<1>4. CASE Begin(t)
  <2>1. CASE \E b \in Bookings : CancelByMaster(t, b)
    BY <2>1 DEF CancelByMaster, Become, TypeOK, Rows, Row
  <2>2. CASE ~\E b \in Bookings : CancelByMaster(t, b)
    <3>1. task'[t].op \in {"create", "move", "review"}
      BY <1>4, <2>2, BeginOps
    <3>2. QED
      BY <3>1
  <2>3. QED
    BY <2>1, <2>2
<1>5. CASE CreateCommit(t)
  <2>1. task[t].row.status \in Live
    BY <1>5 DEF CreateCommit, InsertsFresh, InFlight
  <2>2. booking'[task[t].booking] = task[t].row
    BY <1>5, CommitTypes
  <2>3. CASE task[t].row.status = "PENDING"
    BY <1>5, <2>3 DEF CreateCommit, Become, TypeOK, Idle
  <2>4. CASE task[t].row.status = "CONFIRMED"
    <3>1. /\ task'[t].op = "notify" /\ task'[t].event = "created_confirmed"
          /\ task'[t].booking = task[t].booking
      BY <1>5, <2>4 DEF CreateCommit, Become, TypeOK
    <3>2. QED
      BY <2>2, <2>4, <3>1 DEF TruthOf
  <2>5. QED
    BY <2>1, <2>3, <2>4 DEF Live
<1>6. CASE MoveCommit(t)
  BY <1>6 DEF MoveCommit, Become, TypeOK, TruthOf
<1>7. CASE ReviewCommit(t)
  <2>1. task[t].booking \in Rows /\ task[t].verdict \in {"CONFIRMED", "DECLINED"}
    BY <1>7, ReviewType DEF ReviewTask
  <2>2. booking'[task[t].booking].status = task[t].verdict
    BY <1>7, <2>1 DEF ReviewCommit, TypeOK, Rows, Row
  <2>3. /\ task'[t].op = "notify" /\ task'[t].event = VerdictEvent(task[t].verdict)
        /\ task'[t].booking = task[t].booking
    BY <1>7 DEF ReviewCommit, Become, TypeOK
  <2>4. QED
    BY <2>1, <2>2, <2>3 DEF TruthOf, VerdictEvent
<1>8. CASE ReloadCancelled(t)
  <2>1. booking[task[t].booking].status = "CANCELLED" /\ booking' = booking
    BY <1>8 DEF ReloadCancelled, NoticesTrue, InFlight
  <2>2. /\ task'[t].op = "notify" /\ task'[t].event = "cancelled_by_master"
        /\ task'[t].booking = task[t].booking
    BY <1>8 DEF ReloadCancelled, Become, TypeOK
  <2>3. QED
    BY <2>1, <2>2 DEF TruthOf
<1>9. CASE \/ \E b \in Bookings : CreateInsert(t, b)
           \/ CreateRejected(t) \/ MoveRejected(t) \/ ReviewTooLate(t) \/ Announce(t)
  BY <1>9 DEF CreateInsert, CreateRejected, MoveRejected, ReviewTooLate, Announce, Become,
              TypeOK, Idle
<1>10. QED
  BY <1>2, <1>3, <1>4, <1>5, <1>6, <1>7, <1>8, <1>9, TaskStep DEF Proceed

LEMMA JobsStep ==
    ASSUME SlotsInv, NoticesTrue, JobsTellTheTruth, [Next]_vars
    PROVE  JobsTellTheTruth'
<1> USE DEF SlotsInv
<1>1. \A j \in outbox : j.booking \in Rows /\ TruthOf(j.event, j.booking)
  BY DEF JobsTellTheTruth, TruthOf
<1>2. \A j \in outbox' : j.booking \in Rows /\ TruthOf(j.event, j.booking)
  <2>1. ASSUME NEW t \in Tasks, Announce(t)
        PROVE  outbox' \subseteq outbox \cup {JobOf(task[t])}
    BY <2>1 DEF Announce
  <2>2. ASSUME NEW t \in Tasks, Announce(t)
        PROVE  task[t].booking \in Rows /\ TruthOf(task[t].event, task[t].booking)
    BY <2>2 DEF Announce, NoticesTrue, TasksNameRows, InFlight
  <2>3. CASE \E t \in Tasks : Announce(t)
    BY <1>1, <2>1, <2>2, <2>3 DEF JobOf
  <2>4. CASE ~\E t \in Tasks : Announce(t)
    <3>1. outbox' = outbox
      BY <2>4 DEF Next, vars, Begin, Proceed, CreateCheck, MoveCheck, ReviewCheck,
                  CancelByMaster, CreateInsert, CreateRejected, CreateCommit, MoveCommit,
                  MoveRejected, ReviewCommit, ReviewTooLate, ReloadCancelled, CancelByClient,
                  MarkAttendance, SetSlotSize, Crash, Tick, Order, Grant, Revoke
    <3>2. QED
      BY <1>1, <3>1
  <2>5. QED
    BY <2>3, <2>4
<1>3. QED
  BY <1>2, RowStep DEF JobsTellTheTruth, TruthOf, Ages

\* A message in the outbox tells what was decided, whatever other handlers did
\* between the decision and the transaction that enqueued it.
THEOREM JobsTellTheTruthHolds == Spec => []JobsTellTheTruth
<1>1. Init => NoticesInv
  BY InitSlots DEF NoticesInv, Init, NoticesTrue, JobsTellTheTruth, InFlight, Idle
<1>2. NoticesInv /\ [Next]_vars => NoticesInv'
  BY NextSlots, NoticesStep, JobsStep DEF NoticesInv
<1>3. NoticesInv => JobsTellTheTruth
  BY DEF NoticesInv
<1>4. QED
  BY <1>1, <1>2, <1>3, PTL DEF Spec
-----------------------------------------------------------------------------
(* The calendar. *)

\* A row that keeps its slot, or stays without one, looks the same.
LEMMA SameView ==
    ASSUME NEW b \in Rows, b \in Rows',
           booking'[b].master = booking[b].master, booking'[b].start = booking[b].start,
           booking'[b].dur = booking[b].dur,
           booking'[b].status \in Live <=> booking[b].status \in Live
    PROVE  View(b)' = View(b)
BY DEF View

LEMMA HeldView ==
    ASSUME SlotsInv, NEW b \in Bookings
    PROVE  /\ View(b).state = "held" <=> b \in Rows /\ booking[b].status \in Live
           /\ View(b).state = "held" =>
                 /\ View(b) \in Promise!Slot
                 /\ View(b).master = booking[b].master
                 /\ View(b).start = booking[b].start
                 /\ View(b).dur = booking[b].dur
<1>1. b \in Rows => booking[b] \in Row
  BY DEF SlotsInv, TypeOK, Rows
<1>2. QED
  BY <1>1 DEF View, Promise!Slot, Row

\* A row that clashes with no other live row is free for its slot.
LEMMA ClearIsFree ==
    ASSUME SlotsInv, NEW b \in Bookings, NEW s, NEW r,
           s.master = r.master, s.start = r.start, s.dur = r.dur,
           \A o \in Rows \ {b} : booking[o].status \in Live => ~Clash(r, booking[o])
    PROVE  Promise!FreeFor(b, s)
<1> SUFFICES ASSUME NEW o \in Bookings \ {b}, View(o).state = "held"
             PROVE  ~Promise!Meets(s, View(o))
  BY DEF Promise!FreeFor
<1>1. o \in Rows /\ booking[o].status \in Live
  BY HeldView
<1>2. ~Clash(r, booking[o])
  BY <1>1
<1>3. QED
  BY <1>2, HeldView DEF Promise!Meets, Clash

LEMMA InitPromise == Init => Promise!Init
BY DEF Init, Promise!Init, Promise!Unused, View, Rows

LEMMA CommitPromise ==
    ASSUME SlotsInv, NEW t \in Tasks, CreateCommit(t)
    PROVE  Promise!Next
<1> PICK n \in Bookings : n = task[t].booking
  BY CommitTypes DEF SlotsInv
<1> DEFINE s == View(n)'
<1>1. t \in InFlight("inserted")
  BY DEF CreateCommit, InFlight
<1>2. /\ n \notin Rows /\ Rows' = Rows \cup {n}
      /\ booking'[n] = task[t].row /\ task[t].row \in Row /\ task[t].row.status \in Live
      /\ \A b \in Rows : booking'[b] = booking[b]
  BY <1>1, CommitTypes DEF SlotsInv, TasksNameRows, InsertsFresh
<1>3. View(n) = Promise!Unused
  BY <1>2 DEF View, Promise!Unused
<1>4. /\ s \in Promise!Slot
      /\ s.master = task[t].row.master /\ s.start = task[t].row.start /\ s.dur = task[t].row.dur
  BY <1>2 DEF View, Promise!Slot, Row
<1>5. \A o \in Bookings \ {n} : View(o)' = View(o)
  BY <1>2 DEF View
<1>6. Promise!FreeFor(n, s)
  BY <1>1, <1>2, <1>4, ClearIsFree DEF SlotsInv, InsertsApart
<1>7. Promise!Reserve(n)
  BY <1>2, <1>3, <1>4, <1>5, <1>6 DEF Promise!Reserve
<1>8. QED
  BY <1>2, <1>7 DEF Promise!Next

LEMMA MovePromise ==
    ASSUME SlotsInv, NEW t \in Tasks, MoveCommit(t)
    PROVE  Promise!Next \/ \A b \in Bookings : View(b)' = View(b)
<1> PICK n \in Bookings : n = task[t].booking
  BY MoveType DEF SlotsInv, TypeOK, Rows
<1> DEFINE s == View(n)'
<1>1. /\ n \in Rows /\ Moved(t) \in Row /\ task[t].at \in Starts
      /\ booking[n] \in Row /\ Rows' = Rows
      /\ booking'[n] = Moved(t) /\ \A b \in Rows \ {n} : booking'[b] = booking[b]
  <2>1. task[t] \in MoveTask
    BY TaskTypes DEF SlotsInv, MoveCommit
  <2>2. QED
    BY <2>1, MoveType DEF SlotsInv, MoveCommit, TypeOK, Rows, MoveTask
<1>2. /\ Moved(t).master = booking[n].master /\ Moved(t).dur = booking[n].dur
      /\ Moved(t).status = booking[n].status /\ Moved(t).start = task[t].at
  BY <1>1 DEF Moved, Row
<1>3. \A o \in Bookings \ {n} : View(o)' = View(o)
  BY <1>1 DEF View
<1>4. CASE booking[n].status \notin Live
  BY <1>1, <1>2, <1>3, <1>4 DEF View
<1>5. CASE booking[n].status \in Live
  <2>1. View(n).state = "held" /\ s = [View(n) EXCEPT !.start = task[t].at]
    BY <1>1, <1>2, <1>5 DEF View
  <2>2. s.master = Moved(t).master /\ s.start = Moved(t).start /\ s.dur = Moved(t).dur
    BY <1>1, <1>2, <1>5 DEF View
  <2>3. Promise!FreeFor(n, s)
    BY <1>1, <1>2, <1>5, <2>2, ClearIsFree DEF MoveCommit, Excluded
  <2>4. Promise!Shift(n)
    BY <1>1, <1>3, <2>1, <2>3 DEF Promise!Shift
  <2>5. QED
    BY <1>1, <2>4 DEF Promise!Next
<1>6. QED
  BY <1>4, <1>5

LEMMA StatusPromise ==
    ASSUME SlotsInv, NEW n \in Rows, NEW s \in Status, Ages(booking[n].status, s), StatusSet(n, s)
    PROVE  Promise!Next \/ \A b \in Bookings : View(b)' = View(b)
<1>1. /\ booking[n] \in Row /\ n \in Bookings
      /\ Rows' = Rows /\ \A b \in Rows \ {n} : booking'[b] = booking[b]
      /\ booking'[n] = [booking[n] EXCEPT !.status = s]
  BY DEF SlotsInv, TypeOK, Rows, StatusSet
<1>2. /\ booking'[n].master = booking[n].master /\ booking'[n].dur = booking[n].dur
      /\ booking'[n].start = booking[n].start /\ booking'[n].status = s
  BY <1>1 DEF Row
<1>3. \A o \in Bookings \ {n} : View(o)' = View(o)
  BY <1>1 DEF View
<1>4. CASE s \in Live
  <2>1. View(n)' = View(n)
    BY <1>1, <1>2, <1>4, SameView DEF Ages, Live
  <2>2. QED
    BY <1>3, <2>1
<1>5. CASE s \notin Live
  <2>1. View(n).state = "held" /\ View(n)' = Promise!Released
    BY <1>1, <1>2, <1>5 DEF View, Promise!Released, Ages, Live
  <2>2. Promise!Release(n)
    BY <1>1, <1>3, <2>1 DEF Promise!Release
  <2>3. QED
    BY <1>1, <2>2 DEF Promise!Next
<1>6. QED
  BY <1>4, <1>5

LEMMA PromiseStep ==
    ASSUME SlotsInv, [Next]_vars
    PROVE  Promise!Next \/ \A b \in Bookings : View(b)' = View(b)
<1>1. CASE booking' = booking
  BY <1>1 DEF View, Rows
<1>2. ASSUME NEW n \in Rows, NEW o \in {"ATTENDED", "NO_SHOW"}, OutcomeSet(n, o)
      PROVE  \A b \in Bookings : View(b)' = View(b)
  <2>1. Rows' = Rows /\ booking[n] \in Row
    BY <1>2 DEF SlotsInv, TypeOK, Rows, OutcomeSet
  <2>2. \A b \in Rows : /\ booking'[b].master = booking[b].master
                        /\ booking'[b].start = booking[b].start
                        /\ booking'[b].dur = booking[b].dur
                        /\ booking'[b].status = booking[b].status
    BY <1>2, <2>1 DEF OutcomeSet, Rows, Row, SlotsInv, TypeOK
  <2>3. QED
    BY <2>1, <2>2 DEF View
<1>3. QED
  BY <1>1, <1>2, RowsStep, CommitPromise, MovePromise, StatusPromise

\* Handlers, transactions, crashes and the clock implement the calendar: a step
\* takes, shifts or gives up the slot of one booking, or changes no slot.
THEOREM PromiseKept == Spec => KeepsPromise
<1>1. Init => SlotsInv /\ Promise!Init
  BY InitSlots, InitPromise
<1>2. SlotsInv /\ [Next]_vars => SlotsInv' /\ [Promise!Next]_([b \in Bookings |-> View(b)])
  BY NextSlots, PromiseStep
<1>3. QED
  BY <1>1, <1>2, PTL DEF Spec, KeepsPromise, Promise!Spec
=============================================================================
