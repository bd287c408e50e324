--------------------------- MODULE RemindersProofs ---------------------------
(***************************************************************************)
(* Proofs about Reminders: each of its steps is a step of Outbox or none,  *)
(* so what is proved of the outbox holds of its rows; and no message comes *)
(* that has lost its point.                                                *)
(***************************************************************************)
EXTENDS Reminders, TLAPS

Proved == INSTANCE OutboxProofs WITH
    Once <- NoticeKeys \cup ReminderKeys \cup NudgeKeys,
    Refreshed <- {},
    Snoozed <- SnoozeKeys,
    Groups <- {NudgesOf(b) : b \in Bookings}

LEMMA CountsAlike ==
    /\ \A S : Proved!IsFiniteSet(S) <=> IsFiniteSet(S)
    /\ \A S : Box!IsFiniteSet(S) <=> IsFiniteSet(S)
    /\ \A S : Proved!Cardinality(S) = Box!Cardinality(S)
  <1>1. \A S : Proved!IsFiniteSet(S) <=> IsFiniteSet(S)
    BY DEF Proved!IsFiniteSet, IsFiniteSet
  <1>2. \A S : Box!IsFiniteSet(S) <=> IsFiniteSet(S)
    BY DEF Box!IsFiniteSet, IsFiniteSet
  <1>3. \A S : Proved!Cardinality(S) = Box!Cardinality(S)
    BY DEF Proved!Cardinality, Box!Cardinality
  <1> QED
    BY <1>1, <1>2, <1>3

LEMMA ConstantsAlike == Proved!OutboxConstants
  BY ReminderConstants, CountsAlike DEF Box!Keys, Proved!Keys

LEMMA KeysAlike == Proved!Keys = Box!Keys
  BY DEF Box!Keys, Proved!Keys

LEMMA ValuesAlike ==
    /\ Proved!Row = Box!Row /\ Proved!Absent = Box!Absent /\ Proved!Idle = Box!Idle
    /\ Proved!Worker = Box!Worker /\ Proved!Live = Box!Live
    /\ \A t : Proved!By(t) = Box!By(t)
    /\ \A f : Proved!May(f) = Box!May(f)
    /\ \A due : Proved!Fresh(due) = Box!Fresh(due)
    /\ \A row : /\ Proved!Cancelled(row) = Box!Cancelled(row)
                /\ Proved!Reserved(row) = Box!Reserved(row)
                /\ Proved!AttemptLeft(row) <=> Box!AttemptLeft(row)
                /\ Proved!Waiting(row) = Box!Waiting(row)
    /\ Proved!Armable = Box!Armable /\ Proved!DuePending = Box!DuePending
    /\ \A row, result, at : Proved!After(row, result, at) = Box!After(row, result, at)
  BY DEF Box!Keys, Proved!Keys, Proved!Row, Box!Row, Proved!Absent, Box!Absent, Proved!Idle,
     Box!Idle,
   Proved!Worker, Box!Worker, Proved!Live, Box!Live, Proved!Final, Box!Final, Proved!By, Box!By,
          Proved!May, Box!May,
   Proved!Fresh, Box!Fresh, Proved!Cancelled, Box!Cancelled, Proved!Reserved, Box!Reserved,
          Proved!Armable, Box!Armable,
   Proved!Insertable, Box!Insertable, Proved!Refreshable, Box!Refreshable, Proved!Snoozable,
          Box!Snoozable,
   Proved!DuePending, Box!DuePending, Proved!After, Box!After, Proved!StatusAfter, Box!StatusAfter,
   Proved!AttemptLeft, Box!AttemptLeft, Proved!Waiting, Box!Waiting

LEMMA EnqueueAlike ==
    ASSUME NEW cancel, NEW fresh, NEW due
    PROVE  Proved!Enqueue(cancel, fresh, due) <=> Box!Enqueue(cancel, fresh, due)
  BY KeysAlike, ValuesAlike DEF Proved!Enqueue, Box!Enqueue

LEMMA WorkAlike ==
    ASSUME NEW w
    PROVE  /\ Proved!Deliver(w) <=> Box!Deliver(w)
           /\ Proved!DeliverRefused(w) <=> Box!DeliverRefused(w)
           /\ Proved!SendError(w) <=> Box!SendError(w)
           /\ Proved!ReadAttempts(w) <=> Box!ReadAttempts(w)
           /\ Proved!Dropped(w) <=> Box!Dropped(w)
           /\ Proved!Finalize(w) <=> Box!Finalize(w)
           /\ Proved!FinalizeFails(w) <=> Box!FinalizeFails(w)
           /\ Proved!Die(w) <=> Box!Die(w)
           /\ \A batch : Proved!Reserve(w, batch) <=> Box!Reserve(w, batch)
           /\ \A k, verdict : Proved!Take(w, k, verdict) <=> Box!Take(w, k, verdict)
  BY KeysAlike, ValuesAlike, CountsAlike DEF Proved!Deliver, Box!Deliver, Proved!DeliverRefused,
     Box!DeliverRefused,
   Proved!SendError, Box!SendError, Proved!Dropped, Box!Dropped, Proved!Finalize, Box!Finalize,
   Proved!FinalizeFails, Box!FinalizeFails, Proved!Die, Box!Die, Proved!Reserve, Box!Reserve,
          Proved!Earliest, Box!Earliest,
   Proved!Take, Box!Take, Proved!ReadAttempts, Box!ReadAttempts

LEMMA NextAlike == Proved!Next <=> Box!Next
  <1>1. Proved!Operate <=> Box!Operate
    BY EnqueueAlike, ValuesAlike DEF Proved!Operate, Box!Operate
  <1>2. \A w : Proved!Process(w) <=> Box!Process(w)
    BY WorkAlike, KeysAlike DEF Proved!Process, Box!Process
  <1>3. \A w : Proved!Work(w) <=> Box!Work(w)
    BY <1>2, WorkAlike, ValuesAlike DEF Proved!Work, Box!Work
  <1>4. Proved!Tick <=> Box!Tick
    BY DEF Proved!Tick, Box!Tick
  <1> QED
    BY <1>1, <1>3, <1>4, WorkAlike DEF Proved!Next, Box!Next

LEMMA RivalsAlike == \A arms : Proved!Rivals(arms) = Box!Rivals(arms)
  BY CountsAlike DEF Proved!Rivals, Box!Rivals

LEMMA StatesAlike ==
    /\ Proved!vars = Box!vars
    /\ Proved!Init <=> Box!Init
    /\ Proved!TypeOK <=> Box!TypeOK
    /\ Proved!AtMostOncePerArming <=> Box!AtMostOncePerArming
    /\ Proved!OnceEver <=> Box!OnceEver
    /\ Proved!AttemptsBounded <=> Box!AttemptsBounded
  BY KeysAlike, ValuesAlike, RivalsAlike DEF Proved!vars, Box!vars, Proved!Init, Box!Init,
     Proved!TypeOK,
     Box!TypeOK,
    Proved!AtMostOncePerArming, Box!AtMostOncePerArming, Proved!OnceEver, Box!OnceEver,
           Proved!AttemptsBounded, Box!AttemptsBounded

-----------------------------------------------------------------------------
(* Keys.                                                                   *)

LEMMA KindsApart ==
    /\ \A k \in NoticeKeys : k.kind \in {"rescheduled", "cancelled"}
    /\ \A k \in ReminderKeys : k.kind \in DOMAIN Lead
    /\ \A k \in NudgeKeys : k.kind \in DOMAIN Lag
    /\ \A k \in SnoozeKeys : k.kind = "snooze"
    /\ "snooze" \notin DOMAIN Lead \cup DOMAIN Lag
    /\ {"rescheduled", "cancelled"} \cap (DOMAIN Lead \cup DOMAIN Lag) = {}
    /\ DOMAIN Lead \cap DOMAIN Lag = {}
  <1>1. \A k \in SnoozeKeys : k.kind = "snooze"
    BY DEF SnoozeKeys, SnoozeKey
  <1> QED
    BY <1>1, ReminderConstants DEF NoticeKeys, ReminderKeys, NudgeKeys

LEMMA NoticeNoSnooze == \A k \in NoticeKeys : k \notin SnoozeKeys
  BY KindsApart

LEMMA WantedNoSnooze == \A k \in ReminderKeys \cup NudgeKeys : k \notin SnoozeKeys
  BY KindsApart

LEMMA NudgesApart ==
    \A k \in NudgeKeys \cup SnoozeKeys : k \notin NoticeKeys \cup ReminderKeys
  BY KindsApart

LEMMA VarsAlike == UNCHANGED Proved!vars <=> UNCHANGED Box!vars
  BY DEF Proved!vars, Box!vars

LEMMA StepsAlike ==
    /\ Proved!TypeOK <=> Box!TypeOK
    /\ [Proved!Next]_(Proved!vars) <=> [Box!Next]_(Box!vars)
  BY StatesAlike, NextAlike, VarsAlike

-----------------------------------------------------------------------------
(* Every step is a step of the outbox.                                     *)

LEMMA KeysAre == Box!Keys = NoticeKeys \cup ReminderKeys \cup NudgeKeys \cup SnoozeKeys
  BY DEF Box!Keys

LEMMA OutboxConstants ==
    /\ NoKey \notin Box!Keys
    /\ Horizon \in Nat /\ MaxArmings \in Nat /\ MaxAttempts \in Nat \ {0} /\ Backoff \in Nat
  BY ReminderConstants DEF Box!Keys

LEMMA ByType ==
    ASSUME NEW t \in Nat
    PROVE  Box!By(t) \in 0..Horizon
  BY OutboxConstants DEF Box!By

LEMMA EnqueueOperates ==
    ASSUME Box!TypeOK, NEW cancel \in {NudgesOf(b) : b \in Bookings} \cup {{}},
           NEW fresh \in SUBSET Box!Keys, NEW due,
           \A k \in fresh : due[k] \in 0..Horizon,
           \A k \in fresh : k \in SnoozeKeys => armed[k] < MaxArmings,
           Box!Enqueue(cancel, fresh, due)
    PROVE  [Box!Next]_(Box!vars)
  <1> DEFINE d == [k \in fresh |-> due[k]]
             may == {k \in Box!Armable :
                        \/ k \in NoticeKeys \cup ReminderKeys \cup NudgeKeys
                        \/ armed[k] < MaxArmings}
  <1>1. fresh \subseteq may
    BY KeysAre DEF Box!Enqueue
  <1>2. d \in [fresh -> 0..Horizon]
    OBVIOUS
  <1>3. Box!Enqueue(cancel, fresh, d)
    BY DEF Box!Enqueue
  <1>4. CASE cancel \cup fresh # {}
    <2>1. Box!Operate
      BY <1>1, <1>2, <1>3, <1>4 DEF Box!Operate
    <2> QED
      BY <2>1 DEF Box!Next
  <1>5. CASE cancel \cup fresh = {}
    <2>1. job' = [k \in Box!Keys |-> job[k]] /\ armed' = [k \in Box!Keys |-> armed[k]]
      BY <1>5 DEF Box!Enqueue
    <2>2. job' = job /\ armed' = armed
      BY <2>1 DEF Box!TypeOK
    <2> QED
      BY <2>2 DEF Box!Enqueue, Box!vars
  <1> QED
    BY <1>4, <1>5

LEMMA NudgesAre ==
    ASSUME NEW b \in Bookings
    PROVE  NudgesOf(b) \subseteq Box!Keys /\ SnoozeKey(b) \in SnoozeKeys
  BY KeysAre DEF NudgesOf, SnoozeKeys

LEMMA DueType ==
    ASSUME NEW k \in ReminderKeys \cup NudgeKeys
    PROVE  Box!By(DueOf(k)) \in 0..Horizon
  <1>1. DueOf(k) \in Nat
    <2>1. CASE k \in ReminderKeys
      <3>1. k.at \in Nat /\ Lead[k.kind] \in Nat
        BY <2>1, ReminderConstants DEF ReminderKeys
      <3> QED
        BY <2>1, <3>1 DEF DueOf
    <2>2. CASE k \in NudgeKeys \ ReminderKeys
      <3>1. k.at \in Nat /\ Lag[k.kind] \in Nat /\ Dur \in Nat
        BY <2>2, ReminderConstants DEF NudgeKeys
      <3>2. k.at + Dur + Lag[k.kind] \in Nat
        BY <3>1
      <3> QED
        BY <2>2, <3>2, ReminderConstants DEF DueOf, Awake
    <2> QED
      BY <2>1, <2>2
  <1> QED
    BY <1>1, ByType

LEMMA AnnounceRefines ==
    ASSUME Box!TypeOK, NEW n \in NoticeKeys, Announce(n)
    PROVE  [Box!Next]_(Box!vars)
  <1> DEFINE fresh == IF n.at > now THEN {n} \cap Box!Armable ELSE {}
             due == [k \in {n} |-> now]
  <1>1. Box!Enqueue({}, fresh, due)
    BY DEF Announce
  <1>2. fresh \subseteq {n} /\ n \in Box!Keys /\ n \notin SnoozeKeys
    BY KeysAre, NoticeNoSnooze
  <1>3. due[n] \in 0..Horizon
    BY DEF Box!TypeOK
  <1> HIDE DEF fresh, due
  <1> QED
    BY <1>1, <1>2, <1>3, EnqueueOperates

LEMMA PressRefines ==
    ASSUME Box!TypeOK, NEW b \in Bookings, Press(b)
    PROVE  [Box!Next]_(Box!vars)
  <1>1. NudgesOf(b) \in {NudgesOf(c) : c \in Bookings} \cup {{}}
    OBVIOUS
  <1>2. CASE Box!Enqueue(NudgesOf(b), {}, <<>>)
    BY <1>1, <1>2, EnqueueOperates
  <1>3. CASE Snooze(b)
    <2> DEFINE due == [k \in SnoozeKeys |-> Box!By(now + SnoozeFor)]
    <2>1. SnoozeKey(b) \in SnoozeKeys /\ SnoozeKey(b) \in Box!Keys
      BY NudgesAre, KeysAre
    <2>2. Box!By(now + SnoozeFor) \in 0..Horizon
      <3>1. now + SnoozeFor \in Nat
        BY ReminderConstants DEF Box!TypeOK
      <3> QED
        BY <3>1, ByType
    <2>3. due[SnoozeKey(b)] \in 0..Horizon
      BY <2>1, <2>2
    <2>4. Box!Enqueue(NudgesOf(b), {SnoozeKey(b)}, due) /\ armed[SnoozeKey(b)] < MaxArmings
      BY <1>3 DEF Snooze
    <2> HIDE DEF due
    <2> QED
      BY <1>1, <2>1, <2>3, <2>4, EnqueueOperates
  <1> QED
    BY <1>2, <1>3 DEF Press, MarkFromNudge, Disable

LEMMA RefreshRefines ==
    ASSUME Box!TypeOK, NEW w \in Workers, RefreshSchedule(w)
    PROVE  [Box!Next]_(Box!vars)
  <1> DEFINE fresh == (WantedReminders \cup WantedNudges) \cap Box!Armable
             due == [k \in fresh |-> Box!By(DueOf(k))]
  <1>1. Box!Enqueue({}, fresh, due)
    BY DEF RefreshSchedule
  <1>2. fresh \subseteq ReminderKeys \cup NudgeKeys
    BY DEF WantedReminders, WantedNudges
  <1>3. \A k \in fresh : k \in Box!Keys /\ k \notin SnoozeKeys
    BY <1>2, KeysAre, WantedNoSnooze
  <1>4. \A k \in fresh : due[k] \in 0..Horizon
    BY <1>2, DueType
  <1> HIDE DEF fresh, due
  <1> QED
    BY <1>1, <1>3, <1>4, EnqueueOperates

LEMMA WorkRefines ==
    ASSUME Box!TypeOK, NEW w \in Workers, Reserve(w) \/ Take(w) \/ Send(w) \/ Finalize(w)
    PROVE  Box!Next
  <1>1. CASE Reserve(w)
    BY <1>1 DEF Reserve, Box!Next, Box!Work
  <1>2. CASE Take(w)
    <2>1. PICK k \in worker[w].batch :
             Box!Take(w, k, IF Relevant(k, worker[w].at) THEN "none" ELSE "false")
      BY <1>2 DEF Take
    <2>2. k \in Box!Keys
      BY <2>1 DEF Box!TypeOK, Box!Worker
    <2>3. \E verdict \in {"none", "false"} : Box!Take(w, k, verdict)
      BY <2>1
    <2> QED
      BY <2>2, <2>3 DEF Box!Next, Box!Work, Box!Process
  <1>3. CASE Send(w)
    BY <1>3 DEF Send, Box!Next, Box!Work, Box!Process
  <1>4. CASE Finalize(w)
    BY <1>4 DEF Finalize, Box!Next, Box!Work, Box!Process
  <1> QED
    BY <1>1, <1>2, <1>3, <1>4

LEMMA StepRefines ==
    ASSUME Box!TypeOK, [Next]_vars
    PROVE  [Box!Next]_(Box!vars)
  <1>1. ASSUME UNCHANGED boxVars
        PROVE  [Box!Next]_(Box!vars)
    BY <1>1 DEF boxVars, Box!vars
  <1>2. ASSUME NEW b \in Bookings, Change(b)
        PROVE  [Box!Next]_(Box!vars)
    BY <1>1, <1>2 DEF Change, Reschedule, CancelBooking, MarkFromCard
  <1>3. ASSUME NEW w \in Workers, Work(w) \/ Die(w)
        PROVE  [Box!Next]_(Box!vars)
    <2>1. CASE Die(w)
      BY <2>1 DEF Die, Box!Next
    <2> QED
      BY <1>3, <2>1, RefreshRefines, WorkRefines DEF Work
  <1>4. CASE Forget \/ \E t \in Switchable : Toggle(t)
    BY <1>1, <1>4 DEF Forget, Toggle
  <1>5. CASE Tick
    BY <1>5 DEF Tick, Box!Next
  <1>6. CASE UNCHANGED vars
    BY <1>1, <1>6 DEF vars, boxVars
  <1> QED
    BY <1>2, <1>3, <1>4, <1>5, <1>6, PressRefines, AnnounceRefines DEF Next

LEMMA BoxInvariant == Spec => []Proved!IInv /\ []Box!TypeOK /\ Box!Spec
  <1>1. Init => Proved!IInv
    BY StatesAlike, ConstantsAlike, Proved!InitInv DEF Init
  <1>2. Proved!IInv /\ [Proved!Next]_(Proved!vars) => Proved!IInv'
    BY ConstantsAlike, Proved!NextInv
  <1>3. Proved!IInv => Box!TypeOK
    BY StepsAlike DEF Proved!IInv
  <1>4. Box!TypeOK /\ [Next]_vars => [Box!Next]_(Box!vars)
    BY StepRefines
  <1>5. [Proved!Next]_(Proved!vars) <=> [Box!Next]_(Box!vars)
    BY StepsAlike
  <1>6. Init => Box!Init
    BY DEF Init
  <1> QED
    BY <1>1, <1>2, <1>3, <1>4, <1>5, <1>6, PTL DEF Spec, Box!Spec

\* What bookings, masters and the worker do with the rows of a Pro master's bookings is what
\* the outbox allows: every step is one of Outbox or leaves its variables alone.
THEOREM RefinesOutbox == Spec => Box!Spec
  BY BoxInvariant, PTL

\* So no notice, reminder or nudge comes more often than it was armed, and those of once-only
\* keys come once at most and are tried MaxAttempts times at most; a snoozed nudge can be
\* tried once more for each other worker that has it in hand from an earlier snooze.
THEOREM OutboxPromisesHold ==
    Spec => [](Box!AtMostOncePerArming /\ Box!OnceEver /\ Box!AttemptsBounded)
  <1>1. Proved!IInv => Proved!AtMostOncePerArming /\ Proved!OnceEver /\ Proved!AttemptsBounded
    BY ConstantsAlike, Proved!CopiesBound, Proved!OnceBound, Proved!AttemptsBound
  <1>2. Proved!IInv => Box!AtMostOncePerArming /\ Box!OnceEver /\ Box!AttemptsBounded
    BY <1>1, StatesAlike
  <1> QED
    BY <1>2, BoxInvariant, PTL

-----------------------------------------------------------------------------
(* The invariant.  A silenced message either has lost its point, and then  *)
(* no worker that takes it will find it relevant, or its job was cancelled *)
(* with no worker on it, and then nothing arms it again: the nudges of a   *)
(* booking are armed together, once, after its end.                        *)

Types ==
    /\ booking \in [Bookings -> [status : {"CONFIRMED", "CANCELLED"}, start : Starts,
                                 outcome : {"UNKNOWN", "ATTENDED", "NO_SHOW"}]]
    /\ snoozedAt \in [Bookings -> {0} \cup Starts]
    /\ silenced \subseteq Box!Keys

\* A row exists once its key was armed, and before that nobody has its message
Rows ==
    \A k \in Box!Keys :
        /\ job[k].status = "ABSENT" <=> armed[k] = 0
        /\ job[k].status = "ABSENT" => k \notin OnItsWay /\ delivered[k] = 0

ArmedTogether(b, at) == \A l \in NudgeKeys : l.booking = b /\ l.at = at => armed[l] > 0

NudgesInv ==
    \A k \in NudgeKeys : armed[k] > 0 =>
        /\ k.at + Dur <= now
        /\ booking[k.booking].start = k.at
        /\ ArmedTogether(k.booking, k.at)

\* A nudge is snoozed only after one has come
SnoozeInv ==
    \A b \in Bookings :
        armed[SnoozeKey(b)] > 0 => \E k \in NudgeKeys : k.booking = b /\ armed[k] > 0

Unsent(k) == \A w \in Workers : worker[w].key = k => worker[w].result # "none"

Settled(k) ==
    /\ k \in NudgeKeys \cup SnoozeKeys
    /\ k \notin OnItsWay
    /\ job[k].status # "PENDING"
    /\ k \in NudgeKeys => armed[k] > 0

SilencedInv == \A k \in silenced : Unsent(k) /\ (k \in Pointless(k.booking) \/ Settled(k))

IInv == Box!TypeOK /\ Types /\ Rows /\ NudgesInv /\ SnoozeInv /\ SilencedInv

-----------------------------------------------------------------------------
LEMMA OwnKeys ==
    /\ \A k \in Box!Keys : k.booking \in Bookings /\ k \in KeysOf(k.booking)
    /\ \A k \in SnoozeKeys : k = SnoozeKey(k.booking) /\ k.booking \in Bookings
    /\ \A b \in Bookings : /\ \A k \in KeysOf(b) : k \in Box!Keys /\ k.booking = b
                           /\ \A k \in NudgesOf(b) :
                                 k \in NudgeKeys \cup SnoozeKeys /\ k.booking = b
                           /\ SnoozeKey(b).booking = b /\ SnoozeKey(b) \in SnoozeKeys
  <1>1. /\ \A k \in NoticeKeys \cup ReminderKeys \cup NudgeKeys : k.booking \in Bookings
        /\ \A b : SnoozeKey(b).booking = b
    BY DEF NoticeKeys, ReminderKeys, NudgeKeys, SnoozeKey
  <1>2. \A k \in SnoozeKeys : k = SnoozeKey(k.booking) /\ k.booking \in Bookings
    BY <1>1 DEF SnoozeKeys
  <1>3. \A b \in Bookings : SnoozeKey(b) \in SnoozeKeys
    BY DEF SnoozeKeys
  <1> QED
    BY <1>1, <1>2, <1>3, KeysAre DEF KeysOf, NudgesOf

LEMMA WayIs ==
    \A k : k \notin OnItsWay <=> \A w \in Workers : worker[w].key # k /\ k \notin worker[w].batch
  BY DEF OnItsWay, InHand

\* What speaks against a message is what the worker asks before it sends
LEMMA PointlessIrrelevant ==
    ASSUME NEW k \in Box!Keys, k \in Pointless(k.booking), NEW time
    PROVE  ~Relevant(k, time)
  <1>1. CASE StartOf(k) # booking[k.booking].start
    BY <1>1 DEF Relevant
  <1>2. CASE k \notin NoticeKeys /\ booking[k.booking].status # "CONFIRMED"
    BY <1>2 DEF Relevant, RelevantToClient, RelevantNudge
  <1>3. CASE k \in NudgesOf(k.booking) /\ booking[k.booking].outcome # "UNKNOWN"
    <2>1. k \notin NoticeKeys \cup ReminderKeys
      BY <1>3, NudgesApart DEF NudgesOf
    <2> QED
      BY <1>3, <2>1 DEF Relevant, RelevantNudge
  <1> QED
    BY <1>1, <1>2, <1>3 DEF Pointless

\* A message stays pointless unless its booking gets another start or it another job
LEMMA PointlessStays ==
    ASSUME NEW k \in Box!Keys, NEW c \in Bookings, k \in Pointless(c),
           booking'[c].start = booking[c].start,
           booking[c].status # "CONFIRMED" => booking'[c].status # "CONFIRMED",
           booking[c].outcome # "UNKNOWN" => booking'[c].outcome # "UNKNOWN",
           k \in SnoozeKeys => snoozedAt'[k.booking] = snoozedAt[k.booking]
    PROVE  k \in Pointless(c)'
  <1>1. StartOf(k)' = StartOf(k)
    BY DEF StartOf
  <1>2. KeysOf(c)' = KeysOf(c) /\ NudgesOf(c)' = NudgesOf(c)
    BY DEF KeysOf, NudgesOf
  <1> QED
    BY <1>1, <1>2 DEF Pointless

\* Once a nudge of a booking has come, all nudges for its start have been armed
LEMMA ButtonsMean ==
    ASSUME IInv, NEW b \in Bookings, HasButtons(b)
    PROVE  /\ \E k \in NudgeKeys : k.booking = b /\ armed[k] > 0
           /\ ArmedTogether(b, booking[b].start)
  <1>1. PICK k \in NudgesOf(b) : delivered[k] > 0
    BY DEF HasButtons
  <1>2. k \in Box!Keys /\ k \in NudgeKeys \cup SnoozeKeys /\ k.booking = b
    BY OwnKeys, NudgesAre
  <1>3. armed[k] > 0
    BY <1>1, <1>2 DEF IInv, Rows, Box!TypeOK
  <1>4. PICK l \in NudgeKeys : l.booking = b /\ armed[l] > 0
    <2>1. CASE k \in NudgeKeys
      BY <1>2, <1>3, <2>1
    <2>2. CASE k \in SnoozeKeys
      BY <1>2, <1>3, <2>2, OwnKeys DEF IInv, SnoozeInv
    <2> QED
      BY <1>2, <2>1, <2>2
  <1>5. booking[b].start = l.at /\ ArmedTogether(b, l.at)
    BY <1>4 DEF IInv, NudgesInv
  <1> QED
    BY <1>4, <1>5

\* What a step that silences has to show
LEMMA SilenceKeeps ==
    ASSUME IInv, NEW b \in Bookings, NEW cancelled \in SUBSET Box!Keys,
           NEW lifted \in SUBSET Box!Keys, Silence(b, cancelled, lifted), worker' = worker,
           \A k \in silenced \ lifted :
               /\ k \in Pointless(k.booking) => k \in Pointless(k.booking)'
               /\ Settled(k) => k \in Pointless(k.booking)' \/ Settled(k)',
           \A k \in cancelled \ OnItsWay : k \in Pointless(b)' \/ Settled(k)'
    PROVE  SilencedInv' /\ silenced' \subseteq Box!Keys
  <1>1. \A k \in Pointless(b)' : k \in Box!Keys /\ k.booking = b
    BY OwnKeys DEF Pointless, KeysOf, NudgesOf
  <1>2. \A k : Unsent(k)' <=> Unsent(k)
    BY DEF Unsent
  <1>3. \A k : k \notin InHand => Unsent(k)
    BY DEF InHand, Unsent
  <1>4. ASSUME NEW k \in silenced'
        PROVE  k \in Box!Keys /\ Unsent(k) /\ (k \in Pointless(k.booking)' \/ Settled(k)')
    <2>1. \/ k \in silenced /\ (k \notin lifted \/ k \in Pointless(b)')
          \/ k \in Pointless(b)' /\ k \notin InHand
          \/ k \in cancelled /\ k \notin OnItsWay
      BY <1>4 DEF Silence
    <2>2. CASE k \in silenced /\ (k \notin lifted \/ k \in Pointless(b)')
      <3>1. k \in Box!Keys /\ Unsent(k) /\ (k \in Pointless(k.booking) \/ Settled(k))
        BY <2>2 DEF IInv, SilencedInv, Types
      <3> QED
        BY <1>1, <2>2, <3>1
    <2>3. CASE k \in Pointless(b)' /\ k \notin InHand
      BY <1>1, <1>3, <2>3
    <2>4. CASE k \in cancelled /\ k \notin OnItsWay
      <3>1. k \notin InHand
        BY <2>4 DEF OnItsWay
      <3> QED
        BY <1>1, <1>3, <2>4, <3>1
    <2> QED
      BY <2>1, <2>2, <2>3, <2>4
  <1> QED
    BY <1>2, <1>4 DEF SilencedInv

-----------------------------------------------------------------------------
(* The booking changes, and the outbox does not.                           *)

LEMMA SameBox ==
    ASSUME IInv, UNCHANGED boxVars
    PROVE  /\ Box!TypeOK' /\ Rows' /\ SnoozeInv'
           /\ \A k : Settled(k)' <=> Settled(k)
           /\ \A b, at : ArmedTogether(b, at)' <=> ArmedTogether(b, at)
  <1>1. OnItsWay' = OnItsWay
    BY DEF boxVars, OnItsWay, InHand
  <1> QED
    BY <1>1 DEF boxVars, IInv, Box!TypeOK, Rows, SnoozeInv, Settled, ArmedTogether

LEMMA MarkedIs ==
    ASSUME Types, NEW b \in Bookings, NEW outcome \in {"ATTENDED", "NO_SHOW"},
           booking' = Marked(b, outcome)
    PROVE  /\ booking' \in [Bookings -> [status : {"CONFIRMED", "CANCELLED"}, start : Starts,
                                         outcome : {"UNKNOWN", "ATTENDED", "NO_SHOW"}]]
           /\ \A c \in Bookings :
                 /\ booking'[c].start = booking[c].start
                 /\ booking'[c].status = booking[c].status
                 /\ booking[c].outcome # "UNKNOWN" => booking'[c].outcome # "UNKNOWN"
  <1>1. CASE booking' = booking
    BY <1>1 DEF Types
  <1>2. CASE booking' = [booking EXCEPT ![b].outcome = outcome]
    BY <1>2 DEF Types
  <1> QED
    BY <1>1, <1>2 DEF Marked

LEMMA ChangeKeeps ==
    ASSUME IInv, NEW b \in Bookings, Change(b)
    PROVE  IInv'
  <1>1. UNCHANGED boxVars /\ snoozedAt' = snoozedAt
    BY DEF Change, Reschedule, CancelBooking, MarkFromCard
  <1>2. worker' = worker /\ armed' = armed /\ now' = now
    BY <1>1 DEF boxVars
  <1>3. CASE \E at \in Starts : Reschedule(b, at)
    <2>1. PICK at \in Starts : Reschedule(b, at)
      BY <1>3
    <2>2. booking' = [booking EXCEPT ![b].start = at] /\ booking[b].start > now
      BY <2>1 DEF Reschedule
    <2>3. Types' \/ ~ silenced' \subseteq Box!Keys
      BY <1>1, <2>2 DEF IInv, Types
    <2>4. NudgesInv'
      <3> SUFFICES ASSUME NEW k \in NudgeKeys, armed[k] > 0
                   PROVE  /\ k.at + Dur <= now /\ booking'[k.booking].start = k.at
                          /\ ArmedTogether(k.booking, k.at)
        BY <1>1, <1>2, SameBox DEF NudgesInv
      <3>1. /\ k.at + Dur <= now /\ booking[k.booking].start = k.at
            /\ ArmedTogether(k.booking, k.at)
        BY DEF IInv, NudgesInv
      <3>a. k.at \in Nat /\ Dur \in Nat /\ k.booking \in Bookings
        BY ReminderConstants DEF NudgeKeys
      <3>b. now \in 0..Horizon /\ Horizon \in Nat
        BY ReminderConstants DEF IInv, Box!TypeOK, Box!OutboxConstants
      <3>2. k.at \in Nat /\ Dur \in Nat /\ now \in Nat /\ k.booking \in Bookings
        BY <3>a, <3>b
      <3>3. k.booking # b
        BY <2>2, <3>1, <3>2
      <3> QED
        BY <2>2, <3>1, <3>2, <3>3 DEF IInv, Types
    <2>5. Silence(b, {}, KeysOf(b)) /\ KeysOf(b) \subseteq Box!Keys
      BY <2>1, OwnKeys DEF Reschedule
    <2>6. ASSUME NEW k \in silenced \ KeysOf(b)
          PROVE  k \in Pointless(k.booking) => k \in Pointless(k.booking)'
      <3>1. k \in Box!Keys
        BY DEF IInv, Types
      <3>2. k.booking \in Bookings /\ k.booking # b
        BY <3>1, OwnKeys
      <3>3. booking'[k.booking] = booking[k.booking]
        BY <2>2, <3>2 DEF IInv, Types
      <3> QED
        BY <1>1, <3>1, <3>2, <3>3, PointlessStays
    <2>7. SilencedInv' /\ silenced' \subseteq Box!Keys
      BY <1>1, <1>2, <2>5, <2>6, SameBox, SilenceKeeps
    <2> QED
      BY <1>1, <2>3, <2>4, <2>7, SameBox DEF IInv
  <1>4. ASSUME /\ booking' \in [Bookings -> [status : {"CONFIRMED", "CANCELLED"}, start : Starts,
                                             outcome : {"UNKNOWN", "ATTENDED", "NO_SHOW"}]]
               /\ \A c \in Bookings :
                     /\ booking'[c].start = booking[c].start
                     /\ booking[c].status # "CONFIRMED" => booking'[c].status # "CONFIRMED"
                     /\ booking[c].outcome # "UNKNOWN" => booking'[c].outcome # "UNKNOWN",
               Silence(b, {}, {})
        PROVE  IInv'
    <2>1. NudgesInv'
      <3>1. \A k \in NudgeKeys : k.booking \in Bookings
        BY DEF NudgeKeys
      <3> QED
        BY <1>1, <1>2, <1>4, <3>1, SameBox DEF IInv, NudgesInv
    <2>2. ASSUME NEW k \in silenced
          PROVE  k \in Pointless(k.booking) => k \in Pointless(k.booking)'
      <3>1. k \in Box!Keys /\ k.booking \in Bookings
        BY OwnKeys DEF IInv, Types
      <3> QED
        BY <1>1, <1>4, <3>1, PointlessStays
    <2>3. SilencedInv' /\ silenced' \subseteq Box!Keys
      BY <1>1, <1>2, <1>4, <2>2, SameBox, SilenceKeeps
    <2> QED
      BY <1>1, <1>4, <2>1, <2>3, SameBox DEF IInv, Types
  <1>5. CASE \E byMaster \in BOOLEAN : CancelBooking(b, byMaster)
    <2>1. booking' = [booking EXCEPT ![b].status = "CANCELLED"] /\ Silence(b, {}, {})
      BY <1>5 DEF CancelBooking
    <2> QED
      BY <1>4, <2>1 DEF IInv, Types
  <1>6. CASE \E outcome \in {"ATTENDED", "NO_SHOW"} : MarkFromCard(b, outcome)
    <2>1. PICK outcome \in {"ATTENDED", "NO_SHOW"} : MarkFromCard(b, outcome)
      BY <1>6
    <2>2. booking' = Marked(b, outcome) /\ Silence(b, {}, {})
      BY <2>1 DEF MarkFromCard
    <2> QED
      BY <1>4, <2>2, MarkedIs DEF IInv
  <1> QED
    BY <1>3, <1>5, <1>6 DEF Change

-----------------------------------------------------------------------------
(* The worker: a step of its own changes no booking, arms nothing and      *)
(* touches only the job it has in hand or reserves.                        *)

NoNews ==
    /\ \A k \in Box!Keys : job'[k].status = "ABSENT" <=> job[k].status = "ABSENT"
    /\ \A k \in Box!Keys : k \in OnItsWay' => k \in OnItsWay \/ job[k].status = "PENDING"
    /\ \A k \in Box!Keys :
          k \notin OnItsWay =>
              /\ delivered'[k] = delivered[k]
              /\ job'[k].status = "PENDING" => job[k].status = "PENDING"

KeepsQuiet ==
    \A k \in Box!Keys :
        Unsent(k) =>
            /\ delivered'[k] = delivered[k]
            /\ Unsent(k)' \/ (k \in OnItsWay /\ \E time : Relevant(k, time))

WorkerStep == armed' = armed /\ now' = now /\ NoNews /\ KeepsQuiet

LEMMA WorkerStepKeeps ==
    ASSUME IInv, Box!TypeOK', WorkerStep, UNCHANGED ownVars
    PROVE  IInv'
  <1>1. /\ booking' = booking /\ snoozedAt' = snoozedAt /\ silenced' = silenced
        /\ armed' = armed /\ now' = now
    BY DEF ownVars, WorkerStep
  <1>2. Types'
    BY <1>1 DEF IInv, Types
  <1>3. Rows'
    <2> SUFFICES ASSUME NEW k \in Box!Keys
                 PROVE  /\ job'[k].status = "ABSENT" <=> armed[k] = 0
                        /\ job'[k].status = "ABSENT" => k \notin OnItsWay' /\ delivered'[k] = 0
      BY <1>1 DEF Rows, Box!Keys
    <2>1. /\ job[k].status = "ABSENT" <=> armed[k] = 0
          /\ job[k].status = "ABSENT" => k \notin OnItsWay /\ delivered[k] = 0
      BY DEF IInv, Rows
    <2> QED
      BY <2>1 DEF WorkerStep, NoNews
  <1>4. NudgesInv' /\ SnoozeInv'
    BY <1>1 DEF IInv, NudgesInv, SnoozeInv, ArmedTogether
  <1>5. \A k : Pointless(k.booking)' = Pointless(k.booking)
    BY <1>1 DEF Pointless, StartOf, KeysOf, NudgesOf
  <1>6. SilencedInv'
    <2> SUFFICES ASSUME NEW k \in silenced
                 PROVE  Unsent(k)' /\ (k \in Pointless(k.booking) \/ Settled(k)')
      BY <1>1, <1>5 DEF SilencedInv
    <2>1. k \in Box!Keys /\ Unsent(k) /\ (k \in Pointless(k.booking) \/ Settled(k))
      BY DEF IInv, SilencedInv, Types
    <2>2. Unsent(k)'
      <3>1. CASE k \in Pointless(k.booking)
        BY <2>1, <3>1, PointlessIrrelevant DEF WorkerStep, KeepsQuiet
      <3>2. CASE Settled(k)
        BY <2>1, <3>2 DEF WorkerStep, KeepsQuiet, Settled
      <3> QED
        BY <2>1, <3>1, <3>2
    <2>3. Settled(k) => Settled(k)'
      BY <1>1, <2>1 DEF WorkerStep, NoNews, Settled
    <2> QED
      BY <2>1, <2>2, <2>3
  <1> QED
    BY <1>2, <1>3, <1>4, <1>6 DEF IInv

LEMMA NoKeyApart == NoKey \notin Box!Keys
  BY ReminderConstants DEF Box!OutboxConstants

\* A step that takes no job and no message out of the worker's hands
LEMMA ReserveStep ==
    ASSUME IInv, NEW w \in Workers, NEW batch \in SUBSET Box!DuePending, Box!Reserve(w, batch)
    PROVE  WorkerStep
  <1>1. /\ job' = [k \in Box!Keys |-> IF k \in batch THEN Box!Reserved(job[k]) ELSE job[k]]
        /\ worker' = [worker EXCEPT ![w] = [Box!Idle EXCEPT !.batch = batch, !.at = now]]
        /\ now' = now /\ armed' = armed /\ delivered' = delivered
    BY DEF Box!Reserve
  <1>2. \A k \in batch : k \in Box!Keys /\ job[k].status = "PENDING"
    BY DEF Box!DuePending
  <1>3. job \in [Box!Keys -> Box!Row] /\ worker \in [Workers -> Box!Worker]
    BY DEF IInv, Box!TypeOK
  <1>4. \A k \in Box!Keys : \/ k \in batch /\ job'[k].status = "SENDING"
                            \/ k \notin batch /\ job'[k] = job[k]
    BY <1>1, <1>3 DEF Box!Reserved, Box!Row
  <1>5. \A v \in Workers : \/ v # w /\ worker'[v] = worker[v]
                           \/ v = w /\ worker'[v].batch = batch /\ worker'[v].key = NoKey
    BY <1>1, <1>3 DEF Box!Idle
  <1>6. NoNews
    <2>1. \A k \in Box!Keys : job'[k].status = "ABSENT" <=> job[k].status = "ABSENT"
      BY <1>2, <1>4
    <2>2. \A k \in Box!Keys : k \in OnItsWay' => k \in OnItsWay \/ job[k].status = "PENDING"
      BY <1>2, <1>5, NoKeyApart DEF OnItsWay, InHand
    <2>3. \A k \in Box!Keys : job'[k].status = "PENDING" => job[k].status = "PENDING"
      BY <1>4
    <2> QED
      BY <1>1, <2>1, <2>2, <2>3 DEF NoNews
  <1>7. KeepsQuiet
    <2>1. \A k \in Box!Keys : Unsent(k) => Unsent(k)'
      BY <1>5, NoKeyApart DEF Unsent
    <2> QED
      BY <1>1, <2>1 DEF KeepsQuiet
  <1> QED
    BY <1>1, <1>6, <1>7 DEF WorkerStep

\* The rows and the deliveries stay; a worker drops what it had or records a result
LEMMA HandStep ==
    ASSUME IInv, NEW w \in Workers, job' = job, now' = now, armed' = armed,
           \A v \in Workers : v # w => worker'[v] = worker[v],
           worker'[w].batch \subseteq worker[w].batch,
           worker'[w].key = NoKey
               \/ (worker'[w].key = worker[w].key /\ worker'[w].result # "none"),
           \A k \in Box!Keys : delivered'[k] = delivered[k]
               \/ (k = worker[w].key /\ worker[w].result = "none")
    PROVE  WorkerStep
  <1>1. \A k \in Box!Keys : k \in OnItsWay' => k \in OnItsWay
    BY NoKeyApart DEF OnItsWay, InHand
  <1>2. \A k \in Box!Keys : k \notin OnItsWay => delivered'[k] = delivered[k]
    BY DEF OnItsWay, InHand
  <1>3. KeepsQuiet
    <2>1. \A k \in Box!Keys : Unsent(k) => Unsent(k)'
      BY NoKeyApart DEF Unsent
    <2>2. \A k \in Box!Keys : Unsent(k) => delivered'[k] = delivered[k]
      BY DEF Unsent
    <2> QED
      BY <2>1, <2>2 DEF KeepsQuiet
  <1> QED
    BY <1>1, <1>2, <1>3 DEF WorkerStep, NoNews

LEMMA HandSteps ==
    ASSUME IInv, NEW w \in Workers,
           \/ Box!Deliver(w) \/ Box!DeliverRefused(w) \/ Box!SendError(w)
           \/ Box!ReadAttempts(w) \/ Box!FinalizeFails(w) \/ Box!Die(w)
    PROVE  WorkerStep
  <1>1. worker \in [Workers -> Box!Worker] /\ delivered \in [Box!Keys -> Nat]
    BY DEF IInv, Box!TypeOK
  <1>2. job' = job /\ now' = now /\ armed' = armed
    BY DEF Box!Deliver, Box!DeliverRefused, Box!SendError, Box!ReadAttempts,
           Box!FinalizeFails, Box!Die
  <1>3. CASE Box!Deliver(w)
    <2>1. \A v \in Workers : v # w => worker'[v] = worker[v]
      BY <1>1, <1>3 DEF Box!Deliver
    <2>2. worker'[w].batch = worker[w].batch /\ worker'[w].key = worker[w].key
          /\ worker'[w].result = "true"
      BY <1>1, <1>3 DEF Box!Deliver, Box!Worker
    <2>3. \A k \in Box!Keys : delivered'[k] = delivered[k]
              \/ (k = worker[w].key /\ worker[w].result = "none")
      BY <1>1, <1>3 DEF Box!Deliver
    <2> QED
      BY <1>2, <2>1, <2>2, <2>3, HandStep
  <1>4. CASE Box!DeliverRefused(w) \/ Box!SendError(w) \/ Box!ReadAttempts(w)
    <2>1. \A v \in Workers : v # w => worker'[v] = worker[v]
      BY <1>1, <1>4 DEF Box!DeliverRefused, Box!SendError, Box!ReadAttempts
    <2>2. worker'[w].batch = worker[w].batch /\ worker'[w].key = worker[w].key
          /\ worker'[w].result # "none"
      BY <1>1, <1>4 DEF Box!DeliverRefused, Box!SendError, Box!ReadAttempts, Box!Worker
    <2>3. \A k \in Box!Keys : delivered'[k] = delivered[k]
              \/ (k = worker[w].key /\ worker[w].result = "none")
      BY <1>4 DEF Box!DeliverRefused, Box!SendError, Box!ReadAttempts
    <2> QED
      BY <1>2, <2>1, <2>2, <2>3, HandStep
  <1>5. CASE Box!FinalizeFails(w) \/ Box!Die(w)
    <2>1. \A v \in Workers : v # w => worker'[v] = worker[v]
      BY <1>1, <1>5 DEF Box!FinalizeFails, Box!Die, Box!Dropped
    <2>2. worker'[w].batch \subseteq worker[w].batch /\ worker'[w].key = NoKey
      <3>1. CASE worker' = [worker EXCEPT ![w] = Box!Idle]
        BY <1>1, <3>1 DEF Box!Idle
      <3>2. CASE worker' = [worker EXCEPT ![w] = [worker[w] EXCEPT !.key = NoKey,
            !.result = "none"]]
        BY <1>1, <3>2 DEF Box!Worker
      <3> QED
        BY <1>5, <3>1, <3>2 DEF Box!FinalizeFails, Box!Die, Box!Dropped
    <2>3. \A k \in Box!Keys : delivered'[k] = delivered[k]
              \/ (k = worker[w].key /\ worker[w].result = "none")
      BY <1>5 DEF Box!FinalizeFails, Box!Die
    <2>4. /\ worker'[w].batch \subseteq worker[w].batch
          /\ worker'[w].key = NoKey
                \/ (worker'[w].key = worker[w].key /\ worker'[w].result # "none")
      BY <2>2
    <2> QED
      BY <1>2, <2>1, <2>3, <2>4, HandStep
  <1> QED
    BY <1>3, <1>4, <1>5

LEMMA TakeStep ==
    ASSUME IInv, NEW w \in Workers, NEW k \in worker[w].batch,
           Box!Take(w, k, IF Relevant(k, worker[w].at) THEN "none" ELSE "false")
    PROVE  WorkerStep
  <1> DEFINE verdict == IF Relevant(k, worker[w].at) THEN "none" ELSE "false"
  <1>1. worker \in [Workers -> Box!Worker]
    BY DEF IInv, Box!TypeOK
  <1>2. /\ worker' = [worker EXCEPT ![w] =
               [batch |-> worker[w].batch \ {k}, key |-> k, result |-> verdict,
                      at |-> worker[w].at]]
        /\ now' = now /\ job' = job /\ armed' = armed /\ delivered' = delivered
    BY DEF Box!Take
  <1>3. verdict = "none" => Relevant(k, worker[w].at)
    OBVIOUS
  <1> HIDE DEF verdict
  <1>4. \A v \in Workers : \/ v # w /\ worker'[v] = worker[v]
                           \/ v = w /\ worker'[v].batch = worker[v].batch \ {k}
                              /\ worker'[v].key = k /\ worker'[v].result = verdict
    BY <1>1, <1>2
  <1>5. \A l \in Box!Keys : l \in OnItsWay' => l \in OnItsWay
    BY <1>4 DEF OnItsWay, InHand
  <1>6. KeepsQuiet
    <2> SUFFICES ASSUME NEW l \in Box!Keys, Unsent(l)
                 PROVE  Unsent(l)' \/ (l \in OnItsWay /\ \E time : Relevant(l, time))
      BY <1>2 DEF KeepsQuiet
    <2>1. CASE l = k /\ verdict = "none"
      <3>1. k \in OnItsWay
        BY DEF OnItsWay
      <3> QED
        BY <1>3, <2>1, <3>1
    <2>2. CASE ~(l = k /\ verdict = "none")
      <3>1. \A v \in Workers : v # w /\ worker[v].key = l => worker[v].result # "none"
        BY DEF Unsent
      <3>2. \A v \in Workers : worker'[v].key = l => worker'[v].result # "none"
        BY <1>4, <2>2, <3>1
      <3> QED
        BY <3>2 DEF Unsent
    <2> QED
      BY <2>1, <2>2
  <1> QED
    BY <1>2, <1>5, <1>6 DEF WorkerStep, NoNews

LEMMA FinalizeStep ==
    ASSUME IInv, NEW w \in Workers, Box!Finalize(w)
    PROVE  WorkerStep
  <1>1. job \in [Box!Keys -> Box!Row] /\ worker \in [Workers -> Box!Worker]
    BY DEF IInv, Box!TypeOK
  <1> DEFINE key == worker[w].key
             row == Box!After(job[key], worker[w].result, worker[w].at)
  <1>2. /\ worker[w].key # NoKey /\ worker[w].result \notin {"none", "error"}
        /\ job' = [job EXCEPT ![key] = row]
        /\ now' = now /\ armed' = armed /\ delivered' = delivered
    BY DEF Box!Finalize
  <1>3. key \in Box!Keys /\ worker[w].result \in {"true", "false", "retry", "failed"}
    BY <1>1, <1>2 DEF Box!Worker
  <1>4. row.status # "ABSENT"
    <2>1. Box!StatusAfter(worker[w].result) \in {"SENT", "CANCELLED", "FAILED", "PENDING"}
      BY <1>3 DEF Box!StatusAfter
    <2> QED
      BY <1>1, <1>3, <2>1 DEF Box!After, Box!Row
  <1>5. key \in OnItsWay
    BY DEF OnItsWay, InHand
  <1>6. job[key].status # "ABSENT"
    BY <1>3, <1>5 DEF IInv, Rows
  <1>7. /\ \A k \in Box!Keys : k # key => job'[k] = job[k]
        /\ job'[key] = row
    BY <1>1, <1>2, <1>3
  <1> HIDE DEF row
  <1>8. /\ \A v \in Workers : v # w => worker'[v] = worker[v]
        /\ worker'[w].batch \subseteq worker[w].batch /\ worker'[w].key = NoKey
    <2>1. \A v \in Workers : v # w => worker'[v] = worker[v]
      BY <1>1 DEF Box!Finalize, Box!Dropped
    <2>2. worker'[w].batch \subseteq worker[w].batch /\ worker'[w].key = NoKey
      BY <1>1 DEF Box!Finalize, Box!Dropped, Box!Idle, Box!Worker
    <2> QED
      BY <2>1, <2>2
  <1>9. \A k \in Box!Keys : k \in OnItsWay' => k \in OnItsWay
    BY <1>8, NoKeyApart DEF OnItsWay, InHand
  <1>10. KeepsQuiet
    <2>1. \A k \in Box!Keys : Unsent(k) => Unsent(k)'
      BY <1>8, NoKeyApart DEF Unsent
    <2> QED
      BY <1>2, <2>1 DEF KeepsQuiet
  <1>11. \A k \in Box!Keys : job'[k].status = "ABSENT" <=> job[k].status = "ABSENT"
    BY <1>4, <1>6, <1>7
  <1>12. \A k \in Box!Keys : k \notin OnItsWay => job'[k] = job[k]
    BY <1>5, <1>7
  <1> QED
    BY <1>2, <1>9, <1>10, <1>11, <1>12 DEF WorkerStep, NoNews

LEMMA WorkerSteps ==
    ASSUME IInv, NEW w \in Workers,
           Reserve(w) \/ Take(w) \/ Send(w) \/ Finalize(w) \/ Die(w)
    PROVE  WorkerStep
  <1>1. CASE Reserve(w)
    BY <1>1, ReserveStep DEF Reserve
  <1>2. CASE Take(w)
    BY <1>2, TakeStep DEF Take
  <1>3. CASE Send(w)
    BY <1>3, HandSteps DEF Send
  <1>4. CASE Finalize(w)
    BY <1>4, HandSteps, FinalizeStep DEF Finalize
  <1>5. CASE Die(w)
    BY <1>5, HandSteps DEF Die
  <1> QED
    BY <1>1, <1>2, <1>3, <1>4, <1>5

LEMMA WorkerKeeps ==
    ASSUME IInv, Box!TypeOK', NEW w \in Workers,
           Reserve(w) \/ Take(w) \/ Send(w) \/ Finalize(w) \/ Die(w)
    PROVE  IInv'
  <1>1. UNCHANGED ownVars
    BY DEF Reserve, Take, Send, Finalize, Die
  <1>2. WorkerStep
    BY WorkerSteps
  <1> QED
    BY <1>1, <1>2, WorkerStepKeeps

-----------------------------------------------------------------------------
(* Steps that enqueue.                                                     *)

LEMMA EnqueueStep ==
    ASSUME IInv, NEW cancel, NEW fresh, NEW due, Box!Enqueue(cancel, fresh, due)
    PROVE  /\ now' = now /\ worker' = worker /\ delivered' = delivered
           /\ fresh \subseteq Box!Keys
           /\ \A k \in fresh : k \in SnoozeKeys \/ armed[k] = 0
           /\ \A k \in fresh : job'[k].status = "PENDING" /\ armed'[k] > 0
           /\ \A k \in Box!Keys \ fresh :
                 /\ armed'[k] = armed[k]
                 /\ job'[k].status = "ABSENT" <=> job[k].status = "ABSENT"
                 /\ job'[k].status = "PENDING" => job[k].status = "PENDING" /\ k \notin cancel
  <1>1. job \in [Box!Keys -> Box!Row] /\ armed \in [Box!Keys -> Nat]
    BY DEF IInv, Box!TypeOK
  <1>2. /\ fresh \subseteq Box!Armable
        /\ job' = [k \in Box!Keys |-> IF k \in fresh THEN Box!Fresh(due[k])
                                  ELSE IF k \in cancel THEN Box!Cancelled(job[k]) ELSE job[k]]
        /\ armed' = [k \in Box!Keys |-> IF k \in fresh THEN armed[k] + 1 ELSE armed[k]]
        /\ now' = now /\ worker' = worker /\ delivered' = delivered
    BY DEF Box!Enqueue
  <1>3. \A k \in Box!Armable : k \in Box!Keys /\ (k \in SnoozeKeys \/ job[k].status = "ABSENT")
    BY KeysAre DEF Box!Armable, Box!Insertable, Box!Refreshable, Box!Snoozable
  <1>4. \A k \in fresh : k \in Box!Keys /\ (k \in SnoozeKeys \/ armed[k] = 0)
    BY <1>2, <1>3 DEF IInv, Rows
  <1>5. \A k \in fresh : job'[k].status = "PENDING" /\ armed'[k] > 0
    <2> SUFFICES ASSUME NEW k \in fresh
                 PROVE  job'[k].status = "PENDING" /\ armed'[k] > 0
      OBVIOUS
    <2>1. job'[k] = Box!Fresh(due[k]) /\ armed'[k] = armed[k] + 1 /\ armed[k] \in Nat
      BY <1>1, <1>2, <1>4
    <2> QED
      BY <2>1 DEF Box!Fresh
  <1>6. ASSUME NEW k \in Box!Keys \ fresh
        PROVE  /\ armed'[k] = armed[k]
               /\ job'[k].status = "ABSENT" <=> job[k].status = "ABSENT"
               /\ job'[k].status = "PENDING" => job[k].status = "PENDING" /\ k \notin cancel
    <2>1. armed'[k] = armed[k]
      BY <1>2
    <2>2. CASE k \in cancel
      <3>1. job'[k] = Box!Cancelled(job[k]) /\ job[k] \in Box!Row
        BY <1>1, <1>2, <2>2
      <3>2. CASE job[k].status \in {"PENDING", "SENDING"}
        <4>1. job'[k].status = "CANCELLED"
          BY <3>1, <3>2 DEF Box!Cancelled, Box!Live, Box!Row
        <4> QED
          BY <2>1, <3>2, <4>1
      <3>3. CASE job[k].status \notin {"PENDING", "SENDING"}
        <4>1. job'[k] = job[k]
          BY <3>1, <3>3 DEF Box!Cancelled, Box!Live
        <4> QED
          BY <2>1, <3>3, <4>1
      <3> QED
        BY <3>2, <3>3
    <2>3. CASE k \notin cancel
      BY <1>2, <2>1, <2>3
    <2> QED
      BY <2>2, <2>3
  <1> QED
    BY <1>2, <1>4, <1>5, <1>6

\* The rows, and what was settled without a row of its own being armed
LEMMA EnqueueKeeps ==
    ASSUME IInv, NEW cancel, NEW fresh, NEW due, Box!Enqueue(cancel, fresh, due)
    PROVE  /\ Rows'
           /\ OnItsWay' = OnItsWay
           /\ \A k \in Box!Keys : armed[k] > 0 => armed'[k] > 0
           /\ \A k \in Box!Keys \ fresh : Settled(k) => Settled(k)'
           /\ \A k : Settled(k) /\ k \in fresh => k \in SnoozeKeys
           /\ \A b, at : ArmedTogether(b, at) => ArmedTogether(b, at)'
  <1>1. OnItsWay' = OnItsWay
    BY EnqueueStep DEF OnItsWay, InHand
  <1>2. armed \in [Box!Keys -> Nat]
    BY DEF IInv, Box!TypeOK
  <1>3. \A k \in Box!Keys : armed[k] > 0 => armed'[k] > 0
    BY EnqueueStep
  <1>4. Rows'
    <2> SUFFICES ASSUME NEW k \in Box!Keys
                 PROVE  /\ job'[k].status = "ABSENT" <=> armed'[k] = 0
                        /\ job'[k].status = "ABSENT" => k \notin OnItsWay /\ delivered'[k] = 0
      BY <1>1 DEF Rows, Box!Keys
    <2>1. CASE k \in fresh
      <3>1. job'[k].status = "PENDING" /\ armed'[k] > 0
        BY <2>1, EnqueueStep
      <3>2. armed'[k] # 0
        BY <3>1
      <3> QED
        BY <3>1, <3>2
    <2>2. CASE k \notin fresh
      BY <2>2, EnqueueStep DEF IInv, Rows
    <2> QED
      BY <2>1, <2>2
  <1>5. \A k \in Box!Keys \ fresh : Settled(k) => Settled(k)'
    BY <1>1, EnqueueStep DEF Settled
  <1>6. \A k : Settled(k) /\ k \in fresh => k \in SnoozeKeys
    <2> SUFFICES ASSUME NEW k \in fresh, Settled(k), k \in NudgeKeys
                 PROVE  k \in SnoozeKeys
      BY DEF Settled
    <2>1. armed[k] > 0
      BY DEF Settled
    <2> QED
      BY <2>1, EnqueueStep
  <1>7. \A b, at : ArmedTogether(b, at) => ArmedTogether(b, at)'
    BY <1>3, KeysAre DEF ArmedTogether
  <1> QED
    BY <1>1, <1>3, <1>4, <1>5, <1>6, <1>7

\* Nothing but the worker's refresh arms a nudge
LEMMA SameNudges ==
    ASSUME IInv, NEW cancel, NEW fresh, NEW due, Box!Enqueue(cancel, fresh, due),
           \A k \in fresh : k \notin NudgeKeys,
           \A c \in Bookings : booking'[c].start = booking[c].start
    PROVE  NudgesInv'
  <1>1. \A k \in NudgeKeys : armed'[k] = armed[k]
    BY EnqueueStep, KeysAre
  <1>2. \A k \in NudgeKeys : k.booking \in Bookings
    BY DEF NudgeKeys
  <1>3. now' = now
    BY EnqueueStep
  <1>4. \A b, at : ArmedTogether(b, at) => ArmedTogether(b, at)'
    BY EnqueueKeeps
  <1> QED
    BY <1>1, <1>2, <1>3, <1>4 DEF IInv, NudgesInv

LEMMA SameSnoozes ==
    ASSUME IInv, NEW cancel, NEW fresh, NEW due, Box!Enqueue(cancel, fresh, due),
           \A k \in fresh : k \notin SnoozeKeys
    PROVE  SnoozeInv'
  <1>1. \A b \in Bookings : SnoozeKey(b) \in Box!Keys \ fresh
    BY NudgesAre, KeysAre
  <1>2. \A b \in Bookings : armed'[SnoozeKey(b)] = armed[SnoozeKey(b)]
    BY <1>1, EnqueueStep
  <1>3. \A k \in NudgeKeys : armed[k] > 0 => armed'[k] > 0
    BY EnqueueKeeps, KeysAre
  <1> QED
    BY <1>2, <1>3 DEF IInv, SnoozeInv

\* Nothing but a snooze arms a message that was silenced
LEMMA QuietKept ==
    ASSUME IInv, NEW cancel, NEW fresh, NEW due, Box!Enqueue(cancel, fresh, due),
           \A k \in fresh : k \notin SnoozeKeys,
           booking' = booking, snoozedAt' = snoozedAt, silenced' = silenced
    PROVE  SilencedInv'
  <1> SUFFICES ASSUME NEW k \in silenced
               PROVE  Unsent(k)' /\ (k \in Pointless(k.booking)' \/ Settled(k)')
    BY DEF SilencedInv
  <1>1. k \in Box!Keys /\ Unsent(k) /\ (k \in Pointless(k.booking) \/ Settled(k))
    BY DEF IInv, SilencedInv, Types
  <1>2. worker' = worker
    BY EnqueueStep
  <1>3. Unsent(k)'
    BY <1>1, <1>2 DEF Unsent
  <1>4. Pointless(k.booking)' = Pointless(k.booking)
    BY DEF Pointless, StartOf, KeysOf, NudgesOf
  <1>5. Settled(k) => Settled(k)'
    BY <1>1, EnqueueKeeps
  <1> QED
    BY <1>1, <1>3, <1>4, <1>5

LEMMA AnnounceKeeps ==
    ASSUME IInv, Box!TypeOK', NEW n \in NoticeKeys, Announce(n)
    PROVE  IInv'
  <1> DEFINE fresh == IF n.at > now THEN {n} \cap Box!Armable ELSE {}
             due == [k \in {n} |-> now]
  <1>1. /\ Box!Enqueue({}, fresh, due)
        /\ booking' = booking /\ snoozedAt' = snoozedAt /\ silenced' = silenced
    BY DEF Announce
  <1>2. \A k \in fresh : k \in NoticeKeys
    OBVIOUS
  <1> HIDE DEF fresh, due
  <1>3. \A k \in fresh : k \notin NudgeKeys /\ k \notin SnoozeKeys
    BY <1>2, NudgesApart
  <1>4. Types'
    BY <1>1 DEF IInv, Types
  <1>5. Rows'
    BY <1>1, EnqueueKeeps
  <1>6. NudgesInv'
    BY <1>1, <1>3, SameNudges
  <1>7. SnoozeInv'
    BY <1>1, <1>3, SameSnoozes
  <1>8. SilencedInv'
    BY <1>1, <1>3, QuietKept
  <1> QED
    BY <1>4, <1>5, <1>6, <1>7, <1>8 DEF IInv

LEMMA RefreshKeeps ==
    ASSUME IInv, Box!TypeOK', NEW w \in Workers, RefreshSchedule(w)
    PROVE  IInv'
  <1> DEFINE fresh == (WantedReminders \cup WantedNudges) \cap Box!Armable
             due == [k \in fresh |-> Box!By(DueOf(k))]
  <1>1. /\ Box!Enqueue({}, fresh, due)
        /\ booking' = booking /\ snoozedAt' = snoozedAt /\ silenced' = silenced
    BY DEF RefreshSchedule, ownVars
  <1>2. \A k \in fresh : k \in ReminderKeys \cup NudgeKeys
    BY DEF WantedReminders, WantedNudges
  <1>3. \A k \in NudgeKeys : k \in fresh => k \in WantedNudges
    BY NudgesApart DEF WantedReminders
  <1>4. \A k \in WantedNudges : armed[k] = 0 => k \in fresh
    <2> SUFFICES ASSUME NEW k \in WantedNudges, armed[k] = 0
                 PROVE  k \in Box!Armable
      OBVIOUS
    <2>1. k \in NudgeKeys
      BY DEF WantedNudges
    <2>2. job[k].status = "ABSENT"
      BY <2>1, KeysAre DEF IInv, Rows
    <2> QED
      BY <2>1, <2>2 DEF Box!Armable, Box!Insertable
  <1> HIDE DEF fresh, due
  <1>5. \A k \in fresh : k \notin SnoozeKeys
    BY <1>2, WantedNoSnooze
  <1>6. Types' /\ Rows' /\ SnoozeInv' /\ SilencedInv'
    BY <1>1, <1>5, EnqueueKeeps, SameSnoozes, QuietKept DEF IInv, Types
  <1>7. now' = now
    BY <1>1, EnqueueStep
  <1>8. NudgesInv'
    <2> SUFFICES ASSUME NEW k \in NudgeKeys, armed'[k] > 0
                 PROVE  /\ k.at + Dur <= now /\ booking[k.booking].start = k.at
                        /\ ArmedTogether(k.booking, k.at)'
      BY <1>1, <1>7 DEF NudgesInv
    <2>1. CASE k \in fresh
      <3>1. k \in WantedNudges
        BY <1>3, <2>1
      <3>2. k.at + Dur <= now /\ booking[k.booking].start = k.at
        BY <3>1 DEF WantedNudges, EndOf
      <3>3. ASSUME NEW l \in NudgeKeys, l.booking = k.booking, l.at = k.at
            PROVE  armed'[l] > 0
        <4>1. l \in WantedNudges
          BY <3>1, <3>3 DEF WantedNudges
        <4>2. l \in Box!Keys /\ armed[l] \in Nat
          BY KeysAre DEF IInv, Box!TypeOK
        <4>3. CASE armed[l] = 0
          BY <1>1, <1>4, <4>1, <4>3, EnqueueStep
        <4>4. CASE armed[l] > 0
          BY <1>1, <4>2, <4>4, EnqueueKeeps
        <4> QED
          BY <4>2, <4>3, <4>4
      <3> QED
        BY <3>2, <3>3 DEF ArmedTogether
    <2>2. CASE k \notin fresh
      <3>1. armed[k] > 0
        BY <1>1, <2>2, EnqueueStep, KeysAre
      <3>2. /\ k.at + Dur <= now /\ booking[k.booking].start = k.at
            /\ ArmedTogether(k.booking, k.at)
        BY <3>1 DEF IInv, NudgesInv
      <3> QED
        BY <1>1, <3>2, EnqueueKeeps
    <2> QED
      BY <2>1, <2>2
  <1> QED
    BY <1>6, <1>8 DEF IInv

\* The buttons of a nudge cancel the nudges of its booking: those of its start are armed
\* by now, those of another start have lost their point
LEMMA CancelledRest ==
    ASSUME IInv, NEW b \in Bookings, HasButtons(b),
           NEW fresh, NEW due, Box!Enqueue(NudgesOf(b), fresh, due),
           NEW k \in NudgesOf(b) \ fresh, k \notin OnItsWay,
           booking'[b].start = booking[b].start
    PROVE  k \in Pointless(b)' \/ Settled(k)'
  <1>1. k \in Box!Keys /\ k \in NudgeKeys \cup SnoozeKeys /\ k.booking = b /\ k \in KeysOf(b)
    BY OwnKeys DEF KeysOf
  <1>2. job'[k].status # "PENDING" /\ armed'[k] = armed[k]
    BY <1>1, EnqueueStep
  <1>3. k \notin OnItsWay'
    BY EnqueueKeeps
  <1>4. CASE k \in NudgeKeys => armed[k] > 0
    BY <1>1, <1>2, <1>3, <1>4 DEF Settled
  <1>5. CASE k \in NudgeKeys /\ ~ armed[k] > 0
    <2>1. k.at # booking[b].start
      BY <1>1, <1>5, ButtonsMean DEF ArmedTogether
    <2>2. k \notin SnoozeKeys
      BY <1>5, WantedNoSnooze
    <2>3. StartOf(k)' = k.at
      BY <2>2 DEF StartOf
    <2>4. KeysOf(b)' = KeysOf(b)
      BY DEF KeysOf, NudgesOf
    <2> QED
      BY <1>1, <2>1, <2>3, <2>4 DEF Pointless
  <1> QED
    BY <1>4, <1>5

LEMMA PressKeeps ==
    ASSUME IInv, Box!TypeOK', NEW b \in Bookings, Press(b)
    PROVE  IInv'
  <1>1. HasButtons(b)
    BY DEF Press, MarkFromNudge, Snooze, Disable
  <1>2. ASSUME /\ booking' \in [Bookings -> [status : {"CONFIRMED", "CANCELLED"}, start : Starts,
                                             outcome : {"UNKNOWN", "ATTENDED", "NO_SHOW"}]]
               /\ \A c \in Bookings :
                     /\ booking'[c].start = booking[c].start
                     /\ booking'[c].status = booking[c].status
                     /\ booking[c].outcome # "UNKNOWN" => booking'[c].outcome # "UNKNOWN",
               snoozedAt' = snoozedAt,
               Box!Enqueue(NudgesOf(b), {}, <<>>), Silence(b, NudgesOf(b), {})
        PROVE  IInv'
    <2>1. Rows' /\ NudgesInv' /\ SnoozeInv'
      BY <1>2, EnqueueKeeps, SameNudges, SameSnoozes
    <2>2. ASSUME NEW k \in silenced
          PROVE  /\ k \in Pointless(k.booking) => k \in Pointless(k.booking)'
                 /\ Settled(k) => k \in Pointless(k.booking)' \/ Settled(k)'
      <3>1. k \in Box!Keys /\ k.booking \in Bookings
        BY OwnKeys DEF IInv, Types
      <3> QED
        BY <1>2, <3>1, PointlessStays, EnqueueKeeps
    <2>3. \A k \in NudgesOf(b) \ OnItsWay : k \in Pointless(b)' \/ Settled(k)'
      BY <1>1, <1>2, CancelledRest
    <2>4. worker' = worker
      BY <1>2, EnqueueStep
    <2>5. NudgesOf(b) \subseteq Box!Keys
      BY NudgesAre
    <2>6. SilencedInv' /\ silenced' \subseteq Box!Keys
      BY <1>2, <2>2, <2>3, <2>4, <2>5, SilenceKeeps
    <2> QED
      BY <1>2, <2>1, <2>6 DEF IInv, Types
  <1>3. CASE \E outcome \in {"ATTENDED", "NO_SHOW"} : MarkFromNudge(b, outcome)
    <2>1. PICK outcome \in {"ATTENDED", "NO_SHOW"} : MarkFromNudge(b, outcome)
      BY <1>3
    <2>2. /\ booking' = Marked(b, outcome) /\ snoozedAt' = snoozedAt
          /\ Box!Enqueue(NudgesOf(b), {}, <<>>) /\ Silence(b, NudgesOf(b), {})
      BY <2>1 DEF MarkFromNudge
    <2> QED
      BY <1>2, <2>2, MarkedIs DEF IInv
  <1>4. CASE Disable(b)
    <2>1. /\ booking' = booking /\ snoozedAt' = snoozedAt
          /\ Box!Enqueue(NudgesOf(b), {}, <<>>) /\ Silence(b, NudgesOf(b), {})
      BY <1>4 DEF Disable
    <2> QED
      BY <1>2, <2>1 DEF IInv, Types
  <1>5. CASE Snooze(b)
    <2> DEFINE due == [k \in SnoozeKeys |-> Box!By(now + SnoozeFor)]
               fresh == {SnoozeKey(b)}
    <2>1. /\ Box!Enqueue(NudgesOf(b), fresh, due)
          /\ Silence(b, NudgesOf(b) \ fresh, fresh)
          /\ snoozedAt' = [snoozedAt EXCEPT ![b] = booking[b].start]
          /\ booking' = booking
      BY <1>5 DEF Snooze
    <2>2. /\ \A k \in fresh : k \notin NudgeKeys /\ k \in Box!Keys
          /\ \A k \in SnoozeKeys \ fresh : k.booking \in Bookings /\ k.booking # b
      BY OwnKeys, NudgesAre, KeysAre, WantedNoSnooze
    <2>3. \A c \in Bookings \ {b} : SnoozeKey(c) \in Box!Keys \ fresh
      BY OwnKeys, KeysAre
    <2> HIDE DEF fresh, due
    <2>4. Rows' /\ NudgesInv'
      BY <2>1, <2>2, EnqueueKeeps, SameNudges
    <2>5. SnoozeInv'
      <3>1. \A k \in NudgeKeys : armed[k] > 0 => armed'[k] > 0
        BY <2>1, EnqueueKeeps, KeysAre
      <3>2. \A c \in Bookings \ {b} : armed'[SnoozeKey(c)] = armed[SnoozeKey(c)]
        BY <2>1, <2>3, EnqueueStep
      <3> QED
        BY <1>1, <3>1, <3>2, ButtonsMean DEF IInv, SnoozeInv
    <2>6. ASSUME NEW k \in silenced \ fresh
          PROVE  /\ k \in Pointless(k.booking) => k \in Pointless(k.booking)'
                 /\ Settled(k) => k \in Pointless(k.booking)' \/ Settled(k)'
      <3>1. k \in Box!Keys /\ k.booking \in Bookings
        BY OwnKeys DEF IInv, Types
      <3>2. k \in SnoozeKeys => snoozedAt'[k.booking] = snoozedAt[k.booking]
        BY <2>1, <2>2 DEF IInv, Types
      <3> QED
        BY <2>1, <3>1, <3>2, PointlessStays, EnqueueKeeps
    <2>7. \A k \in (NudgesOf(b) \ fresh) \ OnItsWay : k \in Pointless(b)' \/ Settled(k)'
      BY <1>1, <2>1, CancelledRest
    <2>8. worker' = worker
      BY <2>1, EnqueueStep
    <2>9. NudgesOf(b) \ fresh \subseteq Box!Keys /\ fresh \subseteq Box!Keys
      BY <2>2, NudgesAre
    <2>10. SilencedInv' /\ silenced' \subseteq Box!Keys
      BY <2>1, <2>6, <2>7, <2>8, <2>9, SilenceKeeps
    <2>11. Types'
      BY <2>1, <2>10 DEF IInv, Types
    <2> QED
      BY <2>4, <2>5, <2>10, <2>11 DEF IInv
  <1> QED
    BY <1>3, <1>4, <1>5 DEF Press

-----------------------------------------------------------------------------
(* Steps that change neither bookings nor rows.                            *)

LEMMA RestKeeps ==
    ASSUME IInv, Box!TypeOK', now' = now \/ now' = now + 1,
           UNCHANGED <<job, worker, armed, delivered, booking, snoozedAt, silenced>>
    PROVE  IInv'
  <1>1. OnItsWay' = OnItsWay
    BY DEF OnItsWay, InHand
  <1>2. \A k : Pointless(k.booking)' = Pointless(k.booking)
    BY DEF Pointless, StartOf, KeysOf, NudgesOf
  <1>3. Types' /\ Rows' /\ SnoozeInv'
    BY <1>1 DEF IInv, Types, Rows, SnoozeInv
  <1>4. SilencedInv'
    BY <1>1, <1>2 DEF IInv, SilencedInv, Unsent, Settled
  <1>5. NudgesInv'
    <2> SUFFICES ASSUME NEW k \in NudgeKeys, armed[k] > 0
                 PROVE  /\ k.at + Dur <= now' /\ booking[k.booking].start = k.at
                        /\ ArmedTogether(k.booking, k.at)
      BY DEF NudgesInv, ArmedTogether
    <2>1. /\ k.at + Dur <= now /\ booking[k.booking].start = k.at
          /\ ArmedTogether(k.booking, k.at)
      BY DEF IInv, NudgesInv
    <2>2. k.at \in Nat /\ Dur \in Nat
      BY ReminderConstants DEF NudgeKeys
    <2>3. now \in 0..Horizon /\ Horizon \in Nat
      BY OutboxConstants DEF IInv, Box!TypeOK
    <2> QED
      BY <2>1, <2>2, <2>3
  <1> QED
    BY <1>3, <1>4, <1>5 DEF IInv

LEMMA InitIInv == Init /\ Box!TypeOK => IInv
  <1> SUFFICES ASSUME Init, Box!TypeOK
               PROVE  IInv
    OBVIOUS
  <1>1. /\ job = [k \in Box!Keys |-> Box!Absent] /\ armed = [k \in Box!Keys |-> 0]
        /\ delivered = [k \in Box!Keys |-> 0] /\ worker = [w \in Workers |-> Box!Idle]
    BY DEF Init, Box!Init
  <1>2. \A w \in Workers : worker[w].key = NoKey /\ worker[w].batch = {}
    BY <1>1 DEF Box!Idle
  <1>3. \A k \in Box!Keys : k \notin OnItsWay
    BY <1>2, NoKeyApart DEF OnItsWay, InHand
  <1>4. Rows
    BY <1>1, <1>3 DEF Rows, Box!Absent
  <1>5. NudgesInv /\ SnoozeInv
    BY <1>1, KeysAre, NudgesAre DEF NudgesInv, SnoozeInv
  <1>6. Types /\ SilencedInv
    BY DEF Init, Types, SilencedInv
  <1> QED
    BY <1>4, <1>5, <1>6 DEF IInv

LEMMA NextIInv == IInv /\ Box!TypeOK' /\ [Next]_vars => IInv'
  <1> SUFFICES ASSUME IInv, Box!TypeOK', [Next]_vars
               PROVE  IInv'
    OBVIOUS
  <1>1. CASE \E b \in Bookings : Change(b)
    BY <1>1, ChangeKeeps
  <1>2. CASE \E b \in Bookings : Press(b)
    BY <1>2, PressKeeps
  <1>3. CASE \E n \in NoticeKeys : Announce(n)
    BY <1>3, AnnounceKeeps
  <1>4. CASE Forget \/ (\E t \in Switchable : Toggle(t)) \/ UNCHANGED vars
    BY <1>4, RestKeeps DEF Forget, Toggle, boxVars, vars
  <1>5. CASE \E w \in Workers : Work(w) \/ Die(w)
    BY <1>5, RefreshKeeps, WorkerKeeps DEF Work
  <1>6. CASE Tick
    BY <1>6, RestKeeps DEF Tick, Box!Tick, ownVars
  <1> QED
    BY <1>1, <1>2, <1>3, <1>4, <1>5, <1>6 DEF Next

LEMMA QuietStep == IInv /\ [Next]_vars => \A k \in silenced : delivered'[k] = delivered[k]
  <1> SUFFICES ASSUME IInv, [Next]_vars, NEW k \in silenced
               PROVE  delivered'[k] = delivered[k]
    OBVIOUS
  <1>1. k \in Box!Keys /\ Unsent(k)
    BY DEF IInv, SilencedInv, Types
  <1>2. CASE \E b \in Bookings : Change(b)
    BY <1>2 DEF Change, Reschedule, CancelBooking, MarkFromCard, boxVars
  <1>3. CASE \E b \in Bookings : Press(b)
    BY <1>3 DEF Press, MarkFromNudge, Snooze, Disable, Box!Enqueue
  <1>4. CASE \E n \in NoticeKeys : Announce(n)
    BY <1>4 DEF Announce, Box!Enqueue
  <1>5. CASE Forget \/ (\E t \in Switchable : Toggle(t)) \/ Tick \/ UNCHANGED vars
    BY <1>5 DEF Forget, Toggle, Tick, Box!Tick, boxVars, vars
  <1>6. CASE \E w \in Workers : Work(w) \/ Die(w)
    <2>1. PICK w \in Workers : Work(w) \/ Die(w)
      BY <1>6
    <2>2. CASE RefreshSchedule(w)
      BY <2>2 DEF RefreshSchedule, Box!Enqueue
    <2>3. CASE Reserve(w) \/ Take(w) \/ Send(w) \/ Finalize(w) \/ Die(w)
      <3>1. WorkerStep
        BY <2>3, WorkerSteps
      <3> QED
        BY <1>1, <3>1 DEF WorkerStep, KeepsQuiet
    <2> QED
      BY <2>1, <2>2, <2>3 DEF Work
  <1> QED
    BY <1>2, <1>3, <1>4, <1>5, <1>6 DEF Next

\* What is silenced is held back, by the facts of the booking or because its job is settled
THEOREM SpecIInv == Spec => []IInv
  <1>1. Box!TypeOK /\ Init => IInv
    BY InitIInv
  <1>2. IInv /\ Box!TypeOK' /\ [Next]_vars => IInv'
    BY NextIInv
  <1> QED
    BY <1>1, <1>2, BoxInvariant, PTL DEF Spec

\* No message comes that has lost its point: not of a start its booking was moved away from,
\* not a reminder or a nudge of a cancelled booking, not a nudge once attendance is on record
\* or the master pressed "do not remind", whatever is scheduled, retried or restarted later.
THEOREM SilencedIsQuietHolds == Spec => SilencedIsQuiet
  <1>1. IInv /\ [Next]_vars => [\A k \in silenced : delivered'[k] = delivered[k]]_vars
    BY QuietStep
  <1> QED
    BY <1>1, SpecIInv, PTL DEF Spec, SilencedIsQuiet
=============================================================================
