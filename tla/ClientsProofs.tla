----------------------------- MODULE ClientsProofs -----------------------------
(***************************************************************************)
(* Proofs about Clients, for any number of masters, users, invites and     *)
(* handlers in flight together.                                            *)
(*                                                                         *)
(* None of the invariants is inductive: a handler writes by what it read   *)
(* in an earlier step.  IInv says what is left of that by the time it      *)
(* writes: whose invite it is and that the row of its user still has one   *)
(* (ReadsStand), that the use of an invite is had by one handler           *)
(* (LocksExclude), and that a client somebody is about to book is attached *)
(* yet, deleted, or was merged away under the handler (BookersKnow), and   *)
(* that a master whose clients a handler saw is not waiting to be told to  *)
(* add the first (HadStands).                                              *)
(*                                                                         *)
(* What a step may do to the number of clients needs more, and ReadsInv    *)
(* says it beside IInv: as long as nobody has overtaken a handler, the     *)
(* room, the free phone or the client entered by hand it found is there.   *)
(***************************************************************************)
EXTENDS Clients, FiniteSetTheorems, TLAPS

Accepting == {"resolved", "consumed"}

\* The invite has its master; the user's row is his for as long as it is there.
ReadsStand ==
    \A t \in Tasks :
        task[t].op \in Accepting =>
            /\ invite[task[t].invite].master \in Masters
            /\ task[t].known \in Rows \cup gone \cup {NoClient}
            /\ task[t].known \in Rows => Online(task[t].known)

\* The use of an invite that is not committed is the first and only one.
LocksExclude ==
    \A t \in Tasks :
        task[t].op = "consumed" =>
            /\ invite[task[t].invite].used = 0
            /\ \A u \in Tasks :
                  task[u].op = "consumed" /\ task[u].invite = task[t].invite => u = t

AdmittedFinite == \A i \in Invites : IsFiniteSet(admitted[i])

BookersKnow ==
    \A t \in Tasks :
        task[t].op = "book" =>
            \/ task[t].raced
            \/ <<task[t].master, task[t].client>> \in attached
            \/ task[t].client \in gone
            \/ task[t].master \in gone

HandlersInv == ReadsStand /\ LocksExclude /\ BookersKnow

InvitesInv == InviteAdmitsOnce /\ AdmittedFinite

\* No job tells m to add a client but one that was in hand when it was cancelled.
Quieted(m) == m \in nudged \cup inhand => m \in late

\* Who had clients when his invite was consumed has been quieted.
HadStands ==
    \A t \in Tasks :
        task[t].op = "consumed" /\ task[t].had => Quieted(invite[task[t].invite].master)

JobOnce == nudged \cap inhand = {}

NudgesInv == FirstClientEndsNudging /\ HadStands /\ JobOnce

IInv ==
    TypeOK /\ HandlersInv /\ InvitesInv /\ BookingsFollowTheMerge /\ NudgesInv

-----------------------------------------------------------------------------
(* The job that tells a master to add his first client. *)

NudgesType == nudged \subseteq Masters /\ inhand \subseteq Masters /\ late \subseteq Masters

\* Whatever becomes of the jobs, whoever is quieted stays so.
Calm == /\ NudgesType'
        /\ JobOnce'
        /\ \A m \in Masters : Quieted(m) => Quieted(m)'

LEMMA NudgesStand ==
    ASSUME TypeOK, JobOnce, UNCHANGED nudges
    PROVE  Calm
  BY DEF nudges, Calm, NudgesType, JobOnce, Quieted, TypeOK

LEMMA CancelQuiets ==
    ASSUME TypeOK, JobOnce, NEW m \in Masters, CancelNudge(m)
    PROVE  Calm /\ Quieted(m)'
  BY DEF CancelNudge, Calm, NudgesType, JobOnce, Quieted, TypeOK

LEMMA WelcomedQuiets ==
    ASSUME TypeOK, JobOnce, NEW m \in Masters, NEW had, Welcomed(m, had), had => Quieted(m)
    PROVE  Calm /\ Quieted(m)'
  <1>1. CASE had
    <2>1. UNCHANGED nudges
      BY <1>1 DEF Welcomed
    <2> QED
      BY <1>1, <2>1, NudgesStand DEF Calm
  <1>2. CASE ~had
    BY <1>2, CancelQuiets DEF Welcomed
  <1> QED
    BY <1>1, <1>2

LEMMA WorkerQuiets ==
    ASSUME TypeOK, JobOnce, NEW m \in Masters, ReserveNudge(m) \/ SettleNudge(m) \/ RetryNudge(m)
    PROVE  Calm
  BY DEF ReserveNudge, SettleNudge, RetryNudge, Calm, NudgesType, JobOnce, Quieted, TypeOK

\* Handlers that read on, and clients that go, leave the nudging as it was.
LEMMA NudgesKeep ==
    ASSUME IInv, Calm,
           \A m \in Masters : ClientsOf(m)' # {} => ClientsOf(m) # {} \/ Quieted(m)',
           \A t \in Tasks :
               task'[t].op = "consumed" /\ task'[t].had =>
                   \E m \in Masters : m = invite'[task'[t].invite].master /\ Quieted(m)
    PROVE  NudgesInv'
  <1>1. FirstClientEndsNudging'
    BY DEF IInv, NudgesInv, FirstClientEndsNudging, Calm, Quieted
  <1>2. HadStands'
    BY DEF HadStands, Calm, Quieted
  <1> QED
    BY <1>1, <1>2 DEF NudgesInv, Calm

-----------------------------------------------------------------------------
(* Handlers. *)

LEMMA Kinds ==
    ASSUME TypeOK, NEW t \in Tasks
    PROVE  /\ task[t].op \in Accepting => task[t] \in Resolved
           /\ task[t].op = "entry" => task[t] \in EntryTask
           /\ task[t].op = "book" => task[t] \in BookTask
           /\ task[t].op = "selected" => task[t] \in CardTask
           /\ task[t].op \in {"masterphone", "ownphone"} => task[t] \in PhoneTask
  <1>1. task[t] \in Task
    BY DEF TypeOK
  <1>2. CASE task[t] = Idle
    BY <1>2 DEF Idle, Accepting
  <1>3. CASE task[t] \in Resolved
    BY <1>3 DEF Resolved, Accepting
  <1>4. CASE task[t] \in EntryTask
    BY <1>4 DEF EntryTask, Accepting
  <1>5. CASE task[t] \in BookTask
    BY <1>5 DEF BookTask, Accepting
  <1>6. CASE task[t] \in CardTask
    BY <1>6 DEF CardTask, Accepting
  <1>7. CASE task[t] \in PhoneTask
    BY <1>7 DEF PhoneTask, Accepting
  <1> QED
    BY <1>1, <1>2, <1>3, <1>4, <1>5, <1>6, <1>7 DEF Task

LEMMA IdleType == Idle \in Task /\ Idle.op = "idle"
  BY DEF Idle, Task

\* A handler commits: it is done, and the others in flight read what they read.
LEMMA CommitKeeps ==
    ASSUME TypeOK, NEW t \in Tasks, NEW left, Commit(t, left)
    PROVE  /\ task' \in [Tasks -> Task]
           /\ task'[t] = Idle
           /\ \A x \in Tasks \ {t} :
                  /\ task'[x].op = task[x].op
                  /\ task[x].op \in Accepting =>
                        /\ task'[x].invite = task[x].invite /\ task'[x].known = task[x].known
                        /\ task'[x].had = task[x].had
                  /\ task[x].op = "book" =>
                        /\ task'[x].master = task[x].master /\ task'[x].client = task[x].client
                        /\ task'[x].raced <=> (task[x].raced \/ task[x].client \in left)
  <1> DEFINE Outcome(x) ==
               CASE x = t -> Idle
                 [] x # t /\ task[x].op = "book" ->
                       [task[x] EXCEPT !.raced = @ \/ task[x].client \in left]
                 [] x # t /\ task[x].op \in {"resolved", "consumed", "entry", "masterphone", "ownphone"} ->
                       [task[x] EXCEPT !.raced = TRUE]
                 [] OTHER -> task[x]
  <1>1. task' = [x \in Tasks |-> Outcome(x)]
    BY DEF Commit
  <1>2. Outcome(t) = Idle
    OBVIOUS
  <1>3. ASSUME NEW x \in Tasks, x # t
        PROVE  /\ Outcome(x) \in Task
               /\ Outcome(x).op = task[x].op
               /\ task[x].op \in Accepting =>
                     /\ Outcome(x).invite = task[x].invite /\ Outcome(x).known = task[x].known
                     /\ Outcome(x).had = task[x].had
               /\ task[x].op = "book" =>
                     /\ Outcome(x).master = task[x].master /\ Outcome(x).client = task[x].client
                     /\ Outcome(x).raced <=> (task[x].raced \/ task[x].client \in left)
    <2>1. CASE task[x].op = "book"
      <3>1. task[x] \in BookTask
        BY <2>1, Kinds
      <3>2. Outcome(x) = [task[x] EXCEPT !.raced = task[x].raced \/ task[x].client \in left]
        BY <1>3, <2>1
      <3> HIDE DEF Outcome
      <3>3. (task[x].raced \/ task[x].client \in left) \in BOOLEAN
        OBVIOUS
      <3>4. Outcome(x) \in BookTask
        BY <3>1, <3>2, <3>3 DEF BookTask
      <3>5. /\ Outcome(x).op = task[x].op
            /\ Outcome(x).master = task[x].master /\ Outcome(x).client = task[x].client
            /\ Outcome(x).raced = (task[x].raced \/ task[x].client \in left)
        BY <3>1, <3>2 DEF BookTask
      <3> QED
        BY <2>1, <3>4, <3>5 DEF Task, Accepting
    <2>2. CASE task[x].op \in {"resolved", "consumed", "entry", "masterphone", "ownphone"}
      <3>1. Outcome(x) = [task[x] EXCEPT !.raced = TRUE]
        BY <1>3, <2>2
      <3> HIDE DEF Outcome
      <3>2. CASE task[x].op \in Accepting
        <4>1. task[x] \in Resolved
          BY <3>2, Kinds
        <4>2. Outcome(x) \in Resolved
          BY <3>1, <4>1 DEF Resolved
        <4> QED
          BY <2>2, <3>1, <4>1, <4>2 DEF Task, Resolved
      <3>3. CASE task[x].op = "entry"
        <4>1. task[x] \in EntryTask
          BY <3>3, Kinds
        <4>2. Outcome(x) \in EntryTask
          BY <3>1, <4>1 DEF EntryTask
        <4> QED
          BY <3>1, <3>3, <4>1, <4>2 DEF Task, EntryTask, Accepting
      <3>4. CASE task[x].op \in {"masterphone", "ownphone"}
        <4>1. task[x] \in PhoneTask
          BY <3>4, Kinds
        <4>2. Outcome(x) \in PhoneTask
          BY <3>1, <4>1 DEF PhoneTask
        <4> QED
          BY <3>1, <3>4, <4>1, <4>2 DEF Task, PhoneTask, Accepting
      <3> QED
        BY <2>2, <3>2, <3>3, <3>4 DEF Accepting
    <2>3. CASE task[x].op \notin {"book", "resolved", "consumed", "entry", "masterphone", "ownphone"}
      <3>1. Outcome(x) = task[x]
        BY <1>3, <2>3
      <3> HIDE DEF Outcome
      <3> QED
        BY <2>3, <3>1 DEF TypeOK, Accepting
    <2> QED
      BY <2>1, <2>2, <2>3
  <1> HIDE DEF Outcome
  <1>4. \A x \in Tasks : task'[x] = Outcome(x)
    BY <1>1
  <1>5. task' \in [Tasks -> Task]
    BY <1>1, <1>2, <1>3, IdleType
  <1>6. task'[t] = Idle
    BY <1>2, <1>4
  <1> QED
    BY <1>3, <1>4, <1>5, <1>6

Quiet == UNCHANGED <<client, attached, invite, booking, nudges, gone, admitted, pro>>

\* A handler takes up state s: what s relies on holds, nothing is written.
LEMMA BecomeKeeps ==
    ASSUME IInv, NEW t \in Tasks, NEW s \in Task, Become(t, s), Quiet,
           s.op \in Accepting =>
               /\ invite[s.invite].master \in Masters
               /\ s.known \in Rows \cup gone \cup {NoClient}
               /\ s.known \in Rows => Online(s.known),
           s.op = "consumed" =>
               /\ invite[s.invite].used = 0
               /\ s.had => Quieted(invite[s.invite].master)
               /\ \A u \in Tasks \ {t} :
                     ~(task[u].op = "consumed" /\ task[u].invite = s.invite),
           s.op = "book" => <<s.master, s.client>> \in attached
    PROVE  IInv'
  <1>1. task' \in [Tasks -> Task] /\ \A x \in Tasks : task'[x] = IF x = t THEN s ELSE task[x]
    BY DEF IInv, TypeOK, Become
  <1>2. TypeOK'
    BY <1>1 DEF IInv, TypeOK, Quiet, Rows, nudges
  <1>3. ReadsStand'
    BY <1>1 DEF IInv, HandlersInv, ReadsStand, Quiet, Rows, Online
  <1>4. LocksExclude'
    BY <1>1 DEF IInv, HandlersInv, LocksExclude, Quiet
  <1>5. BookersKnow'
    BY <1>1 DEF IInv, HandlersInv, BookersKnow, Quiet
  <1>6. InvitesInv'
    BY DEF IInv, InvitesInv, InviteAdmitsOnce, AdmittedFinite, Quiet
  <1>7. BookingsFollowTheMerge'
    BY DEF IInv, BookingsFollowTheMerge, Quiet, Rows
  <1>8. NudgesInv'
    <2>1. FirstClientEndsNudging' /\ JobOnce'
      BY DEF IInv, NudgesInv, FirstClientEndsNudging, JobOnce, ClientsOf, Quiet, Rows, nudges
    <2>2. \A m : Quieted(m) => Quieted(m)'
      BY DEF Quieted, Quiet, nudges
    <2>3. HadStands'
      BY <1>1, <2>2 DEF IInv, NudgesInv, HadStands, Quiet
    <2> QED
      BY <2>1, <2>3 DEF NudgesInv
  <1> QED
    BY <1>2, <1>3, <1>4, <1>5, <1>6, <1>7, <1>8 DEF IInv, HandlersInv

LEMMA DoneKeeps ==
    ASSUME IInv, NEW t \in Tasks, Done(t), Quiet
    PROVE  IInv'
  BY IdleType, BecomeKeeps DEF Done, Accepting

-----------------------------------------------------------------------------
(* The first halves: what handlers read. *)

LEMMA RowOfUser ==
    ASSUME TypeOK, NEW u \in Users
    PROVE  /\ RowOf(u) \in Rows \cup {NoClient}
           /\ RowOf(u) \in Rows => Online(RowOf(u))
  <1>1. CASE \E c \in Rows : client[c].user = u
    <2>1. RowOf(u) \in Rows /\ client[RowOf(u)].user = u
      BY <1>1 DEF RowOf
    <2> QED
      BY <2>1, ClientConstants DEF Online
  <1>2. CASE ~\E c \in Rows : client[c].user = u
    <2>1. RowOf(u) = NoClient
      BY <1>2 DEF RowOf
    <2>2. NoClient \notin Rows
      BY ClientConstants DEF TypeOK
    <2> QED
      BY <2>1, <2>2
  <1> QED
    BY <1>1, <1>2

LEMMA WithPhoneType ==
    ASSUME TypeOK, NEW m, NEW p
    PROVE  WithPhone(m, p) \subseteq Clients \cup {NoClient}
  BY DEF WithPhone, ClientsOf, TypeOK

LEMMA ResolveKeeps ==
    ASSUME IInv, NEW t \in Tasks, NEW u \in Users, NEW i \in Invites, NEW p \in Phones,
           Resolve(t, u, i, p)
    PROVE  IInv'
  <1> DEFINE m == invite[i].master
             known == RowOf(u)
             phone == IF known = NoClient THEN p ELSE client[known].phone
             s(held) == [op |-> "resolved", invite |-> i, user |-> u, phone |-> phone,
                         known |-> known, held |-> held, had |-> FALSE, raced |-> FALSE]
  <1>2. ASSUME NEW held \in WithPhone(m, phone), Become(t, s(held)), Quiet
        PROVE  IInv'
    <2>1. m \in Masters
      BY DEF Resolve, IInv, TypeOK, InviteRow
    <2>2. known \in Rows \cup {NoClient} /\ (known \in Rows => Online(known))
      BY RowOfUser DEF IInv
    <2>3. phone \in Phones
      BY <2>2 DEF IInv, TypeOK, Row
    <2>4. held \in Clients \cup {NoClient} /\ Rows \subseteq Clients
      BY <1>2, WithPhoneType DEF IInv, TypeOK
    <2> HIDE DEF m, known, phone
    <2>5. s(held) \in Resolved
      BY <2>2, <2>3, <2>4 DEF Resolved
    <2>6. s(held).op = "resolved" /\ s(held).invite = i /\ s(held).known = known
      OBVIOUS
    <2> HIDE DEF s
    <2> QED
      BY <1>2, <2>1, <2>2, <2>5, <2>6, BecomeKeeps DEF Task, m
  <1> QED
    BY <1>2 DEF Resolve, Quiet

LEMMA ConsumeKeeps ==
    ASSUME IInv, NEW t \in Tasks, Consume(t)
    PROVE  IInv'
  <1> DEFINE i == task[t].invite
             had == ClientsOf(invite[i].master) # {}
             s == [task[t] EXCEPT !.op = "consumed", !.had = had]
  <1>1. task[t].op = "resolved" /\ ~LockedInvite(i) /\ Quiet
    BY DEF Consume, Quiet
  <1>2. task[t] \in Resolved
    BY <1>1, Kinds DEF IInv, Accepting
  <1>3. CASE Done(t)
    BY <1>1, <1>3, DoneKeeps
  <1>4. CASE Usable(i) /\ Become(t, s)
    <2>1. /\ s \in Resolved /\ s.op = "consumed" /\ s.invite = i /\ s.known = task[t].known
          /\ s.had = had
      <3>1. had \in BOOLEAN
        OBVIOUS
      <3> HIDE DEF had, i
      <3> QED
        BY <1>2, <3>1 DEF Resolved, i
    <2>2. invite[i].used = 0
      BY <1>2, <1>4 DEF Usable, IInv, TypeOK, InviteRow, Resolved
    <2>3. \A u \in Tasks \ {t} : ~(task[u].op = "consumed" /\ task[u].invite = s.invite)
      BY <1>1, <2>1 DEF LockedInvite
    <2>4. /\ invite[i].master \in Masters
          /\ task[t].known \in Rows \cup gone \cup {NoClient}
          /\ task[t].known \in Rows => Online(task[t].known)
      BY <1>1 DEF IInv, HandlersInv, ReadsStand, Accepting
    <2>5. s.had => Quieted(invite[i].master)
      BY <2>1, <2>4 DEF IInv, NudgesInv, FirstClientEndsNudging, Quieted
    <2> HIDE DEF s, had, i
    <2> QED
      BY <1>1, <1>4, <2>1, <2>2, <2>3, <2>4, <2>5, BecomeKeeps DEF Task
  <1> QED
    BY <1>3, <1>4 DEF Consume

LEMMA EnterByHandKeeps ==
    ASSUME IInv, NEW t \in Tasks, NEW m \in Masters, NEW p \in Phones, EnterByHand(t, m, p)
    PROVE  IInv'
  <1> DEFINE s == [op |-> "entry", master |-> m, phone |-> p, raced |-> FALSE]
  <1>1. s \in Task /\ s.op = "entry"
    BY DEF Task, EntryTask
  <1>2. Become(t, s) /\ Quiet
    BY DEF EnterByHand, Quiet
  <1> HIDE DEF s
  <1> QED
    BY <1>1, <1>2, BecomeKeeps DEF Accepting

LEMMA BookKeeps ==
    ASSUME IInv, NEW t \in Tasks, NEW m \in Masters, NEW c \in Clients, Book(t, m, c)
    PROVE  IInv'
  <1> DEFINE s == [op |-> "book", master |-> m, client |-> c, raced |-> FALSE]
  <1>1. s \in Task /\ s.op = "book" /\ s.master = m /\ s.client = c
    BY DEF Task, BookTask
  <1>2. <<m, c>> \in attached /\ Become(t, s) /\ Quiet
    BY DEF Book, Quiet
  <1> HIDE DEF s
  <1> QED
    BY <1>1, <1>2, BecomeKeeps DEF Accepting

LEMMA OpenCardKeeps ==
    ASSUME IInv, NEW t \in Tasks, NEW m \in Masters, NEW c \in Clients, OpenCard(t, m, c)
    PROVE  IInv'
  <1> DEFINE s == [op |-> "selected", master |-> m, client |-> c]
  <1>1. s \in Task /\ s.op = "selected"
    BY DEF Task, CardTask
  <1>2. Become(t, s) /\ Quiet
    BY DEF OpenCard, Quiet
  <1> HIDE DEF s
  <1> QED
    BY <1>1, <1>2, BecomeKeeps DEF Accepting

LEMMA EditPhoneKeeps ==
    ASSUME IInv, NEW t \in Tasks, NEW p \in Phones, EditPhone(t, p)
    PROVE  IInv'
  <1> DEFINE s == [op |-> "masterphone", client |-> task[t].client, phone |-> p, raced |-> FALSE]
  <1>1. task[t].client \in Clients
    BY Kinds DEF EditPhone, CardTask, IInv
  <1>2. s \in Task /\ s.op = "masterphone"
    BY <1>1 DEF Task, PhoneTask
  <1>3. Become(t, s) /\ Quiet
    BY DEF EditPhone, Quiet
  <1> HIDE DEF s
  <1> QED
    BY <1>2, <1>3, BecomeKeeps DEF Accepting

LEMMA EditOwnPhoneKeeps ==
    ASSUME IInv, NEW t \in Tasks, NEW c \in Clients, NEW p \in Phones, EditOwnPhone(t, c, p)
    PROVE  IInv'
  <1> DEFINE s == [op |-> "ownphone", client |-> c, phone |-> p, raced |-> FALSE]
  <1>1. s \in Task /\ s.op = "ownphone"
    BY DEF Task, PhoneTask
  <1>2. Become(t, s) /\ Quiet
    BY DEF EditOwnPhone, Quiet
  <1> HIDE DEF s
  <1> QED
    BY <1>1, <1>2, BecomeKeeps DEF Accepting

-----------------------------------------------------------------------------
(* The second halves: what handlers write. *)

\* What attaching clients to master m comes to: rows only come, with new ids;
\* attachments come with m and go with left.
Attaches(m, left) ==
    /\ client' \in [Rows' -> Row] /\ Rows' \subseteq Clients
    /\ Rows \subseteq Rows' /\ Rows' \cap gone = {}
    /\ \A c \in Rows : Online(c) => client'[c].user # NoUser
    /\ attached' \subseteq Masters \X Rows'
    /\ \A n \in Masters, c \in Clients :
           /\ <<n, c>> \in attached => <<n, c>> \in attached' \/ c \in left
           /\ <<n, c>> \in attached' => <<n, c>> \in attached \/ n = m
    /\ Calm /\ Quieted(m)'
    /\ UNCHANGED <<gone, pro>>

LEMMA AttachesKeeps ==
    ASSUME IInv, NEW t \in Tasks, NEW m \in Masters, NEW left,
           Attaches(m, left), Commit(t, left),
           \A i \in Invites : invite'[i].master = invite[i].master
    PROVE  ReadsStand' /\ BookersKnow' /\ NudgesInv'
  <1>1. /\ task'[t].op = "idle"
        /\ \A x \in Tasks \ {t} :
               /\ task'[x].op = task[x].op
               /\ task[x].op \in Accepting =>
                     /\ task'[x].invite = task[x].invite /\ task'[x].known = task[x].known
                     /\ task'[x].had = task[x].had
               /\ task[x].op = "book" =>
                     /\ task'[x].master = task[x].master /\ task'[x].client = task[x].client
                     /\ task'[x].raced <=> (task[x].raced \/ task[x].client \in left)
    BY CommitKeeps, IdleType DEF IInv
  <1>2. NoClient \notin Rows'
    BY ClientConstants DEF Attaches
  <1>3. \A x \in Tasks : task[x].op \in Accepting => task[x].invite \in Invites
    BY Kinds DEF IInv, Resolved
  <1>4. ReadsStand'
    <2> SUFFICES ASSUME NEW x \in Tasks \ {t}, task[x].op \in Accepting
                 PROVE  /\ invite'[task[x].invite].master \in Masters
                        /\ task[x].known \in Rows' \cup gone' \cup {NoClient}
                        /\ task[x].known \in Rows' => client'[task[x].known].user # NoUser
      BY <1>1 DEF ReadsStand, Online, Accepting
    <2>1. /\ invite[task[x].invite].master \in Masters
          /\ task[x].known \in Rows \cup gone \cup {NoClient}
          /\ task[x].known \in Rows => Online(task[x].known)
      BY DEF IInv, HandlersInv, ReadsStand
    <2>2. invite'[task[x].invite].master \in Masters
      BY <1>3, <2>1
    <2>3. task[x].known \in Rows' \cup gone' \cup {NoClient}
      BY <2>1 DEF Attaches
    <2>4. task[x].known \in Rows' => task[x].known \in Rows
      BY <1>2, <2>1 DEF Attaches
    <2>5. task[x].known \in Rows' => client'[task[x].known].user # NoUser
      BY <2>1, <2>4 DEF Attaches
    <2> QED
      BY <2>2, <2>3, <2>5
  <1>5. BookersKnow'
    <2> SUFFICES ASSUME NEW x \in Tasks \ {t}, task[x].op = "book"
                 PROVE  \/ task'[x].raced
                        \/ <<task[x].master, task[x].client>> \in attached'
                        \/ task[x].client \in gone'
                        \/ task[x].master \in gone'
      BY <1>1 DEF BookersKnow
    <2>1. task[x].master \in Masters /\ task[x].client \in Clients
      BY Kinds DEF IInv, BookTask
    <2>2. \/ task[x].raced
          \/ <<task[x].master, task[x].client>> \in attached
          \/ task[x].client \in gone
          \/ task[x].master \in gone
      BY DEF IInv, HandlersInv, BookersKnow
    <2>3. task'[x].raced <=> (task[x].raced \/ task[x].client \in left)
      BY <1>1
    <2> QED
      BY <2>1, <2>2, <2>3 DEF Attaches
  <1>6. NudgesInv'
    <2>1. ASSUME NEW n \in Masters, ClientsOf(n)' # {}
          PROVE  ClientsOf(n) # {} \/ Quieted(n)'
      <3>1. CASE n = m
        BY <3>1 DEF Attaches
      <3>2. CASE n # m
        <4>1. PICK c \in Rows' : <<n, c>> \in attached'
          BY <2>1 DEF ClientsOf
        <4>2. <<n, c>> \in attached
          BY <3>2, <4>1 DEF Attaches
        <4>3. c \in Rows
          BY <4>2 DEF IInv, TypeOK
        <4> QED
          BY <4>2, <4>3 DEF ClientsOf
      <3> QED
        BY <3>1, <3>2
    <2>2. ASSUME NEW x \in Tasks, task'[x].op = "consumed", task'[x].had
          PROVE  \E n \in Masters : n = invite'[task'[x].invite].master /\ Quieted(n)
      <3>1. x # t /\ task[x].op = "consumed" /\ task[x].had /\ task'[x].invite = task[x].invite
        BY <1>1, <2>2 DEF Accepting
      <3>2. invite'[task[x].invite].master = invite[task[x].invite].master
        BY <1>3, <3>1 DEF Accepting
      <3>3. invite[task[x].invite].master \in Masters
        BY <3>1 DEF IInv, HandlersInv, ReadsStand, Accepting
      <3> QED
        BY <3>1, <3>2, <3>3 DEF IInv, NudgesInv, HadStands
    <2> QED
      BY <2>1, <2>2, NudgesKeep DEF Attaches
  <1> QED
    BY <1>4, <1>5, <1>6

\* The use that is committed is the one the handler held.
LEMMA AdmittedKeeps ==
    ASSUME IInv, NEW t \in Tasks, task[t].op = "consumed", Admitted(t), NEW left, Commit(t, left)
    PROVE  /\ LocksExclude' /\ InvitesInv'
           /\ invite' \in [Invites -> InviteRow] /\ admitted' \in [Invites -> SUBSET Users]
           /\ \A i \in Invites : invite'[i].master = invite[i].master
  <1>0. PICK i \in Invites : i = task[t].invite
    BY Kinds DEF IInv, Accepting, Resolved
  <1>1. PICK u \in Users : u = task[t].user
    BY Kinds DEF IInv, Accepting, Resolved
  <1>2. /\ invite' = [invite EXCEPT ![i].used = invite[i].used + 1]
        /\ admitted' = [admitted EXCEPT ![i] = admitted[i] \cup {u}]
    BY <1>0, <1>1 DEF Admitted
  <1>3. invite[i].used = 0
    BY <1>0 DEF IInv, HandlersInv, LocksExclude
  <1>4. /\ invite' \in [Invites -> InviteRow]
        /\ \A j \in Invites : /\ invite'[j].master = invite[j].master
                              /\ invite'[j].used = IF j = i THEN 1 ELSE invite[j].used
    BY <1>2, <1>3 DEF IInv, TypeOK, InviteRow
  <1>5. /\ admitted' \in [Invites -> SUBSET Users]
        /\ \A j \in Invites : admitted'[j] = IF j = i THEN admitted[i] \cup {u} ELSE admitted[j]
    BY <1>2 DEF IInv, TypeOK
  <1>6. IsFiniteSet(admitted'[i]) /\ Cardinality(admitted'[i]) <= 1
    <2>1. IsFiniteSet(admitted[i])
      BY DEF IInv, InvitesInv, AdmittedFinite
    <2>2. Cardinality(admitted[i]) \in Nat
      BY <2>1, FS_CardinalityType
    <2>3. Cardinality(admitted[i]) = 0
      BY <1>3, <2>2 DEF IInv, InvitesInv, InviteAdmitsOnce
    <2>4. admitted[i] = {}
      BY <2>1, <2>3, FS_EmptySet
    <2>5. u \notin admitted[i]
      BY <2>4
    <2>6. /\ IsFiniteSet(admitted[i] \cup {u})
          /\ Cardinality(admitted[i] \cup {u}) = Cardinality(admitted[i]) + 1
      BY <2>1, <2>5, FS_AddElement
    <2> QED
      BY <1>5, <2>3, <2>6
  <1>7. InvitesInv'
    BY <1>4, <1>5, <1>6 DEF IInv, InvitesInv, InviteAdmitsOnce, AdmittedFinite
  <1>8. LocksExclude'
    <2>1. /\ task'[t].op = "idle"
          /\ \A x \in Tasks \ {t} :
                 /\ task'[x].op = task[x].op
                 /\ task[x].op \in Accepting => task'[x].invite = task[x].invite
      BY CommitKeeps, IdleType DEF IInv
    <2>2. \A x \in Tasks \ {t} : task[x].op = "consumed" => task[x].invite # i
      BY <1>0 DEF IInv, HandlersInv, LocksExclude
    <2>3. \A x \in Tasks : task[x].op = "consumed" => task[x].invite \in Invites
      BY Kinds DEF IInv, Resolved, Accepting
    <2> QED
      BY <1>4, <2>1, <2>2, <2>3 DEF IInv, HandlersInv, LocksExclude, Accepting
  <1> QED
    BY <1>4, <1>5, <1>7, <1>8

BookingsAttached ==
    /\ DOMAIN booking \subseteq Bookings /\ booking \in [DOMAIN booking -> BookingRow]
    /\ \A b \in DOMAIN booking :
           /\ booking[b].client \in Rows
           /\ <<booking[b].master, booking[b].client>> \in attached \/ booking[b].raced

LEMMA AcceptKeeps ==
    ASSUME IInv, NEW t \in Tasks, task[t].op = "consumed", NEW left, NEW m \in Masters,
           Attaches(m, left), Commit(t, left), Admitted(t), BookingsAttached'
    PROVE  IInv'
  <1>1. /\ LocksExclude' /\ InvitesInv'
        /\ invite' \in [Invites -> InviteRow] /\ admitted' \in [Invites -> SUBSET Users]
        /\ \A i \in Invites : invite'[i].master = invite[i].master
    BY AdmittedKeeps
  <1>2. ReadsStand' /\ BookersKnow' /\ NudgesInv'
    BY <1>1, AttachesKeeps
  <1>3. task' \in [Tasks -> Task]
    BY CommitKeeps DEF IInv
  <1>4. TypeOK'
    BY <1>1, <1>3 DEF IInv, TypeOK, Attaches, Calm, NudgesType, BookingsAttached
  <1>5. BookingsFollowTheMerge'
    BY DEF BookingsAttached, BookingsFollowTheMerge
  <1> QED
    BY <1>1, <1>2, <1>4, <1>5 DEF IInv, HandlersInv

LEMMA Consumed ==
    ASSUME IInv, NEW t \in Tasks, task[t].op = "consumed"
    PROVE  /\ task[t] \in Resolved
           /\ invite[task[t].invite].master \in Masters
           /\ task[t].known \in Rows => Online(task[t].known)
  BY Kinds DEF IInv, HandlersInv, ReadsStand, Accepting

\* The first client ends the nudging; who had one before was quieted by it.
LEMMA AdmittedQuiets ==
    ASSUME IInv, NEW t \in Tasks, task[t].op = "consumed", Admitted(t), NEW m \in Masters,
           m = invite[task[t].invite].master
    PROVE  Calm /\ Quieted(m)' /\ UNCHANGED gone
  <1>1. Welcomed(m, task[t].had) /\ UNCHANGED gone
    BY DEF Admitted
  <1>2. task[t].had => Quieted(m)
    BY DEF IInv, NudgesInv, HadStands
  <1> QED
    BY <1>1, <1>2, WelcomedQuiets DEF IInv, NudgesInv

LEMMA MergeKeeps ==
    ASSUME IInv, NEW t \in Tasks, Merge(t)
    PROVE  IInv'
  <1>1. task[t].op = "consumed"
    BY DEF Merge
  <1>2. PICK m \in Masters : m = invite[task[t].invite].master
    BY <1>1, Consumed
  <1>3. PICK held \in Clients : held = task[t].held
    BY <1>1, Consumed DEF Resolved, Merge
  <1>4. PICK known \in Rows : known = task[t].known
    BY DEF Merge
  <1>5. /\ held # known
        /\ booking' = Moved(m, held, known)
        /\ attached' = (attached \ {<<m, held>>}) \cup {<<m, known>>}
        /\ Admitted(t) /\ UNCHANGED <<client, pro>>
    BY <1>2, <1>3, <1>4 DEF Merge
  <1>6. Commit(t, {held})
    BY <1>3 DEF Merge, Commit
  <1>7. Attaches(m, {held})
    <2>1. Rows' = Rows /\ Rows \subseteq Clients /\ Rows \cap gone = {} /\ client \in [Rows -> Row]
      BY <1>5 DEF IInv, TypeOK, Rows
    <2>2. Calm /\ Quieted(m)' /\ UNCHANGED gone
      BY <1>1, <1>2, <1>5, AdmittedQuiets
    <2>3. attached' \subseteq Masters \X Rows
      BY <1>5 DEF IInv, TypeOK
    <2>4. \A n \in Masters, c \in Clients :
              /\ <<n, c>> \in attached => <<n, c>> \in attached' \/ c \in {held}
              /\ <<n, c>> \in attached' => <<n, c>> \in attached \/ n = m
      BY <1>5
    <2> QED
      BY <1>5, <2>1, <2>2, <2>3, <2>4 DEF Attaches, Online
  <1>8. BookingsAttached'
    <2>1. booking' = [b \in DOMAIN booking |->
                         IF booking[b].master = m /\ booking[b].client = held
                         THEN [booking[b] EXCEPT !.client = known] ELSE booking[b]]
      BY <1>5 DEF Moved
    <2>2. DOMAIN booking' = DOMAIN booking /\ Rows' = Rows /\ Rows \subseteq Clients
      BY <1>5, <2>1 DEF IInv, TypeOK, Rows
    <2>3. ASSUME NEW b \in DOMAIN booking
          PROVE  /\ booking'[b] \in BookingRow /\ booking'[b].client \in Rows
                 /\ <<booking'[b].master, booking'[b].client>> \in attached' \/ booking'[b].raced
      <3>1. /\ booking[b] \in BookingRow /\ booking[b].client \in Rows
            /\ <<booking[b].master, booking[b].client>> \in attached \/ booking[b].raced
        BY DEF IInv, TypeOK, BookingsFollowTheMerge
      <3>2. CASE booking[b].master = m /\ booking[b].client = held
        <4>1. booking'[b] = [booking[b] EXCEPT !.client = known]
          BY <2>1, <3>2
        <4>2. /\ booking'[b] \in BookingRow /\ booking'[b].client = known
              /\ booking'[b].master = m
          BY <2>2, <3>1, <3>2, <4>1 DEF BookingRow
        <4> QED
          BY <1>5, <4>2
      <3>3. CASE ~(booking[b].master = m /\ booking[b].client = held)
        BY <1>5, <2>1, <3>1, <3>3
      <3> QED
        BY <3>2, <3>3
    <2>4. booking' \in [DOMAIN booking' -> BookingRow]
      BY <2>1, <2>2, <2>3
    <2>5. DOMAIN booking \subseteq Bookings
      BY DEF IInv, TypeOK
    <2> QED
      BY <2>2, <2>3, <2>4, <2>5 DEF BookingsAttached
  <1> QED
    BY <1>1, <1>5, <1>6, <1>7, <1>8, AcceptKeeps

\* Where no booking moves and no attachment goes, bookings are where they were.
LEMMA BookingsStand ==
    ASSUME IInv, UNCHANGED booking, Rows \subseteq Rows', attached \subseteq attached'
    PROVE  BookingsAttached'
  BY DEF IInv, TypeOK, BookingsFollowTheMerge, BookingsAttached

LEMMA AttachKnownKeeps ==
    ASSUME IInv, NEW t \in Tasks, AttachKnown(t)
    PROVE  IInv'
  <1>1. task[t].op = "consumed"
    BY DEF AttachKnown
  <1>2. PICK m \in Masters : m = invite[task[t].invite].master
    BY <1>1, Consumed
  <1>3. PICK known \in Rows : known = task[t].known
    BY DEF AttachKnown
  <1>4. /\ attached' = attached \cup {<<m, known>>}
        /\ Admitted(t) /\ Commit(t, {}) /\ UNCHANGED <<client, booking, pro>>
    BY <1>2, <1>3 DEF AttachKnown
  <1>5. Attaches(m, {})
    <2>1. Rows' = Rows /\ Rows \subseteq Clients /\ Rows \cap gone = {} /\ client \in [Rows -> Row]
      BY <1>4 DEF IInv, TypeOK, Rows
    <2>2. Calm /\ Quieted(m)' /\ UNCHANGED gone
      BY <1>1, <1>2, <1>4, AdmittedQuiets
    <2>3. attached' \subseteq Masters \X Rows
      BY <1>4 DEF IInv, TypeOK
    <2>4. \A n \in Masters, c \in Clients :
              /\ <<n, c>> \in attached => <<n, c>> \in attached'
              /\ <<n, c>> \in attached' => <<n, c>> \in attached \/ n = m
      BY <1>4
    <2> QED
      BY <1>4, <2>1, <2>2, <2>3, <2>4 DEF Attaches, Online
  <1>6. BookingsAttached'
    BY <1>4, BookingsStand DEF Rows
  <1> QED
    BY <1>1, <1>4, <1>5, <1>6, AcceptKeeps

LEMMA ClaimKeeps ==
    ASSUME IInv, NEW t \in Tasks, Claim(t)
    PROVE  IInv'
  <1>1. task[t].op = "consumed"
    BY DEF Claim
  <1>2. PICK m \in Masters : m = invite[task[t].invite].master
    BY <1>1, Consumed
  <1>3. PICK held \in Rows : held = task[t].held
    BY DEF Claim
  <1>4. PICK u \in Users : u = task[t].user
    BY <1>1, Consumed DEF Resolved
  <1>5. /\ client' = [client EXCEPT ![held].user = u]
        /\ attached' = attached \cup {<<m, held>>}
        /\ Admitted(t) /\ Commit(t, {}) /\ UNCHANGED <<booking, pro>>
    BY <1>2, <1>3, <1>4 DEF Claim
  <1>6. Rows' = Rows /\ Rows \subseteq Clients /\ Rows \cap gone = {}
    BY <1>5 DEF IInv, TypeOK, Rows
  <1>7. /\ client' \in [Rows -> Row]
        /\ \A c \in Rows : Online(c) => client'[c].user # NoUser
    BY <1>5, ClientConstants DEF IInv, TypeOK, Row, Online
  <1>8. Attaches(m, {})
    <2>1. Calm /\ Quieted(m)' /\ UNCHANGED gone
      BY <1>1, <1>2, <1>5, AdmittedQuiets
    <2>2. attached' \subseteq Masters \X Rows
      BY <1>5 DEF IInv, TypeOK
    <2>3. \A n \in Masters, c \in Clients :
              /\ <<n, c>> \in attached => <<n, c>> \in attached'
              /\ <<n, c>> \in attached' => <<n, c>> \in attached \/ n = m
      BY <1>5
    <2> QED
      BY <1>5, <1>6, <1>7, <2>1, <2>2, <2>3 DEF Attaches
  <1>9. BookingsAttached'
    BY <1>5, <1>6, BookingsStand
  <1> QED
    BY <1>1, <1>5, <1>8, <1>9, AcceptKeeps

\* A new row has a new id.
LEMMA EnterAttaches ==
    ASSUME IInv, NEW m \in Masters, NEW c \in Clients, NEW row \in Row,
           c \notin Rows \cup gone, Enter(c, row), attached' = attached \cup {<<m, c>>},
           Calm, Quieted(m)', UNCHANGED <<gone, pro, booking>>
    PROVE  Attaches(m, {}) /\ BookingsAttached'
  <1>1. client' = [x \in Rows \cup {c} |-> IF x = c THEN row ELSE client[x]]
    BY DEF Enter
  <1>2. Rows' = Rows \cup {c} /\ Rows \subseteq Clients /\ Rows \cap gone = {}
    BY <1>1 DEF IInv, TypeOK, Rows
  <1>3. /\ client' \in [Rows' -> Row]
        /\ \A x \in Rows : client'[x] = client[x]
    BY <1>1, <1>2 DEF IInv, TypeOK
  <1>4. attached' \subseteq Masters \X Rows'
    BY <1>2 DEF IInv, TypeOK
  <1>5. \A n \in Masters, x \in Clients :
            /\ <<n, x>> \in attached => <<n, x>> \in attached'
            /\ <<n, x>> \in attached' => <<n, x>> \in attached \/ n = m
    OBVIOUS
  <1>6. Attaches(m, {})
    BY <1>2, <1>3, <1>4, <1>5 DEF Attaches, Online
  <1>7. BookingsAttached'
    BY <1>2, BookingsStand
  <1> QED
    BY <1>6, <1>7

LEMMA CreateOnlineKeeps ==
    ASSUME IInv, NEW t \in Tasks, NEW c \in Clients, CreateOnline(t, c)
    PROVE  IInv'
  <1>1. task[t].op = "consumed"
    BY DEF CreateOnline
  <1>2. PICK m \in Masters : m = invite[task[t].invite].master
    BY <1>1, Consumed
  <1>3. PICK row \in Row : row = [user |-> task[t].user, phone |-> task[t].phone]
    BY <1>1, Consumed DEF Resolved, Row
  <1>4. /\ c \notin Rows \cup gone /\ Enter(c, row)
        /\ attached' = attached \cup {<<m, c>>}
        /\ Admitted(t) /\ Commit(t, {}) /\ UNCHANGED <<booking, pro>>
    BY <1>2, <1>3 DEF CreateOnline, Enter
  <1>5. Calm /\ Quieted(m)' /\ UNCHANGED gone
    BY <1>1, <1>2, <1>4, AdmittedQuiets
  <1>6. Attaches(m, {}) /\ BookingsAttached'
    BY <1>4, <1>5, EnterAttaches
  <1> QED
    BY <1>1, <1>4, <1>6, AcceptKeeps

\* A commit that leaves the invites alone leaves their uses to whom they were.
LEMMA UsesStand ==
    ASSUME IInv, NEW t \in Tasks, NEW left, Commit(t, left), UNCHANGED <<invite, admitted>>
    PROVE  LocksExclude' /\ InvitesInv'
  <1>1. /\ task'[t].op = "idle"
        /\ \A x \in Tasks \ {t} :
               /\ task'[x].op = task[x].op
               /\ task[x].op \in Accepting => task'[x].invite = task[x].invite
    BY CommitKeeps, IdleType DEF IInv
  <1>2. LocksExclude'
    BY <1>1 DEF IInv, HandlersInv, LocksExclude, Accepting
  <1> QED
    BY <1>2 DEF IInv, InvitesInv, InviteAdmitsOnce, AdmittedFinite

LEMMA CreateOfflineKeeps ==
    ASSUME IInv, NEW t \in Tasks, NEW c \in Clients, CreateOffline(t, c)
    PROVE  IInv'
  <1>1. task[t] \in EntryTask
    BY Kinds DEF IInv, CreateOffline
  <1>2. PICK m \in Masters : m = task[t].master
    BY <1>1 DEF EntryTask
  <1>3. PICK row \in Row : row = [user |-> NoUser, phone |-> task[t].phone]
    BY <1>1 DEF EntryTask, Row
  <1>4. /\ c \notin Rows \cup gone /\ Enter(c, row)
        /\ attached' = attached \cup {<<m, c>>}
        /\ Commit(t, {}) /\ UNCHANGED <<invite, booking, gone, admitted, pro>>
    BY <1>2, <1>3 DEF CreateOffline, Enter
  <1>11. Calm /\ Quieted(m)'
    <2>1. PICK had \in BOOLEAN : Welcomed(m, had) /\ (had => ClientsOf(m) # {})
      BY <1>2 DEF CreateOffline
    <2>2. had => Quieted(m)
      BY <2>1 DEF IInv, NudgesInv, FirstClientEndsNudging, Quieted
    <2> QED
      BY <2>1, <2>2, WelcomedQuiets DEF IInv, NudgesInv
  <1>5. Attaches(m, {}) /\ BookingsAttached'
    BY <1>4, <1>11, EnterAttaches
  <1>6. ReadsStand' /\ BookersKnow' /\ NudgesInv'
    BY <1>4, <1>5, AttachesKeeps
  <1>7. LocksExclude' /\ InvitesInv'
    BY <1>4, UsesStand
  <1>8. task' \in [Tasks -> Task]
    BY <1>4, CommitKeeps DEF IInv
  <1>9. TypeOK'
    BY <1>4, <1>5, <1>8, <1>11 DEF IInv, TypeOK, Attaches, Calm, NudgesType, BookingsAttached
  <1>10. BookingsFollowTheMerge'
    BY <1>5 DEF BookingsAttached, BookingsFollowTheMerge
  <1> QED
    BY <1>6, <1>7, <1>9, <1>10 DEF IInv, HandlersInv

\* A booking is inserted for a client who is still there: his own master's, or
\* one merged away since the check.
LEMMA InsertBookingKeeps ==
    ASSUME IInv, NEW t \in Tasks, NEW b \in Bookings, InsertBooking(t, b)
    PROVE  IInv'
  <1> DEFINE row == [master |-> task[t].master, client |-> task[t].client, raced |-> task[t].raced]
  <1>1. task[t].op = "book" /\ task[t] \in BookTask
    BY Kinds DEF IInv, InsertBooking
  <1>2. /\ row.client \in Rows /\ row.master \notin gone
        /\ booking' = [x \in DOMAIN booking \cup {b} |-> IF x = b THEN row ELSE booking[x]]
        /\ Done(t) /\ CancelNudge(row.master)
        /\ UNCHANGED <<client, attached, invite, gone, admitted, pro>>
    BY DEF InsertBooking
  <1>3. row \in BookingRow /\ row.master \in Masters
    BY <1>1 DEF BookTask, BookingRow
  <1>4. <<row.master, row.client>> \in attached \/ row.raced
    <2>1. row.client \notin gone
      BY <1>2 DEF IInv, TypeOK
    <2> QED
      BY <1>1, <1>2, <2>1 DEF IInv, HandlersInv, BookersKnow
  <1> HIDE DEF row
  <1>5. /\ DOMAIN booking' = DOMAIN booking \cup {b}
        /\ \A x \in DOMAIN booking' : booking'[x] = IF x = b THEN row ELSE booking[x]
    BY <1>2
  <1>6. Rows' = Rows
    BY <1>2 DEF Rows
  <1>7. /\ \A x \in DOMAIN booking' :
               /\ booking'[x] \in BookingRow /\ booking'[x].client \in Rows
               /\ <<booking'[x].master, booking'[x].client>> \in attached \/ booking'[x].raced
        /\ DOMAIN booking' \subseteq Bookings
    BY <1>2, <1>3, <1>4, <1>5 DEF IInv, TypeOK, BookingsFollowTheMerge
  <1>8. booking' \in [DOMAIN booking' -> BookingRow]
    BY <1>2, <1>5, <1>7
  <1>9. /\ task' \in [Tasks -> Task]
        /\ \A x \in Tasks : task'[x] = IF x = t THEN Idle ELSE task[x]
    BY <1>2, IdleType DEF IInv, TypeOK, Done, Become
  <1>16. Calm
    BY <1>2, <1>3, CancelQuiets DEF IInv, NudgesInv
  <1>10. TypeOK'
    BY <1>2, <1>6, <1>7, <1>8, <1>9, <1>16 DEF IInv, TypeOK, Calm, NudgesType
  <1>11. ReadsStand'
    BY <1>2, <1>6, <1>9, IdleType DEF IInv, HandlersInv, ReadsStand, Accepting, Online
  <1>12. LocksExclude' /\ BookersKnow'
    BY <1>2, <1>9, IdleType DEF IInv, HandlersInv, LocksExclude, BookersKnow
  <1>13. InvitesInv'
    BY <1>2 DEF IInv, InvitesInv, InviteAdmitsOnce, AdmittedFinite
  <1>14. BookingsFollowTheMerge'
    BY <1>2, <1>7 DEF BookingsFollowTheMerge
  <1>15. NudgesInv'
    <2>1. \A m \in Masters : ClientsOf(m)' # {} => ClientsOf(m) # {}
      BY <1>2, <1>6 DEF ClientsOf
    <2>2. \A x \in Tasks :
              task'[x].op = "consumed" /\ task'[x].had =>
                  \E m \in Masters : m = invite'[task'[x].invite].master /\ Quieted(m)
      BY <1>2, <1>9, IdleType DEF IInv, NudgesInv, HadStands, HandlersInv, ReadsStand, Accepting
    <2> QED
      BY <1>16, <2>1, <2>2, NudgesKeep
  <1> QED
    BY <1>10, <1>11, <1>12, <1>13, <1>14, <1>15 DEF IInv, HandlersInv

LEMMA WritePhoneKeeps ==
    ASSUME IInv, NEW t \in Tasks, WritePhone(t)
    PROVE  IInv'
  <1>1. task[t] \in PhoneTask
    BY Kinds DEF IInv, WritePhone
  <1>2. PICK p \in Phones : p = task[t].phone
    BY <1>1 DEF PhoneTask
  <1>3. /\ client' = [c \in Rows |-> IF c = task[t].client THEN [client[c] EXCEPT !.phone = p]
                                     ELSE client[c]]
        /\ Commit(t, {})
        /\ UNCHANGED <<attached, invite, booking, nudges, gone, admitted, pro>>
    BY <1>2 DEF WritePhone
  <1>4. Rows' = Rows
    BY <1>3 DEF Rows
  <1>5. /\ client' \in [Rows -> Row]
        /\ \A c \in Rows : client'[c].user = client[c].user
    BY <1>3 DEF IInv, TypeOK, Row
  <1>6. /\ task' \in [Tasks -> Task] /\ task'[t].op = "idle"
        /\ \A x \in Tasks \ {t} :
               /\ task'[x].op = task[x].op
               /\ task[x].op \in Accepting =>
                     /\ task'[x].invite = task[x].invite /\ task'[x].known = task[x].known
                     /\ task'[x].had = task[x].had
               /\ task[x].op = "book" =>
                     /\ task'[x].master = task[x].master /\ task'[x].client = task[x].client
                     /\ task'[x].raced <=> (task[x].raced \/ task[x].client \in {})
    BY <1>3, CommitKeeps, IdleType DEF IInv
  <1>7. TypeOK'
    BY <1>3, <1>4, <1>5, <1>6 DEF IInv, TypeOK, nudges
  <1>8. ReadsStand'
    BY <1>3, <1>4, <1>5, <1>6 DEF IInv, HandlersInv, ReadsStand, Accepting, Online
  <1>9. BookersKnow'
    BY <1>3, <1>6 DEF IInv, HandlersInv, BookersKnow
  <1>10. LocksExclude' /\ InvitesInv'
    BY <1>3, UsesStand
  <1>11. BookingsFollowTheMerge'
    BY <1>3, <1>4 DEF IInv, BookingsFollowTheMerge
  <1>12. NudgesInv'
    <2>1. \A m \in Masters : ClientsOf(m)' # {} => ClientsOf(m) # {}
      BY <1>3, <1>4 DEF ClientsOf
    <2>2. \A x \in Tasks :
              task'[x].op = "consumed" /\ task'[x].had =>
                  \E m \in Masters : m = invite'[task'[x].invite].master /\ Quieted(m)
      BY <1>3, <1>6 DEF IInv, NudgesInv, HadStands, HandlersInv, ReadsStand, Accepting
    <2> QED
      BY <1>3, <2>1, <2>2, NudgesStand, NudgesKeep DEF IInv, NudgesInv
  <1> QED
    BY <1>7, <1>8, <1>9, <1>10, <1>11, <1>12 DEF IInv, HandlersInv

-----------------------------------------------------------------------------
(* Invites and deletions. *)

\* A step that leaves the uses of the invites what they are.
LEMMA UnusedKeeps ==
    ASSUME IInv, invite' \in [Invites -> InviteRow],
           \A j \in Invites :
               /\ invite'[j].used = invite[j].used
               /\ invite[j].master \in Masters => invite'[j].master = invite[j].master,
           UNCHANGED <<client, attached, booking, nudges, gone, task, admitted, pro>>
    PROVE  IInv'
  <1>1. TypeOK'
    BY DEF IInv, TypeOK, Rows, nudges
  <1>2. \A t \in Tasks : task[t].op \in Accepting => task[t].invite \in Invites
    BY Kinds DEF IInv, Resolved
  <1>3. ReadsStand'
    BY <1>2 DEF IInv, HandlersInv, ReadsStand, Rows, Online
  <1>4. LocksExclude' /\ BookersKnow'
    BY <1>2 DEF IInv, HandlersInv, LocksExclude, BookersKnow, Accepting
  <1>5. InvitesInv'
    BY DEF IInv, InvitesInv, InviteAdmitsOnce, AdmittedFinite
  <1>6. BookingsFollowTheMerge'
    BY DEF IInv, BookingsFollowTheMerge, Rows
  <1>7. NudgesInv'
    <2>1. \A m \in Masters : ClientsOf(m)' # {} => ClientsOf(m) # {}
      BY DEF ClientsOf, Rows
    <2>2. \A x \in Tasks :
              task'[x].op = "consumed" /\ task'[x].had =>
                  \E m \in Masters : m = invite'[task'[x].invite].master /\ Quieted(m)
      BY <1>2 DEF IInv, NudgesInv, HadStands, HandlersInv, ReadsStand, Accepting
    <2> QED
      BY <2>1, <2>2, NudgesStand, NudgesKeep DEF IInv, NudgesInv
  <1> QED
    BY <1>1, <1>3, <1>4, <1>5, <1>6, <1>7 DEF IInv, HandlersInv

\* What the worker does with the job is between it and the nudging.
LEMMA WorkerKeeps ==
    ASSUME IInv, NEW m \in Masters, ReserveNudge(m) \/ SettleNudge(m) \/ RetryNudge(m)
    PROVE  IInv' /\ UNCHANGED <<client, attached, invite, booking, gone, pro, task, admitted>>
  <1>1. UNCHANGED <<client, attached, invite, booking, gone, pro, task, admitted>>
    BY DEF ReserveNudge, SettleNudge, RetryNudge
  <1>2. Calm
    BY WorkerQuiets DEF IInv, NudgesInv
  <1>3. TypeOK'
    BY <1>1, <1>2 DEF IInv, TypeOK, Rows, Calm, NudgesType
  <1>4. HandlersInv'
    BY <1>1 DEF IInv, HandlersInv, ReadsStand, LocksExclude, BookersKnow, Rows, Online
  <1>5. InvitesInv' /\ BookingsFollowTheMerge'
    BY <1>1 DEF IInv, InvitesInv, InviteAdmitsOnce, AdmittedFinite, BookingsFollowTheMerge
  <1>6. NudgesInv'
    <2>1. \A n \in Masters : ClientsOf(n)' # {} => ClientsOf(n) # {}
      BY <1>1 DEF ClientsOf, Rows
    <2>2. \A x \in Tasks :
              task'[x].op = "consumed" /\ task'[x].had =>
                  \E n \in Masters : n = invite'[task'[x].invite].master /\ Quieted(n)
      BY <1>1 DEF IInv, NudgesInv, HadStands, HandlersInv, ReadsStand, Accepting
    <2> QED
      BY <1>2, <2>1, <2>2, NudgesKeep
  <1> QED
    BY <1>1, <1>3, <1>4, <1>5, <1>6 DEF IInv

LEMMA InviteKeeps ==
    ASSUME IInv, NEW m \in Masters, NEW i \in Invites, CreateInvite(m, i)
    PROVE  IInv'
  <1>1. /\ invite' \in [Invites -> InviteRow]
        /\ \A j \in Invites :
               /\ invite'[j].used = invite[j].used
               /\ invite[j].master \in Masters => invite'[j].master = invite[j].master
    BY ClientConstants DEF CreateInvite, IInv, TypeOK, InviteRow
  <1> QED
    BY <1>1, UnusedKeeps DEF CreateInvite

LEMMA ExpireKeeps ==
    ASSUME IInv, NEW i \in Invites, Expire(i)
    PROVE  IInv'
  <1>1. /\ invite' \in [Invites -> InviteRow]
        /\ \A j \in Invites : invite'[j].used = invite[j].used /\ invite'[j].master = invite[j].master
    BY DEF Expire, IInv, TypeOK, InviteRow
  <1> QED
    BY <1>1, UnusedKeeps DEF Expire

\* What the deletion of masters ms and clients cs comes to.
Deletes(ms, cs) ==
    /\ client' = Kept(Rows \ cs, client)
    /\ attached' = {a \in attached : a[1] \notin ms /\ a[2] \notin cs}
    /\ booking' = BookingsWithout(ms, cs)
    /\ gone' = gone \cup ms \cup cs
    /\ nudged' = nudged \ ms /\ inhand' = inhand \ ms /\ late' = late \ ms
    /\ UNCHANGED <<task, admitted, pro>>

LEMMA DeletesKeeps ==
    ASSUME IInv, NEW ms \in SUBSET Masters, NEW cs \in SUBSET Clients, cs \subseteq Rows,
           Deletes(ms, cs), invite' \in [Invites -> InviteRow],
           \A i \in Invites : /\ invite'[i].master = invite[i].master
                              /\ invite'[i].used = invite[i].used
    PROVE  IInv'
  <1>1. Rows' = Rows \ cs /\ \A c \in Rows' : client'[c] = client[c]
    BY DEF Deletes, Kept, Rows
  <1>2. /\ client' \in [Rows' -> Row] /\ Rows' \subseteq Clients
    BY <1>1 DEF Deletes, Kept, IInv, TypeOK
  <1>3. \A m \in Masters, c \in Clients :
            <<m, c>> \in attached' <=> <<m, c>> \in attached /\ m \notin ms /\ c \notin cs
    BY DEF Deletes
  <1>4. attached' \subseteq Masters \X Rows'
    <2> SUFFICES ASSUME NEW a \in attached, a[1] \notin ms, a[2] \notin cs
                 PROVE  a \in Masters \X Rows'
      BY DEF Deletes
    <2>1. a \in Masters \X Rows
      BY DEF IInv, TypeOK
    <2> QED
      BY <1>1, <2>1
  <1>5. /\ DOMAIN booking' \subseteq DOMAIN booking
        /\ \A b \in DOMAIN booking' : /\ booking'[b] = booking[b]
                                      /\ booking[b].master \notin ms /\ booking[b].client \notin cs
        /\ booking' \in [DOMAIN booking' -> BookingRow]
    BY DEF Deletes, BookingsWithout, IInv, TypeOK
  <1>6. UNCHANGED <<task, admitted, pro>>
    BY DEF Deletes
  <1>7. TypeOK'
    <2>1. \A b \in DOMAIN booking' : booking'[b].client \in Rows'
      BY <1>1, <1>5 DEF IInv, TypeOK
    <2>2. NudgesType'
      BY DEF Deletes, NudgesType, IInv, TypeOK
    <2>3. gone' \subseteq (Masters \cup Clients) \ Rows'
      <3>1. gone' = gone \cup ms \cup cs
        BY DEF Deletes
      <3>2. gone \subseteq (Masters \cup Clients) \ Rows /\ Masters \cap Rows = {}
        BY ClientConstants DEF IInv, TypeOK
      <3> QED
        BY <1>1, <3>1, <3>2
    <2> QED
      BY <1>2, <1>4, <1>5, <1>6, <2>1, <2>2, <2>3 DEF IInv, TypeOK, NudgesType
  <1>8. \A t \in Tasks : task[t].op \in Accepting => task[t].invite \in Invites
    BY Kinds DEF IInv, Resolved
  <1>9. ReadsStand'
    <2> SUFFICES ASSUME NEW t \in Tasks, task[t].op \in Accepting
                 PROVE  /\ invite'[task[t].invite].master \in Masters
                        /\ task[t].known \in Rows' \cup gone' \cup {NoClient}
                        /\ task[t].known \in Rows' => client'[task[t].known].user # NoUser
      BY <1>6 DEF ReadsStand, Online
    <2>1. /\ invite[task[t].invite].master \in Masters
          /\ task[t].known \in Rows \cup gone \cup {NoClient}
          /\ task[t].known \in Rows => Online(task[t].known)
      BY DEF IInv, HandlersInv, ReadsStand
    <2>2. invite'[task[t].invite].master \in Masters
      BY <1>8, <2>1
    <2>3. task[t].known \in Rows' \cup gone' \cup {NoClient}
      BY <1>1, <2>1 DEF Deletes
    <2>4. task[t].known \in Rows' => client'[task[t].known].user # NoUser
      BY <1>1, <2>1 DEF Online
    <2> QED
      BY <2>2, <2>3, <2>4
  <1>10. LocksExclude'
    BY <1>6, <1>8 DEF IInv, HandlersInv, LocksExclude, Accepting
  <1>11. BookersKnow'
    <2> SUFFICES ASSUME NEW t \in Tasks, task[t].op = "book"
                 PROVE  \/ task[t].raced
                        \/ <<task[t].master, task[t].client>> \in attached'
                        \/ task[t].client \in gone'
                        \/ task[t].master \in gone'
      BY <1>6 DEF BookersKnow
    <2>1. task[t].master \in Masters /\ task[t].client \in Clients
      BY Kinds DEF IInv, BookTask
    <2>2. \/ task[t].raced
          \/ <<task[t].master, task[t].client>> \in attached
          \/ task[t].client \in gone
          \/ task[t].master \in gone
      BY DEF IInv, HandlersInv, BookersKnow
    <2>3. gone' = gone \cup ms \cup cs
      BY DEF Deletes
    <2> QED
      BY <1>3, <2>1, <2>2, <2>3
  <1>12. InvitesInv'
    BY <1>6 DEF IInv, InvitesInv, InviteAdmitsOnce, AdmittedFinite
  <1>13. BookingsFollowTheMerge'
    <2> SUFFICES ASSUME NEW b \in DOMAIN booking'
                 PROVE  <<booking'[b].master, booking'[b].client>> \in attached'
                            \/ booking'[b].raced
      BY DEF BookingsFollowTheMerge
    <2>1. booking[b].master \in Masters /\ booking[b].client \in Clients
      BY <1>5 DEF IInv, TypeOK, BookingRow
    <2>2. <<booking[b].master, booking[b].client>> \in attached \/ booking[b].raced
      BY <1>5 DEF IInv, BookingsFollowTheMerge
    <2> QED
      BY <1>3, <1>5, <2>1, <2>2
  <1>14. NudgesInv'
    <2>1. Calm
      BY DEF Deletes, Calm, NudgesType, Quieted, JobOnce, IInv, NudgesInv, TypeOK
    <2>2. ASSUME NEW m \in Masters, ClientsOf(m)' # {}
          PROVE  ClientsOf(m) # {}
      <3>1. PICK c \in Rows' : <<m, c>> \in attached'
        BY <2>2 DEF ClientsOf
      <3>2. c \in Rows /\ c \in Clients
        BY <1>1 DEF IInv, TypeOK
      <3> QED
        BY <1>3, <3>1, <3>2 DEF ClientsOf
    <2>3. \A x \in Tasks :
              task'[x].op = "consumed" /\ task'[x].had =>
                  \E m \in Masters : m = invite'[task'[x].invite].master /\ Quieted(m)
      BY <1>6, <1>8 DEF IInv, NudgesInv, HadStands, HandlersInv, ReadsStand, Accepting
    <2> QED
      BY <2>1, <2>2, <2>3, NudgesKeep
  <1> QED
    BY <1>7, <1>9, <1>10, <1>11, <1>12, <1>13, <1>14 DEF IInv, HandlersInv

LEMMA DeleteClientDeletes ==
    ASSUME IInv, NEW c \in Clients, DeleteClient(c)
    PROVE  Deletes({}, {c}) /\ IInv'
  <1>1. Deletes({}, {c})
    <2>1. attached' = {a \in attached : a[1] \notin {} /\ a[2] \notin {c}}
      <3>1. attached \subseteq Masters \X Rows
        BY DEF IInv, TypeOK
      <3>2. attached' = attached \ (Masters \X {c})
        BY DEF DeleteClient
      <3> QED
        BY <3>1, <3>2
    <2> QED
      BY <2>1 DEF Deletes, DeleteClient, nudges
  <1>2. {c} \subseteq Rows /\ UNCHANGED invite
    BY DEF DeleteClient
  <1>3. invite \in [Invites -> InviteRow]
    BY DEF IInv, TypeOK
  <1> QED
    BY <1>1, <1>2, <1>3, DeletesKeeps

LEMMA DeleteMasterDeletes ==
    ASSUME IInv, NEW m \in Masters, DeleteMaster(m)
    PROVE  IInv' /\ \E cs \in SUBSET Clients : Deletes({m}, cs)
  <1> DEFINE left == attached \ ({m} \X Clients)
  <1>1. PICK cs \in SUBSET Clients : cs = Orphans(left)
    BY DEF Orphans, IInv, TypeOK
  <1>2. cs \subseteq Rows /\ \A c \in cs, o \in Masters : <<o, c>> \notin left
    BY <1>1 DEF Orphans
  <1>3. Deletes({m}, cs)
    <2>1. attached' = left
      BY DEF DeleteMaster
    <2>2. left = {a \in attached : a[1] \notin {m} /\ a[2] \notin cs}
      <3>1. attached \subseteq Masters \X Rows /\ Rows \subseteq Clients
        BY DEF IInv, TypeOK
      <3>2. ASSUME NEW a \in attached
            PROVE  a \in left <=> a[1] \notin {m} /\ a[2] \notin cs
        <4>1. a = <<a[1], a[2]>> /\ a[1] \in Masters /\ a[2] \in Clients
          BY <3>1
        <4>2. a \in left <=> a[1] # m
          BY <4>1
        <4>3. a \in left => a[2] \notin cs
          BY <1>2, <4>1
        <4> QED
          BY <4>2, <4>3
      <3> QED
        BY <3>2
    <2> HIDE DEF left
    <2>3. /\ client' = Kept(Rows \ cs, client)
          /\ booking' = BookingsWithout({m}, cs)
          /\ gone' = gone \cup {m} \cup cs
          /\ nudged' = nudged \ {m} /\ inhand' = inhand \ {m} /\ late' = late \ {m}
          /\ UNCHANGED <<task, admitted, pro>>
      BY <1>1 DEF DeleteMaster, left
    <2> QED
      BY <2>1, <2>2, <2>3 DEF Deletes
  <1>4. /\ invite' \in [Invites -> InviteRow]
        /\ \A i \in Invites : invite'[i].master = invite[i].master /\ invite'[i].used = invite[i].used
    BY DEF DeleteMaster, IInv, TypeOK, InviteRow
  <1>5. IInv'
    BY <1>2, <1>3, <1>4, DeletesKeeps
  <1> QED
    BY <1>3, <1>5

-----------------------------------------------------------------------------
(* Every step. *)

LEMMA InitIInv ==
    ASSUME Init
    PROVE  IInv
  <1>1. client \in [Rows -> Row] /\ Rows \subseteq Clients
    BY ClientConstants DEF Init, Rows
  <1>2. Masters \cap Rows = {}
    BY <1>1, ClientConstants
  <1>3. TypeOK
    BY <1>1, <1>2, IdleType, ClientConstants DEF Init, TypeOK, InviteRow
  <1>4. HandlersInv
    BY DEF Init, HandlersInv, ReadsStand, LocksExclude, BookersKnow, Idle, Accepting
  <1>5. InvitesInv
    BY FS_EmptySet DEF Init, InvitesInv, InviteAdmitsOnce, AdmittedFinite
  <1>6. BookingsFollowTheMerge /\ NudgesInv
    BY DEF Init, BookingsFollowTheMerge, NudgesInv, FirstClientEndsNudging, ClientsOf,
           HadStands, JobOnce, Idle
  <1> QED
    BY <1>3, <1>4, <1>5, <1>6 DEF IInv

LEMMA RollbackKeeps ==
    ASSUME IInv, NEW t \in Tasks, Rollback(t)
    PROVE  IInv'
  BY DoneKeeps DEF Rollback, Quiet

LEMMA HandlerKeeps ==
    ASSUME IInv, NEW t \in Tasks,
           \/ Accepts(t) \/ Rollback(t) \/ WritePhone(t)
           \/ \E u \in Users, i \in Invites, p \in Phones : Resolve(t, u, i, p)
           \/ \E c \in Clients : CreateOnline(t, c) \/ CreateOffline(t, c)
           \/ \E m \in Masters, p \in Phones : EnterByHand(t, m, p)
           \/ \E m \in Masters, c \in Clients : Book(t, m, c)
           \/ \E b \in Bookings : InsertBooking(t, b)
    PROVE  IInv'
  <1>1. CASE Accepts(t)
    BY <1>1, ConsumeKeeps, MergeKeeps, AttachKnownKeeps, ClaimKeeps DEF Accepts
  <1>2. CASE Rollback(t) \/ WritePhone(t)
    BY <1>2, RollbackKeeps, WritePhoneKeeps
  <1>3. CASE \E u \in Users, i \in Invites, p \in Phones : Resolve(t, u, i, p)
    BY <1>3, ResolveKeeps
  <1>4. CASE \E c \in Clients : CreateOnline(t, c) \/ CreateOffline(t, c)
    BY <1>4, CreateOnlineKeeps, CreateOfflineKeeps
  <1>5. CASE \E m \in Masters, p \in Phones : EnterByHand(t, m, p)
    BY <1>5, EnterByHandKeeps
  <1>6. CASE \E m \in Masters, c \in Clients : Book(t, m, c)
    BY <1>6, BookKeeps
  <1>7. CASE \E b \in Bookings : InsertBooking(t, b)
    BY <1>7, InsertBookingKeeps
  <1> QED
    BY <1>1, <1>2, <1>3, <1>4, <1>5, <1>6, <1>7

\* The dialogs about a phone need a master, a client and a phone to be about.
LEMMA CardKeeps ==
    ASSUME IInv, NEW t \in Tasks,
           \/ \E m \in Masters, c \in Clients : OpenCard(t, m, c)
           \/ \E p \in Phones : EditPhone(t, p)
           \/ \E c \in Clients, p \in Phones : EditOwnPhone(t, c, p)
    PROVE  IInv'
  <1>1. CASE \E m \in Masters, c \in Clients : OpenCard(t, m, c)
    BY <1>1, OpenCardKeeps
  <1>2. CASE \E p \in Phones : EditPhone(t, p)
    BY <1>2, EditPhoneKeeps
  <1>3. CASE \E c \in Clients, p \in Phones : EditOwnPhone(t, c, p)
    BY <1>3, EditOwnPhoneKeeps
  <1> QED
    BY <1>1, <1>2, <1>3

LEMMA StepKeeps ==
    ASSUME IInv, [Next]_vars
    PROVE  IInv'
  <1>1. CASE \E m \in Masters, i \in Invites : CreateInvite(m, i)
    BY <1>1, InviteKeeps
  <1>2. CASE \E i \in Invites : Expire(i)
    BY <1>2, ExpireKeeps
  <1>3. CASE \E t \in Tasks :
           \/ Accepts(t) \/ Rollback(t) \/ WritePhone(t)
           \/ \E u \in Users, i \in Invites, p \in Phones : Resolve(t, u, i, p)
           \/ \E c \in Clients : CreateOnline(t, c) \/ CreateOffline(t, c)
           \/ \E m \in Masters, p \in Phones : EnterByHand(t, m, p)
           \/ \E m \in Masters, c \in Clients : Book(t, m, c)
           \/ \E b \in Bookings : InsertBooking(t, b)
    BY <1>3, HandlerKeeps
  <1>4. CASE \E t \in Tasks :
           \/ \E m \in Masters, c \in Clients : OpenCard(t, m, c)
           \/ \E p \in Phones : EditPhone(t, p)
           \/ \E c \in Clients, p \in Phones : EditOwnPhone(t, c, p)
    BY <1>4, CardKeeps
  <1>5. CASE \E c \in Clients : DeleteClient(c)
    BY <1>5, DeleteClientDeletes
  <1>6. CASE \E m \in Masters : DeleteMaster(m)
    BY <1>6, DeleteMasterDeletes
  <1>8. CASE \E m \in Masters : ReserveNudge(m) \/ SettleNudge(m) \/ RetryNudge(m)
    BY <1>8, WorkerKeeps
  <1>7. CASE UNCHANGED vars
    <2>1. TypeOK'
      BY <1>7 DEF vars, IInv, TypeOK, Rows, nudges
    <2>2. HandlersInv'
      BY <1>7 DEF vars, IInv, HandlersInv, ReadsStand, LocksExclude, BookersKnow, Rows, Online
    <2>3. InvitesInv'
      BY <1>7 DEF vars, IInv, InvitesInv, InviteAdmitsOnce, AdmittedFinite
    <2>4. BookingsFollowTheMerge' /\ NudgesInv'
      BY <1>7 DEF vars, nudges, IInv, BookingsFollowTheMerge, NudgesInv, FirstClientEndsNudging,
                  HadStands, JobOnce, Quieted, ClientsOf, Rows
    <2> QED
      BY <2>1, <2>2, <2>3, <2>4 DEF IInv
  <1> QED
    BY <1>1, <1>2, <1>3, <1>4, <1>5, <1>6, <1>7, <1>8 DEF Next

LEMMA Inductive == Spec => []IInv
  <1>1. Init => IInv
    BY InitIInv
  <1>2. IInv /\ [Next]_vars => IInv'
    BY StepKeeps
  <1> QED
    BY <1>1, <1>2, PTL DEF Spec

\* Rows refer to rows that are there, whoever is merged or deleted meanwhile,
\* for any number of masters, clients, invites and handlers.
THEOREM TypeCorrect == Spec => []TypeOK
  <1>1. IInv => TypeOK
    BY DEF IInv
  <1> QED
    BY <1>1, Inductive, PTL

\* increment_used_count_if_valid lets one user in by an invite, however many
\* handlers follow the link at the same time and wherever they fail.
THEOREM InviteAdmitsOnceHolds == Spec => []InviteAdmitsOnce
  <1>1. IInv => InviteAdmitsOnce
    BY DEF IInv, InvitesInv
  <1> QED
    BY <1>1, Inductive, PTL

\* A booking stays with a client of its master's through any merges, claims and
\* deletions, but for one inserted after its client was merged away.
THEOREM BookingsFollowTheMergeHolds == Spec => []BookingsFollowTheMerge
  <1>1. IInv => BookingsFollowTheMerge
    BY DEF IInv
  <1> QED
    BY <1>1, Inductive, PTL

\* The first client cancels the job that asks for one in every order of
\* handlers, worker and deletions: what is left to send is a job the worker held
\* at that moment, as it holds it or put back from there.
THEOREM FirstClientEndsNudgingHolds == Spec => []FirstClientEndsNudging
  <1>1. IInv => FirstClientEndsNudging
    BY DEF IInv, NudgesInv
  <1> QED
    BY <1>1, Inductive, PTL

-----------------------------------------------------------------------------
(* Whose bookings pass to whom. *)

History ==
    \A b \in DOMAIN booking \cap DOMAIN booking' :
        LET m == booking[b].master
            to == booking'[b].client
        IN  booking'[b] # booking[b] =>
                /\ booking'[b].master = m /\ to \in Rows /\ Online(to)
                /\ <<m, to>> \in attached' /\ <<m, booking[b].client>> \notin attached'

LEMMA MergeMovesHistory ==
    ASSUME IInv, NEW t \in Tasks, Merge(t)
    PROVE  History
  <1>1. PICK m, held, known :
            /\ m = invite[task[t].invite].master /\ held = task[t].held /\ known = task[t].known
    OBVIOUS
  <1>2. /\ held # known /\ known \in Rows
        /\ booking' = Moved(m, held, known)
        /\ attached' = (attached \ {<<m, held>>}) \cup {<<m, known>>}
    BY <1>1 DEF Merge
  <1>3. Online(known)
    BY <1>1, <1>2, Consumed DEF Merge
  <1> SUFFICES ASSUME NEW b \in DOMAIN booking, booking'[b] # booking[b]
               PROVE  /\ booking'[b].master = booking[b].master
                      /\ booking'[b].client = known /\ booking[b].client = held
                      /\ booking[b].master = m
    BY <1>2, <1>3 DEF History
  <1>4. booking'[b] = IF booking[b].master = m /\ booking[b].client = held
                      THEN [booking[b] EXCEPT !.client = known] ELSE booking[b]
    BY <1>2 DEF Moved
  <1>5. booking[b] \in BookingRow
    BY DEF IInv, TypeOK
  <1> QED
    BY <1>4, <1>5 DEF BookingRow

\* Every other step keeps each booking that stays as it is.
LEMMA OthersKeepHistory ==
    ASSUME \A b \in DOMAIN booking \cap DOMAIN booking' : booking'[b] = booking[b]
    PROVE  History
  BY DEF History

LEMMA HistoryStep ==
    ASSUME IInv, [Next]_vars
    PROVE  History
  <1>1. CASE UNCHANGED booking
    BY <1>1, OthersKeepHistory
  <1>2. CASE \E t \in Tasks : Merge(t)
    BY <1>2, MergeMovesHistory
  <1>3. CASE \E t \in Tasks, b \in Bookings : InsertBooking(t, b)
    <2>1. \A b \in DOMAIN booking : booking'[b] = booking[b]
      BY <1>3 DEF InsertBooking
    <2> QED
      BY <2>1, OthersKeepHistory
  <1>4. ASSUME NEW ms, NEW cs, Deletes(ms, cs)
        PROVE  History
    <2>1. \A b \in DOMAIN booking' : booking'[b] = booking[b]
      BY <1>4 DEF Deletes, BookingsWithout
    <2> QED
      BY <2>1, OthersKeepHistory
  <1>5. CASE \E c \in Clients : DeleteClient(c)
    BY <1>4, <1>5, DeleteClientDeletes
  <1>6. CASE \E m \in Masters : DeleteMaster(m)
    BY <1>4, <1>6, DeleteMasterDeletes
  <1>7. CASE \E m \in Masters, i \in Invites : CreateInvite(m, i)
    BY <1>1, <1>7 DEF CreateInvite
  <1>8. CASE \E i \in Invites : Expire(i)
    BY <1>1, <1>8 DEF Expire
  <1>9. ASSUME NEW t \in Tasks,
               \/ Consume(t) \/ AttachKnown(t) \/ Claim(t) \/ Rollback(t) \/ WritePhone(t)
               \/ \E u \in Users, i \in Invites, p \in Phones : Resolve(t, u, i, p)
               \/ \E c \in Clients : CreateOnline(t, c) \/ CreateOffline(t, c)
               \/ \E m \in Masters, p \in Phones : EnterByHand(t, m, p)
               \/ \E m \in Masters, c \in Clients : Book(t, m, c) \/ OpenCard(t, m, c)
               \/ \E p \in Phones : EditPhone(t, p)
               \/ \E c \in Clients, p \in Phones : EditOwnPhone(t, c, p)
        PROVE  UNCHANGED booking
    <2>1. CASE Consume(t) \/ AttachKnown(t) \/ Claim(t) \/ Rollback(t) \/ WritePhone(t)
      BY <2>1 DEF Consume, AttachKnown, Claim, Rollback, WritePhone
    <2>2. CASE \E u \in Users, i \in Invites, p \in Phones : Resolve(t, u, i, p)
      BY <2>2 DEF Resolve
    <2>3. CASE \E c \in Clients : CreateOnline(t, c) \/ CreateOffline(t, c)
      BY <2>3 DEF CreateOnline, CreateOffline
    <2>4. CASE \E m \in Masters, p \in Phones : EnterByHand(t, m, p)
      BY <2>4 DEF EnterByHand
    <2>5. CASE \E m \in Masters, c \in Clients : Book(t, m, c) \/ OpenCard(t, m, c)
      BY <2>5 DEF Book, OpenCard
    <2>6. CASE \/ \E p \in Phones : EditPhone(t, p)
               \/ \E c \in Clients, p \in Phones : EditOwnPhone(t, c, p)
      BY <2>6 DEF EditPhone, EditOwnPhone
    <2> QED
      BY <1>9, <2>1, <2>2, <2>3, <2>4, <2>5, <2>6
  <1>10. CASE UNCHANGED vars
    BY <1>1, <1>10 DEF vars
  <1>11. CASE \E m \in Masters : ReserveNudge(m) \/ SettleNudge(m) \/ RetryNudge(m)
    BY <1>1, <1>11, WorkerKeeps
  <1> QED
    BY <1>1, <1>2, <1>3, <1>5, <1>6, <1>7, <1>8, <1>9, <1>10, <1>11 DEF Next, Accepts

\* reassign_client_for_master moves a booking to the Telegram user who takes its
\* client's place with its own master, in the same transaction; nothing else of
\* a booking ever changes here.
THEOREM MergeKeepsHistoryHolds == Spec => MergeKeepsHistory
  <1>1. IInv /\ [Next]_vars => [History]_vars
    BY HistoryStep
  <1> QED
    BY <1>1, Inductive, PTL DEF Spec, MergeKeepsHistory, History

-----------------------------------------------------------------------------
(* What a handler nobody has overtaken still knows. *)

\* telegram_id is unique.
UsersUnique ==
    \A c, d \in Rows : client[c].user = client[d].user => c = d \/ client[c].user = NoUser

\* A client entered by hand is one master's.
OwnedOnce ==
    \A c \in Rows : ~Online(c) =>
        \A m, n \in Masters : <<m, c>> \in attached /\ <<n, c>> \in attached => m = n

FewClients == \A m \in Masters : IsFiniteSet(ClientsOf(m))

\* Who accepts an invite has found room and a free phone, or the client entered
\* by hand whose place the user takes, or himself among the clients.  A use of
\* an expired invite is refused.
AcceptReads(t) ==
    LET i == task[t].invite
        m == invite[i].master
        held == task[t].held
        known == task[t].known
    IN  (task[t].op \in Accepting /\ ~task[t].raced
            /\ ~(task[t].op = "resolved" /\ invite[i].expired)) =>
          /\ held = NoClient => CanAttach(m) /\ SamePhone(m, task[t].phone) = {}
          /\ held # NoClient /\ (held = known => known \in Rows) =>
                /\ held \in ClientsOf(m) /\ client[held].phone = task[t].phone
                /\ ~Online(held) \/ held = known
          /\ known \in Rows => client[known].phone = task[t].phone

EntryReads(t) ==
    task[t].op = "entry" /\ ~task[t].raced =>
        CanAttach(task[t].master) /\ SamePhone(task[t].master, task[t].phone) = {}

\* A client on an open card, while nobody has claimed him, is that master's only.
CardReads(t) ==
    LET c == task[t].client IN
    task[t].op = "selected" =>
        /\ c \in Rows \cup gone
        /\ (c \in Rows /\ ~Online(c)) =>
              \A n \in Masters : <<n, c>> \in attached => n = task[t].master

PhoneReads(t) ==
    LET c == task[t].client IN
    task[t].op \in {"masterphone", "ownphone"} /\ ~task[t].raced =>
        \/ task[t].op = "masterphone" /\ c \in Rows /\ Online(c)
        \/ \A n \in Masters : <<n, c>> \in attached => SamePhone(n, task[t].phone) \subseteq {c}

TaskReads(t) == AcceptReads(t) /\ EntryReads(t) /\ CardReads(t) /\ PhoneReads(t)

ReadsInv == UsersUnique /\ OwnedOnce /\ FewClients /\ \A t \in Tasks : TaskReads(t)

\* The clients with a phone are those WithPhone finds.
LEMMA PhoneFound ==
    ASSUME TypeOK, NEW m, NEW p
    PROVE  /\ NoClient \notin Rows
           /\ SamePhone(m, p) \subseteq Rows
           /\ WithPhone(m, p) = IF SamePhone(m, p) = {} THEN {NoClient} ELSE SamePhone(m, p)
           /\ NoClient \in WithPhone(m, p) <=> SamePhone(m, p) = {}
  <1>1. NoClient \notin Rows
    BY ClientConstants DEF TypeOK
  <1>2. SamePhone(m, p) \subseteq Rows
    BY DEF SamePhone, ClientsOf
  <1> QED
    BY <1>1, <1>2 DEF WithPhone, SamePhone

\* A plan with room keeps it when clients go.
LEMMA RoomStays ==
    ASSUME NEW m \in Masters, IsFiniteSet(ClientsOf(m)), ClientsOf(m)' \subseteq ClientsOf(m),
           pro' = pro, CanAttach(m)
    PROVE  CanAttach(m)'
  <1>1. /\ Cardinality(ClientsOf(m)') <= Cardinality(ClientsOf(m))
        /\ Cardinality(ClientsOf(m)') \in Nat /\ Cardinality(ClientsOf(m)) \in Nat
    BY FS_Subset, FS_CardinalityType
  <1> QED
    BY <1>1, ClientConstants DEF CanAttach

\* Rows and attachments go, none comes and none changes.
Shrinks ==
    /\ Rows' \subseteq Rows /\ \A c \in Rows' : client'[c] = client[c]
    /\ attached' \subseteq attached /\ pro' = pro
    /\ gone \cup (Rows \ Rows') \subseteq gone'

LEMMA ShrinkingSets ==
    ASSUME Shrinks
    PROVE  /\ \A m : ClientsOf(m)' \subseteq ClientsOf(m)
           /\ \A m, p : SamePhone(m, p)' \subseteq SamePhone(m, p)
           /\ \A c \in Rows' : Online(c)' <=> Online(c)
  <1>1. \A m : ClientsOf(m)' \subseteq ClientsOf(m)
    BY DEF Shrinks, ClientsOf
  <1>2. \A m, p : SamePhone(m, p)' \subseteq SamePhone(m, p)
    BY <1>1 DEF Shrinks, SamePhone, ClientsOf
  <1>3. \A c \in Rows' : Online(c)' <=> Online(c)
    BY DEF Shrinks, Online
  <1> QED
    BY <1>1, <1>2, <1>3

\* The invite a handler is about is as it was or has expired, and the clients
\* of its master are still his, but for a Telegram user who is deleted.
StillThere(t) ==
    LET i == task[t].invite
        m == invite[i].master
    IN  task[t].op \in Accepting =>
            /\ invite'[i].master = m
            /\ invite[i].expired => invite'[i].expired
            /\ \/ task[t].op = "resolved" /\ invite'[i].expired
               \/ \A c \in Rows :
                      <<m, c>> \in attached /\ (Online(c) => c \in Rows') => <<m, c>> \in attached'

\* A handler that stays as it is knows what it knew, if the invite it is about
\* and the client it found are still there.
LEMMA ShrinkReads ==
    ASSUME IInv, IInv', ReadsInv, Shrinks, NEW t \in Tasks, task'[t] = task[t],
           StillThere(t)
    PROVE  TaskReads(t)'
  <1>1. TaskReads(t) /\ FewClients
    BY DEF ReadsInv
  <1>2. \A m \in Masters : CanAttach(m) => CanAttach(m)'
    BY <1>1, ShrinkingSets, RoomStays DEF FewClients, Shrinks
  <1>3. AcceptReads(t)'
    <2>1. CASE task[t].op \in Accepting
      <3>1. PICK i : i = task[t].invite
        OBVIOUS
      <3>2. PICK m \in Masters : m = invite[i].master
        BY <2>1, <3>1 DEF IInv, HandlersInv, ReadsStand
      <3>3. PICK held, known, p : held = task[t].held /\ known = task[t].known /\ p = task[t].phone
        OBVIOUS
      <3>4. SUFFICES ASSUME ~task[t].raced, ~(task[t].op = "resolved" /\ invite'[i].expired)
                     PROVE  /\ held = NoClient => CanAttach(m)' /\ SamePhone(m, p)' = {}
                            /\ held # NoClient /\ (held = known => known \in Rows') =>
                                  /\ held \in ClientsOf(m)' /\ client'[held].phone = p
                                  /\ ~Online(held)' \/ held = known
                            /\ known \in Rows' => client'[known].phone = p
        BY <2>1, <3>1, <3>2, <3>3 DEF AcceptReads, StillThere
      <3>5. /\ held = NoClient => CanAttach(m) /\ SamePhone(m, p) = {}
            /\ held # NoClient /\ (held = known => known \in Rows) =>
                  /\ held \in ClientsOf(m) /\ client[held].phone = p
                  /\ ~Online(held) \/ held = known
            /\ known \in Rows => client[known].phone = p
        BY <1>1, <2>1, <3>1, <3>2, <3>3, <3>4 DEF TaskReads, AcceptReads, StillThere
      <3>6. held = NoClient => CanAttach(m)' /\ SamePhone(m, p)' = {}
        BY <1>2, <3>5, ShrinkingSets
      <3>7. ASSUME held # NoClient, held = known => known \in Rows'
            PROVE  /\ held \in ClientsOf(m)' /\ client'[held].phone = p
                   /\ ~Online(held)' \/ held = known
        <4>1. held \in ClientsOf(m)'
          <5>1. held \in Rows /\ <<m, held>> \in attached /\ (Online(held) => held \in Rows')
            BY <3>5, <3>7 DEF ClientsOf, Shrinks
          <5>2. <<m, held>> \in attached'
            BY <2>1, <3>1, <3>2, <3>4, <3>5, <3>7, <5>1 DEF StillThere
          <5> QED
            BY <5>2 DEF ClientsOf, IInv, TypeOK
        <4>2. held \in Rows'
          BY <4>1 DEF ClientsOf
        <4> QED
          BY <3>5, <3>7, <4>1, <4>2, ShrinkingSets DEF Shrinks
      <3>8. known \in Rows' => client'[known].phone = p
        BY <3>5 DEF Shrinks
      <3> QED
        BY <3>6, <3>7, <3>8
    <2>2. CASE task[t].op \notin Accepting
      BY <2>2 DEF AcceptReads
    <2> QED
      BY <2>1, <2>2
  <1>4. EntryReads(t)'
    <2> SUFFICES ASSUME task[t].op = "entry", ~task[t].raced
                 PROVE  CanAttach(task[t].master)' /\ SamePhone(task[t].master, task[t].phone)' = {}
      BY DEF EntryReads
    <2>1. PICK m \in Masters : m = task[t].master
      BY Kinds DEF IInv, EntryTask
    <2>2. PICK p : p = task[t].phone
      OBVIOUS
    <2>3. CanAttach(m) /\ SamePhone(m, p) = {}
      BY <1>1, <2>1, <2>2 DEF TaskReads, EntryReads
    <2>4. CanAttach(m)' /\ SamePhone(m, p)' = {}
      BY <1>2, <2>3, ShrinkingSets
    <2> QED
      BY <2>1, <2>2, <2>4
  <1>5. CardReads(t)'
    BY <1>1, ShrinkingSets DEF TaskReads, CardReads, Shrinks
  <1>6. PhoneReads(t)'
    <2>1. PICK c, p : c = task[t].client /\ p = task[t].phone
      OBVIOUS
    <2>2. SUFFICES ASSUME task[t].op \in {"masterphone", "ownphone"}, ~task[t].raced
                   PROVE  \/ task[t].op = "masterphone" /\ c \in Rows' /\ Online(c)'
                          \/ \A n \in Masters : <<n, c>> \in attached' =>
                                SamePhone(n, p)' \subseteq {c}
      BY <2>1 DEF PhoneReads
    <2>3. \/ task[t].op = "masterphone" /\ c \in Rows /\ Online(c)
          \/ \A n \in Masters : <<n, c>> \in attached => SamePhone(n, p) \subseteq {c}
      BY <1>1, <2>1, <2>2 DEF TaskReads, PhoneReads
    <2>4. CASE c \in Rows'
      BY <2>3, <2>4, ShrinkingSets DEF Shrinks
    <2>5. CASE c \notin Rows'
      <3>1. \A n \in Masters : <<n, c>> \notin attached'
        BY <2>5 DEF IInv, TypeOK
      <3> QED
        BY <3>1
    <2> QED
      BY <2>4, <2>5
  <1> QED
    BY <1>3, <1>4, <1>5, <1>6 DEF TaskReads

LEMMA ShrinkStep ==
    ASSUME IInv, IInv', ReadsInv, Shrinks,
           \A t \in Tasks : task'[t] = Idle \/ (task'[t] = task[t] /\ StillThere(t))
    PROVE  ReadsInv'
  <1>1. UsersUnique'
    BY DEF ReadsInv, UsersUnique, Shrinks
  <1>2. OwnedOnce'
    BY DEF ReadsInv, OwnedOnce, Shrinks, Online
  <1>3. FewClients'
    BY ShrinkingSets, FS_Subset DEF ReadsInv, FewClients
  <1>4. ASSUME NEW t \in Tasks
        PROVE  TaskReads(t)'
    <2>1. CASE task'[t] = Idle
      BY <2>1, IdleType DEF TaskReads, AcceptReads, EntryReads, CardReads, PhoneReads, Accepting
    <2>2. CASE task'[t] = task[t] /\ StillThere(t)
      BY <2>2, ShrinkReads
    <2> QED
      BY <2>1, <2>2
  <1> QED
    BY <1>1, <1>2, <1>3, <1>4 DEF ReadsInv

LEMMA QuietShrinks ==
    ASSUME UNCHANGED <<client, attached, gone, pro>>
    PROVE  Shrinks
  BY DEF Shrinks, Rows

\* A handler that takes up a state for which the reads are right leaves the
\* others as they were.
LEMMA BecomeReads ==
    ASSUME IInv, IInv', ReadsInv, NEW t \in Tasks, NEW s, Become(t, s), Quiet,
           task'[t] = s => TaskReads(t)'
    PROVE  ReadsInv'
  <1>1. \A x \in Tasks : task'[x] = IF x = t THEN s ELSE task[x]
    BY DEF Become, IInv, TypeOK
  <1>2. UsersUnique' /\ OwnedOnce' /\ FewClients'
    BY DEF ReadsInv, UsersUnique, OwnedOnce, FewClients, ClientsOf, Quiet, Rows, Online
  <1>3. ASSUME NEW x \in Tasks, x # t
        PROVE  TaskReads(x)'
    <2>1. StillThere(x)
      BY DEF StillThere, Quiet, ClientsOf, Rows
    <2>2. Shrinks /\ task'[x] = task[x]
      BY <1>1, <1>3, QuietShrinks DEF Quiet
    <2> QED
      BY <2>1, <2>2, ShrinkReads
  <1> QED
    BY <1>1, <1>2, <1>3 DEF ReadsInv

-----------------------------------------------------------------------------
(* What the reads find. *)

LEMMA ResolveReads ==
    ASSUME IInv, IInv', ReadsInv, NEW t \in Tasks, NEW u \in Users, NEW i \in Invites,
           NEW p \in Phones, Resolve(t, u, i, p)
    PROVE  ReadsInv'
  <1>1. PICK m, known : m = invite[i].master /\ known = RowOf(u)
    OBVIOUS
  <1>2. PICK phone : phone = IF known = NoClient THEN p ELSE client[known].phone
    OBVIOUS
  <1>3. PICK held \in WithPhone(m, phone) :
           /\ held # NoClient => client[held].user \in {NoUser, u}
           /\ NeedsNoRoom(m, known, held) \/ CanAttach(m)
           /\ Become(t, [op |-> "resolved", invite |-> i, user |-> u, phone |-> phone,
                         known |-> known, held |-> held, had |-> FALSE, raced |-> FALSE])
           /\ Quiet
    BY <1>1, <1>2 DEF Resolve, Quiet
  <1>4. PICK s : s = [op |-> "resolved", invite |-> i, user |-> u, phone |-> phone,
                      known |-> known, held |-> held, had |-> FALSE, raced |-> FALSE]
    OBVIOUS
  <1>5. m \in Masters /\ TypeOK
    BY <1>1 DEF Resolve, IInv, TypeOK, InviteRow
  <1>6. ASSUME held = NoClient
        PROVE  CanAttach(m) /\ SamePhone(m, phone) = {}
    <2>1. SamePhone(m, phone) = {} /\ NoClient \notin Rows
      BY <1>3, <1>5, <1>6, PhoneFound
    <2>2. ASSUME <<m, known>> \in attached
          PROVE  FALSE
      <3>1. known \in Rows
        BY <2>2 DEF IInv, TypeOK
      <3>2. known \in SamePhone(m, phone)
        BY <1>2, <2>1, <2>2, <3>1 DEF SamePhone, ClientsOf
      <3> QED
        BY <2>1, <3>2
    <2> QED
      BY <1>3, <1>6, <2>1, <2>2 DEF NeedsNoRoom
  <1>7. ASSUME held # NoClient
        PROVE  /\ held \in ClientsOf(m) /\ client[held].phone = phone
               /\ ~Online(held) \/ held = known
    <2>1. held \in SamePhone(m, phone)
      BY <1>3, <1>5, <1>7, PhoneFound
    <2>2. held \in Rows /\ held \in ClientsOf(m) /\ client[held].phone = phone /\ <<m, held>> \in attached
      BY <2>1 DEF SamePhone, ClientsOf
    <2>3. ASSUME client[held].user = u
          PROVE  held = known
      <3>1. known \in Rows /\ client[known].user = u
        BY <1>1, <2>2, <2>3 DEF RowOf
      <3>2. u # NoUser
        BY ClientConstants
      <3> QED
        BY <2>2, <2>3, <3>1, <3>2 DEF ReadsInv, UsersUnique
    <2> QED
      BY <1>3, <1>7, <2>2, <2>3 DEF Online
  <1>8. known \in Rows => client[known].phone = phone
    BY <1>2, <1>5, PhoneFound
  <1>9. ASSUME task'[t] = s
        PROVE  TaskReads(t)'
    <2>1. /\ task'[t].op = "resolved" /\ task'[t].invite = i /\ task'[t].phone = phone
          /\ task'[t].known = known /\ task'[t].held = held
      BY <1>4, <1>9
    <2>2. UNCHANGED <<client, attached, invite, pro>>
      BY <1>3 DEF Quiet
    <2>3. AcceptReads(t)'
      BY <1>1, <1>6, <1>7, <1>8, <2>1, <2>2
         DEF AcceptReads, CanAttach, SamePhone, ClientsOf, Online, Rows
    <2> QED
      BY <2>1, <2>3 DEF TaskReads, EntryReads, CardReads, PhoneReads
  <1> QED
    BY <1>3, <1>4, <1>9, BecomeReads

LEMMA ConsumeReads ==
    ASSUME IInv, IInv', ReadsInv, NEW t \in Tasks, Consume(t)
    PROVE  ReadsInv'
  <1> DEFINE s == [task[t] EXCEPT !.op = "consumed",
                                  !.had = ClientsOf(invite[task[t].invite].master) # {}]
  <1>1. task[t].op = "resolved" /\ Quiet
    BY DEF Consume, Quiet
  <1>2. task[t] \in Resolved
    BY <1>1, Kinds DEF IInv, Accepting
  <1>3. CASE Done(t)
    BY <1>1, <1>3, IdleType, BecomeReads
       DEF Done, TaskReads, AcceptReads, EntryReads, CardReads, PhoneReads, Accepting
  <1>4. CASE Usable(task[t].invite) /\ Become(t, s)
    <2>1. /\ s.op = "consumed" /\ s.invite = task[t].invite /\ s.known = task[t].known
          /\ s.held = task[t].held /\ s.phone = task[t].phone /\ s.raced = task[t].raced
      BY <1>2 DEF Resolved
    <2> HIDE DEF s
    <2>2. ASSUME task'[t] = s
          PROVE  TaskReads(t)'
      <3>1. AcceptReads(t)
        BY DEF ReadsInv, TaskReads
      <3>2. ~invite[task[t].invite].expired
        BY <1>4 DEF Usable
      <3>3. AcceptReads(t)'
        BY <1>1, <2>1, <2>2, <3>1, <3>2
           DEF AcceptReads, Accepting, CanAttach, SamePhone, ClientsOf, Online, Rows, Quiet
      <3> QED
        BY <2>1, <2>2, <3>3 DEF TaskReads, EntryReads, CardReads, PhoneReads
    <2> QED
      BY <1>1, <1>4, <2>2, BecomeReads
  <1> QED
    BY <1>3, <1>4 DEF Consume

LEMMA EnterByHandReads ==
    ASSUME IInv, IInv', ReadsInv, NEW t \in Tasks, NEW m \in Masters, NEW p \in Phones,
           EnterByHand(t, m, p)
    PROVE  ReadsInv'
  <1>1. PICK s : s = [op |-> "entry", master |-> m, phone |-> p, raced |-> FALSE]
    OBVIOUS
  <1>2. Become(t, s) /\ Quiet /\ CanAttach(m) /\ NoClient \in WithPhone(m, p)
    BY <1>1 DEF EnterByHand, Quiet
  <1>3. SamePhone(m, p) = {}
    BY <1>2, PhoneFound DEF IInv
  <1>4. ASSUME task'[t] = s
        PROVE  TaskReads(t)'
    <2>1. task'[t].op = "entry" /\ task'[t].master = m /\ task'[t].phone = p
      BY <1>1, <1>4
    <2>2. EntryReads(t)'
      BY <1>2, <1>3, <2>1 DEF EntryReads, CanAttach, SamePhone, ClientsOf, Rows, Quiet
    <2> QED
      BY <2>1, <2>2 DEF TaskReads, AcceptReads, CardReads, PhoneReads, Accepting
  <1> QED
    BY <1>2, <1>4, BecomeReads

LEMMA BookReads ==
    ASSUME IInv, IInv', ReadsInv, NEW t \in Tasks, NEW m \in Masters, NEW c \in Clients,
           Book(t, m, c)
    PROVE  ReadsInv'
  <1>1. PICK s : s = [op |-> "book", master |-> m, client |-> c, raced |-> FALSE]
    OBVIOUS
  <1>2. Become(t, s) /\ Quiet /\ s.op = "book"
    BY <1>1 DEF Book, Quiet
  <1> QED
    BY <1>2, BecomeReads
       DEF TaskReads, AcceptReads, EntryReads, CardReads, PhoneReads, Accepting

LEMMA OpenCardReads ==
    ASSUME IInv, IInv', ReadsInv, NEW t \in Tasks, NEW m \in Masters, NEW c \in Clients,
           OpenCard(t, m, c)
    PROVE  ReadsInv'
  <1>1. PICK s : s = [op |-> "selected", master |-> m, client |-> c]
    OBVIOUS
  <1>2. Become(t, s) /\ Quiet /\ <<m, c>> \in attached /\ ~Online(c)
    BY <1>1 DEF OpenCard, Quiet
  <1>3. c \in Rows
    BY <1>2 DEF IInv, TypeOK
  <1>4. \A n \in Masters : <<n, c>> \in attached => n = m
    BY <1>2, <1>3 DEF ReadsInv, OwnedOnce
  <1>5. ASSUME task'[t] = s
        PROVE  TaskReads(t)'
    <2>1. task'[t].op = "selected" /\ task'[t].master = m /\ task'[t].client = c
      BY <1>1, <1>5
    <2>2. CardReads(t)'
      BY <1>2, <1>3, <1>4, <2>1 DEF CardReads, Rows, Quiet
    <2> QED
      BY <2>1, <2>2 DEF TaskReads, AcceptReads, EntryReads, PhoneReads, Accepting
  <1> QED
    BY <1>2, <1>5, BecomeReads

LEMMA EditPhoneReads ==
    ASSUME IInv, IInv', ReadsInv, NEW t \in Tasks, NEW p \in Phones, EditPhone(t, p)
    PROVE  ReadsInv'
  <1>1. PICK m, c : m = task[t].master /\ c = task[t].client
    OBVIOUS
  <1>2. PICK s : s = [op |-> "masterphone", client |-> c, phone |-> p, raced |-> FALSE]
    OBVIOUS
  <1>3. /\ Become(t, s) /\ Quiet /\ task[t].op = "selected"
        /\ WithPhone(m, p) \subseteq {NoClient, c}
    BY <1>1, <1>2 DEF EditPhone, Quiet
  <1>4. SamePhone(m, p) \subseteq {c}
    BY <1>3, PhoneFound DEF IInv
  <1>5. \/ c \in Rows /\ Online(c)
        \/ \A n \in Masters : <<n, c>> \in attached => SamePhone(n, p) \subseteq {c}
    <2>1. CASE c \notin Rows
      BY <2>1 DEF IInv, TypeOK
    <2>2. CASE c \in Rows /\ ~Online(c)
      BY <1>1, <1>3, <1>4, <2>2 DEF ReadsInv, TaskReads, CardReads
    <2> QED
      BY <2>1, <2>2
  <1>6. ASSUME task'[t] = s
        PROVE  TaskReads(t)'
    <2>1. task'[t].op = "masterphone" /\ task'[t].client = c /\ task'[t].phone = p
      BY <1>2, <1>6
    <2>2. PhoneReads(t)'
      BY <1>3, <1>5, <2>1 DEF PhoneReads, SamePhone, ClientsOf, Online, Rows, Quiet
    <2> QED
      BY <2>1, <2>2 DEF TaskReads, AcceptReads, EntryReads, CardReads, Accepting
  <1> QED
    BY <1>3, <1>6, BecomeReads

LEMMA EditOwnPhoneReads ==
    ASSUME IInv, IInv', ReadsInv, NEW t \in Tasks, NEW c \in Clients, NEW p \in Phones,
           EditOwnPhone(t, c, p)
    PROVE  ReadsInv'
  <1>1. PICK s : s = [op |-> "ownphone", client |-> c, phone |-> p, raced |-> FALSE]
    OBVIOUS
  <1>2. Become(t, s) /\ Quiet /\ ~TakenAtSomeMaster(c, p)
    BY <1>1 DEF EditOwnPhone, Quiet
  <1>3. \A n \in Masters : <<n, c>> \in attached => SamePhone(n, p) \subseteq {c}
    BY <1>2, PhoneFound DEF TakenAtSomeMaster, IInv
  <1>4. ASSUME task'[t] = s
        PROVE  TaskReads(t)'
    <2>1. task'[t].op = "ownphone" /\ task'[t].client = c /\ task'[t].phone = p
      BY <1>1, <1>4
    <2>2. PhoneReads(t)'
      BY <1>2, <1>3, <2>1 DEF PhoneReads, SamePhone, ClientsOf, Rows, Quiet
    <2> QED
      BY <2>1, <2>2 DEF TaskReads, AcceptReads, EntryReads, CardReads, Accepting
  <1> QED
    BY <1>2, <1>4, BecomeReads

LEMMA RollbackReads ==
    ASSUME IInv, IInv', ReadsInv, NEW t \in Tasks, Rollback(t)
    PROVE  ReadsInv'
  BY IdleType, BecomeReads
     DEF Rollback, Done, Quiet, TaskReads, AcceptReads, EntryReads, CardReads, PhoneReads, Accepting

-----------------------------------------------------------------------------
(* Steps that bring no client. *)

LEMMA InsertBookingReads ==
    ASSUME IInv, IInv', ReadsInv, NEW t \in Tasks, NEW b \in Bookings, InsertBooking(t, b)
    PROVE  ReadsInv'
  <1>1. Done(t) /\ UNCHANGED <<client, attached, invite, gone, pro>>
    BY DEF InsertBooking
  <1>2. \A x \in Tasks : task'[x] = Idle \/ (task'[x] = task[x] /\ StillThere(x))
    BY <1>1 DEF Done, Become, IInv, TypeOK, StillThere
  <1> QED
    BY <1>1, <1>2, QuietShrinks, ShrinkStep

LEMMA InviteReads ==
    ASSUME IInv, IInv', ReadsInv, NEW i \in Invites,
           Expire(i) \/ \E m \in Masters : CreateInvite(m, i)
    PROVE  ReadsInv'
  <1>1. UNCHANGED <<client, attached, gone, pro, task>>
    BY DEF CreateInvite, Expire
  <1>2. \A j \in Invites :
            /\ invite[j].master \in Masters => invite'[j].master = invite[j].master
            /\ invite[j].expired => invite'[j].expired
    BY ClientConstants DEF CreateInvite, Expire, IInv, TypeOK, InviteRow
  <1>3. ASSUME NEW t \in Tasks
        PROVE  StillThere(t)
    <2>1. CASE task[t].op \in Accepting
      <3>1. task[t].invite \in Invites /\ invite[task[t].invite].master \in Masters
        BY <2>1, Kinds DEF Resolved, IInv, HandlersInv, ReadsStand
      <3> QED
        BY <1>1, <1>2, <3>1 DEF StillThere
    <2> QED
      BY <2>1 DEF StillThere
  <1> QED
    BY <1>1, <1>3, QuietShrinks, ShrinkStep

LEMMA DeletesShrink ==
    ASSUME IInv, NEW ms \in SUBSET Masters, NEW cs \in SUBSET Clients, Deletes(ms, cs)
    PROVE  Shrinks /\ Rows' = Rows \ cs
  <1>1. Rows' = Rows \ cs /\ \A c \in Rows' : client'[c] = client[c]
    BY DEF Deletes, Kept, Rows
  <1> QED
    BY <1>1 DEF Deletes, Shrinks

LEMMA DeleteClientReads ==
    ASSUME IInv, IInv', ReadsInv, NEW c \in Clients, DeleteClient(c)
    PROVE  ReadsInv'
  <1>1. Shrinks
    BY DeleteClientDeletes, DeletesShrink
  <1>2. /\ Online(c) /\ c \notin Rows'
        /\ attached' = attached \ (Masters \X {c}) /\ UNCHANGED <<invite, task>>
    BY DEF DeleteClient, Kept, Rows
  <1>3. \A t \in Tasks : StillThere(t)
    BY <1>2 DEF StillThere
  <1> QED
    BY <1>1, <1>2, <1>3, ShrinkStep

\* Nobody has taken the use of an invite of a master who is deleted; what is
\* left of his invites has expired.
LEMMA DeleteMasterReads ==
    ASSUME IInv, IInv', ReadsInv, NEW m \in Masters, DeleteMaster(m)
    PROVE  ReadsInv'
  <1>1. Shrinks
    BY DeleteMasterDeletes, DeletesShrink
  <1>2. /\ ~\E i \in Invites : invite[i].master = m /\ LockedInvite(i)
        /\ attached' = attached \ ({m} \X Clients)
        /\ UNCHANGED task
    BY DEF DeleteMaster
  <1>3. \A i \in Invites :
            /\ invite'[i].master = invite[i].master
            /\ invite[i].expired => invite'[i].expired
            /\ invite[i].master = m => invite'[i].expired
    BY DEF DeleteMaster, IInv, TypeOK, InviteRow
  <1>4. ASSUME NEW t \in Tasks, task[t].op \in Accepting
        PROVE  StillThere(t)
    <2>1. PICK i \in Invites : i = task[t].invite
      BY <1>4, Kinds DEF Resolved, IInv
    <2>2. CASE invite[i].master = m
      <3>1. task[t].op = "resolved"
        BY <1>2, <1>4, <2>1, <2>2 DEF LockedInvite, Accepting
      <3> QED
        BY <1>3, <2>1, <2>2, <3>1 DEF StillThere
    <2>3. CASE invite[i].master # m
      BY <1>2, <1>3, <2>1, <2>3 DEF StillThere
    <2> QED
      BY <2>2, <2>3
  <1>5. \A t \in Tasks : StillThere(t)
    BY <1>4 DEF StillThere
  <1> QED
    BY <1>1, <1>2, <1>5, ShrinkStep

-----------------------------------------------------------------------------
(* Commits: every handler in flight is overtaken, except an open card. *)

LEMMA CommitRaces ==
    ASSUME IInv, NEW t \in Tasks, NEW left, Commit(t, left)
    PROVE  /\ task'[t] = Idle
           /\ \A x \in Tasks \ {t} :
                 /\ task'[x].op = task[x].op
                 /\ task[x].op \in {"resolved", "consumed", "entry", "masterphone", "ownphone"} =>
                       task'[x].raced
                 /\ task[x].op = "selected" => task'[x] = task[x]
  <1>1. ASSUME NEW x \in Tasks, x # t,
               task[x].op \in {"resolved", "consumed", "entry", "masterphone", "ownphone"}
        PROVE  task'[x].raced
    <2>1. task'[x] = [task[x] EXCEPT !.raced = TRUE]
      BY <1>1 DEF Commit
    <2>2. task[x] \in Resolved \/ task[x] \in EntryTask \/ task[x] \in PhoneTask
      BY <1>1, Kinds DEF Accepting, IInv
    <2> QED
      BY <2>1, <2>2 DEF Resolved, EntryTask, PhoneTask
  <1>2. \A x \in Tasks \ {t} : task[x].op = "selected" => task'[x] = task[x]
    BY DEF Commit
  <1> QED
    BY <1>1, <1>2, CommitKeeps DEF IInv

LEMMA CommitReads ==
    ASSUME IInv, IInv', ReadsInv, NEW t \in Tasks, NEW left, NEW m, NEW new,
           Commit(t, left), UNCHANGED gone, Rows \subseteq Rows', UsersUnique',
           \A c \in Rows : Online(c) => Online(c)',
           \A n \in Masters, c \in Rows' :
               <<n, c>> \in attached' =>
                   \/ <<n, c>> \in attached
                   \/ c = new /\ (Online(c)' \/ (n = m /\ c \notin Rows))
    PROVE  ReadsInv'
  <1>1. attached \subseteq Masters \X Rows /\ Rows \cap gone = {} /\ Rows' \cap gone = {}
    BY DEF IInv, TypeOK
  <1>2. OwnedOnce'
    <2> SUFFICES ASSUME NEW c \in Rows', ~Online(c)', NEW n \in Masters, NEW o \in Masters,
                        <<n, c>> \in attached', <<o, c>> \in attached'
                 PROVE  n = o
      BY DEF OwnedOnce
    <2>1. CASE c \in Rows
      BY <2>1 DEF ReadsInv, OwnedOnce
    <2>2. CASE c \notin Rows
      BY <1>1, <2>2
    <2> QED
      BY <2>1, <2>2
  <1>3. FewClients'
    <2> SUFFICES ASSUME NEW n \in Masters
                 PROVE  IsFiniteSet(ClientsOf(n)')
      BY DEF FewClients
    <2>1. IsFiniteSet(ClientsOf(n) \cup {new})
      BY FS_AddElement DEF ReadsInv, FewClients
    <2>2. ClientsOf(n)' \subseteq ClientsOf(n) \cup {new}
      BY <1>1 DEF ClientsOf
    <2> QED
      BY <2>1, <2>2, FS_Subset
  <1>4. ASSUME NEW x \in Tasks
        PROVE  TaskReads(x)'
    <2>1. CASE x = t
      BY <2>1, CommitRaces, IdleType
         DEF TaskReads, AcceptReads, EntryReads, CardReads, PhoneReads, Accepting
    <2>2. CASE x # t /\ task[x].op = "selected"
      <3>1. PICK c, o : c = task[x].client /\ o = task[x].master
        OBVIOUS
      <3>2. task'[x] = task[x]
        BY <2>2, CommitRaces
      <3>3. /\ c \in Rows \cup gone
            /\ c \in Rows /\ ~Online(c) => \A n \in Masters : <<n, c>> \in attached => n = o
        BY <2>2, <3>1 DEF ReadsInv, TaskReads, CardReads
      <3>4. ASSUME c \in Rows', ~Online(c)'
            PROVE  \A n \in Masters : <<n, c>> \in attached' => n = o
        BY <1>1, <3>3, <3>4
      <3>5. CardReads(x)'
        BY <3>1, <3>2, <3>3, <3>4 DEF CardReads
      <3> QED
        BY <2>2, <3>2, <3>5 DEF TaskReads, AcceptReads, EntryReads, PhoneReads, Accepting
    <2>3. CASE x # t /\ task[x].op # "selected"
      <3>1. /\ task'[x].op = task[x].op
            /\ task[x].op \in {"resolved", "consumed", "entry", "masterphone", "ownphone"} =>
                  task'[x].raced
        BY <2>3, CommitRaces
      <3> QED
        BY <2>3, <3>1 DEF TaskReads, AcceptReads, EntryReads, CardReads, PhoneReads, Accepting
    <2> QED
      BY <2>1, <2>2, <2>3
  <1> QED
    BY <1>2, <1>3, <1>4 DEF ReadsInv

-----------------------------------------------------------------------------
(* How many clients a master has, and how many with one phone. *)

LEMMA NoGrowth ==
    ASSUME NEW n, NEW S, NEW T, IsFiniteSet(S), T \subseteq S
    PROVE  ~GrewBeyond(n, S, T)
  <1>1. Cardinality(T) <= Cardinality(S) /\ Cardinality(T) \in Nat /\ Cardinality(S) \in Nat
    BY FS_Subset, FS_CardinalityType
  <1> QED
    BY <1>1 DEF GrewBeyond

LEMMA OneMore ==
    ASSUME NEW n \in Nat, NEW S, NEW T, NEW c,
           IsFiniteSet(S), Cardinality(S) < n, T \subseteq S \cup {c}
    PROVE  ~GrewBeyond(n, S, T)
  <1>1. PICK U : U = S \cup {c}
    OBVIOUS
  <1>2. IsFiniteSet(U) /\ (Cardinality(U) = Cardinality(S) \/ Cardinality(U) = Cardinality(S) + 1)
    BY <1>1, FS_AddElement
  <1>3. IsFiniteSet(T) /\ Cardinality(T) <= Cardinality(U)
    BY <1>1, <1>2, FS_Subset
  <1>4. Cardinality(S) \in Nat /\ Cardinality(T) \in Nat /\ Cardinality(U) \in Nat
    BY <1>2, <1>3, FS_CardinalityType
  <1> QED
    BY <1>2, <1>3, <1>4 DEF GrewBeyond

LEMMA Replaced ==
    ASSUME NEW n, NEW S, NEW T, NEW a \in S, NEW b,
           IsFiniteSet(S), T \subseteq (S \ {a}) \cup {b}
    PROVE  ~GrewBeyond(n, S, T)
  <1>1. /\ IsFiniteSet(S \ {a}) /\ Cardinality(S \ {a}) = Cardinality(S) - 1
        /\ Cardinality(S) \in Nat
    BY FS_RemoveElement, FS_CardinalityType
  <1>2. /\ IsFiniteSet((S \ {a}) \cup {b})
        /\ Cardinality((S \ {a}) \cup {b}) <= Cardinality(S)
        /\ Cardinality((S \ {a}) \cup {b}) \in Nat
    BY <1>1, FS_AddElement, FS_CardinalityType
  <1>3. Cardinality(T) <= Cardinality((S \ {a}) \cup {b}) /\ Cardinality(T) \in Nat
    BY <1>2, FS_Subset, FS_CardinalityType
  <1> QED
    BY <1>1, <1>2, <1>3 DEF GrewBeyond

QuotaKept ==
    \A m \in Masters \ pro : GrewBeyond(FreeClients, ClientsOf(m), ClientsOf(m)') => Overtaken

PhonesKept ==
    \A m \in Masters, p \in Phones :
        GrewBeyond(1, SamePhone(m, p), SamePhone(m, p)') => Overtaken \/ FromOldCard

LEMMA FewWithPhone ==
    ASSUME ReadsInv, NEW m \in Masters
    PROVE  IsFiniteSet(ClientsOf(m)) /\ \A p : IsFiniteSet(SamePhone(m, p))
  <1>1. IsFiniteSet(ClientsOf(m)) /\ \A p : SamePhone(m, p) \subseteq ClientsOf(m)
    BY DEF ReadsInv, FewClients, SamePhone
  <1> QED
    BY <1>1, FS_Subset

LEMMA ShrinkKept ==
    ASSUME ReadsInv, Shrinks
    PROVE  QuotaKept /\ PhonesKept
  <1>1. ASSUME NEW m \in Masters
        PROVE  ~GrewBeyond(FreeClients, ClientsOf(m), ClientsOf(m)')
    BY ShrinkingSets, FewWithPhone, NoGrowth
  <1>2. ASSUME NEW m \in Masters, NEW p \in Phones
        PROVE  ~GrewBeyond(1, SamePhone(m, p), SamePhone(m, p)')
    BY ShrinkingSets, FewWithPhone, NoGrowth
  <1> QED
    BY <1>1, <1>2 DEF QuotaKept, PhonesKept

LEMMA RacedKept ==
    ASSUME NEW t \in Tasks, task'[t] = Idle, task[t].op \notin {"idle", "selected"},
           task[t].raced
    PROVE  QuotaKept /\ PhonesKept
  BY IdleType DEF QuotaKept, PhonesKept, Overtaken, Free

\* One client comes where there was room, with a phone no other has.
LEMMA ArrivalKept ==
    ASSUME IInv, ReadsInv, NEW m \in Masters, NEW c, NEW phone, CanAttach(m),
           SamePhone(m, phone) = {},
           \A x \in Rows : x \in Rows' /\ client'[x] = client[x],
           \A n \in Masters, x \in Rows' :
               <<n, x>> \in attached' => <<n, x>> \in attached \/ (n = m /\ x = c),
           client'[c].phone = phone
    PROVE  QuotaKept /\ PhonesKept
  <1>1. attached \subseteq Masters \X Rows
    BY DEF IInv, TypeOK
  <1>2. ASSUME NEW n \in Masters \ pro
        PROVE  ~GrewBeyond(FreeClients, ClientsOf(n), ClientsOf(n)')
    <2>1. CASE n = m
      <3>1. Cardinality(ClientsOf(n)) < FreeClients /\ FreeClients \in Nat
        BY <1>2, <2>1, ClientConstants DEF CanAttach
      <3>2. ClientsOf(n)' \subseteq ClientsOf(n) \cup {c}
        BY <1>1 DEF ClientsOf
      <3> QED
        BY <3>1, <3>2, OneMore, FewWithPhone
    <2>2. CASE n # m
      <3>1. ClientsOf(n)' \subseteq ClientsOf(n)
        BY <1>1, <2>2 DEF ClientsOf
      <3> QED
        BY <3>1, NoGrowth, FewWithPhone
    <2> QED
      BY <2>1, <2>2
  <1>3. ASSUME NEW n \in Masters, NEW p \in Phones
        PROVE  ~GrewBeyond(1, SamePhone(n, p), SamePhone(n, p)')
    <2>1. CASE n = m /\ p = phone
      <3>1. SamePhone(n, p)' \subseteq SamePhone(n, p) \cup {c}
        BY <1>1, <2>1 DEF SamePhone, ClientsOf
      <3>2. Cardinality(SamePhone(n, p)) < 1
        BY <2>1, FS_EmptySet
      <3> QED
        BY <3>1, <3>2, OneMore, FewWithPhone
    <2>2. CASE ~(n = m /\ p = phone)
      <3>1. SamePhone(n, p)' \subseteq SamePhone(n, p)
        BY <1>1, <2>2 DEF SamePhone, ClientsOf
      <3> QED
        BY <3>1, NoGrowth, FewWithPhone
    <2> QED
      BY <2>1, <2>2
  <1> QED
    BY <1>2, <1>3 DEF QuotaKept, PhonesKept

-----------------------------------------------------------------------------
(* The commits one by one. *)

LEMMA MergeReads ==
    ASSUME IInv, IInv', ReadsInv, NEW t \in Tasks, Merge(t)
    PROVE  ReadsInv' /\ QuotaKept /\ PhonesKept
  <1>1. task[t].op = "consumed"
    BY DEF Merge
  <1>2. PICK m \in Masters : m = invite[task[t].invite].master
    BY <1>1, Consumed
  <1>3. PICK held \in Clients : held = task[t].held
    BY <1>1, Consumed DEF Resolved, Merge
  <1>4. PICK known \in Rows : known = task[t].known
    BY DEF Merge
  <1>5. /\ held \notin {NoClient, known} /\ Online(known)
        /\ attached' = (attached \ {<<m, held>>}) \cup {<<m, known>>}
        /\ Commit(t, {held}) /\ Admitted(t) /\ UNCHANGED <<client, pro>>
    <2>1. Online(known)
      BY <1>1, <1>4, Consumed
    <2>2. Commit(t, {held})
      BY <1>3 DEF Merge, Commit
    <2> QED
      BY <1>2, <1>3, <1>4, <2>1, <2>2 DEF Merge
  <1>6. Rows' = Rows /\ gone' = gone /\ \A c \in Rows : Online(c)' <=> Online(c)
    BY <1>5 DEF Rows, Online, Admitted
  <1>7. ReadsInv'
    <2>1. UsersUnique'
      BY <1>5, <1>6 DEF ReadsInv, UsersUnique
    <2>2. \A n \in Masters, c \in Rows' :
              <<n, c>> \in attached' =>
                  \/ <<n, c>> \in attached
                  \/ c = known /\ (Online(c)' \/ (n = m /\ c \notin Rows))
      BY <1>5, <1>6
    <2>3. UNCHANGED gone /\ Rows \subseteq Rows' /\ \A c \in Rows : Online(c) => Online(c)'
      BY <1>6
    <2> QED
      BY <1>5, <2>1, <2>2, <2>3, CommitReads
  <1>8. QuotaKept /\ PhonesKept
    <2>1. CASE task[t].raced
      BY <1>1, <1>5, <2>1, CommitRaces, RacedKept
    <2>2. CASE ~task[t].raced
      <3>1. PICK phone : phone = task[t].phone
        OBVIOUS
      <3>2. held \in ClientsOf(m) /\ client[held].phone = phone /\ client[known].phone = phone
        BY <1>1, <1>2, <1>3, <1>4, <1>5, <2>2, <3>1 DEF ReadsInv, TaskReads, AcceptReads, Accepting
      <3>3. ASSUME NEW n \in Masters \ pro
            PROVE  ~GrewBeyond(FreeClients, ClientsOf(n), ClientsOf(n)')
        <4>1. CASE n = m
          <5>1. ClientsOf(n)' \subseteq (ClientsOf(n) \ {held}) \cup {known}
            BY <1>5, <1>6, <4>1 DEF ClientsOf
          <5> QED
            BY <3>2, <4>1, <5>1, Replaced, FewWithPhone
        <4>2. CASE n # m
          <5>1. ClientsOf(n)' \subseteq ClientsOf(n)
            BY <1>5, <1>6, <4>2 DEF ClientsOf
          <5> QED
            BY <5>1, NoGrowth, FewWithPhone
        <4> QED
          BY <4>1, <4>2
      <3>4. ASSUME NEW n \in Masters, NEW p \in Phones
            PROVE  ~GrewBeyond(1, SamePhone(n, p), SamePhone(n, p)')
        <4>1. CASE n = m /\ p = phone
          <5>1. held \in SamePhone(n, p)
            BY <3>2, <4>1 DEF SamePhone
          <5>2. SamePhone(n, p)' \subseteq (SamePhone(n, p) \ {held}) \cup {known}
            BY <1>5, <1>6, <4>1 DEF SamePhone, ClientsOf
          <5> QED
            BY <5>1, <5>2, Replaced, FewWithPhone
        <4>2. CASE ~(n = m /\ p = phone)
          <5>1. SamePhone(n, p)' \subseteq SamePhone(n, p)
            BY <1>5, <1>6, <3>2, <4>2 DEF SamePhone, ClientsOf
          <5> QED
            BY <5>1, NoGrowth, FewWithPhone
        <4> QED
          BY <4>1, <4>2
      <3> QED
        BY <3>3, <3>4 DEF QuotaKept, PhonesKept
    <2> QED
      BY <2>1, <2>2
  <1> QED
    BY <1>7, <1>8

LEMMA AttachKnownReads ==
    ASSUME IInv, IInv', ReadsInv, NEW t \in Tasks, AttachKnown(t)
    PROVE  ReadsInv' /\ QuotaKept /\ PhonesKept
  <1>1. task[t].op = "consumed"
    BY DEF AttachKnown
  <1>2. PICK m \in Masters : m = invite[task[t].invite].master
    BY <1>1, Consumed
  <1>3. PICK known \in Rows : known = task[t].known
    BY DEF AttachKnown
  <1>4. /\ task[t].held \in {NoClient, known} /\ Online(known)
        /\ attached' = attached \cup {<<m, known>>}
        /\ Commit(t, {}) /\ Admitted(t) /\ UNCHANGED <<client, pro>>
    BY <1>1, <1>2, <1>3, Consumed DEF AttachKnown
  <1>5. Rows' = Rows /\ gone' = gone /\ \A c \in Rows : Online(c)' <=> Online(c)
    BY <1>4 DEF Rows, Online, Admitted
  <1>6. ReadsInv'
    <2>1. UsersUnique'
      BY <1>4, <1>5 DEF ReadsInv, UsersUnique
    <2>2. \A n \in Masters, c \in Rows' :
              <<n, c>> \in attached' =>
                  \/ <<n, c>> \in attached
                  \/ c = known /\ (Online(c)' \/ (n = m /\ c \notin Rows))
      BY <1>4, <1>5
    <2>3. UNCHANGED gone /\ Rows \subseteq Rows' /\ \A c \in Rows : Online(c) => Online(c)'
      BY <1>5
    <2> QED
      BY <1>4, <2>1, <2>2, <2>3, CommitReads
  <1>7. CASE task[t].raced
    BY <1>1, <1>4, <1>6, <1>7, CommitRaces, RacedKept
  <1>8. CASE ~task[t].raced
    <2>1. PICK phone : phone = task[t].phone
      OBVIOUS
    <2>2. AcceptReads(t) /\ known # NoClient
      BY <1>3, PhoneFound DEF ReadsInv, TaskReads, IInv
    <2>3. CASE task[t].held = known
      <3>1. known \in ClientsOf(m)
        BY <1>1, <1>2, <1>3, <1>8, <2>2, <2>3 DEF AcceptReads, Accepting
      <3>2. UNCHANGED <<client, attached, gone, pro>>
        BY <1>4, <1>5, <3>1 DEF ClientsOf
      <3> QED
        BY <1>6, <3>2, QuietShrinks, ShrinkKept
    <2>5. CASE task[t].held = NoClient
      <3>1. CanAttach(m) /\ SamePhone(m, phone) = {} /\ client[known].phone = phone
        BY <1>1, <1>2, <1>3, <1>8, <2>1, <2>2, <2>5 DEF AcceptReads, Accepting
      <3> QED
        BY <1>4, <1>5, <1>6, <3>1, ArrivalKept
    <2> QED
      BY <1>4, <2>3, <2>5
  <1> QED
    BY <1>7, <1>8

\* The user was not in the table: UNIQUE (telegram_id).
LEMMA ClaimReads ==
    ASSUME IInv, IInv', ReadsInv, NEW t \in Tasks, Claim(t)
    PROVE  ReadsInv' /\ QuotaKept /\ PhonesKept
  <1>1. task[t].op = "consumed"
    BY DEF Claim
  <1>2. PICK m \in Masters : m = invite[task[t].invite].master
    BY <1>1, Consumed
  <1>3. PICK held \in Rows : held = task[t].held
    BY DEF Claim
  <1>4. PICK u \in Users : u = task[t].user
    BY <1>1, Consumed DEF Resolved
  <1>5. /\ client' = [client EXCEPT ![held].user = u]
        /\ ~\E c \in Rows \ {held} : client[c].user = u
        /\ attached' = attached \cup {<<m, held>>}
        /\ Commit(t, {}) /\ Admitted(t) /\ UNCHANGED pro
    BY <1>2, <1>3, <1>4 DEF Claim
  <1>6. client \in [Rows -> Row] /\ u # NoUser /\ NoClient \notin Rows
    BY ClientConstants DEF IInv, TypeOK
  <1>7. /\ Rows' = Rows /\ gone' = gone
        /\ \A c \in Rows : /\ client'[c].user = IF c = held THEN u ELSE client[c].user
                           /\ client'[c].phone = client[c].phone
    <2>1. Rows' = Rows /\ gone' = gone
      BY <1>5 DEF Rows, Admitted
    <2>2. ASSUME NEW c \in Rows
          PROVE  /\ client'[c].user = IF c = held THEN u ELSE client[c].user
                 /\ client'[c].phone = client[c].phone
      <3>1. client[c] \in Row
        BY <1>6
      <3>2. CASE c = held
        <4>1. client'[c] = [client[c] EXCEPT !.user = u]
          BY <1>5, <1>6, <3>2
        <4> QED
          BY <3>1, <3>2, <4>1 DEF Row
      <3>3. CASE c # held
        BY <1>5, <1>6, <3>3
      <3> QED
        BY <3>2, <3>3
    <2> QED
      BY <2>1, <2>2
  <1>8. ReadsInv'
    <2>1. UsersUnique'
      BY <1>5, <1>7 DEF ReadsInv, UsersUnique
    <2>2. \A c \in Rows : Online(c) => Online(c)'
      BY <1>6, <1>7 DEF Online
    <2>3. Online(held)'
      BY <1>3, <1>6, <1>7 DEF Online
    <2>4. \A n \in Masters, c \in Rows' :
              <<n, c>> \in attached' =>
                  \/ <<n, c>> \in attached
                  \/ c = held /\ (Online(c)' \/ (n = m /\ c \notin Rows))
      BY <1>5, <2>3
    <2>5. UNCHANGED gone /\ Rows \subseteq Rows'
      BY <1>7
    <2> QED
      BY <1>5, <2>1, <2>2, <2>4, <2>5, CommitReads
  <1>9. CASE task[t].raced
    BY <1>1, <1>5, <1>8, <1>9, CommitRaces, RacedKept
  <1>10. CASE ~task[t].raced
    <2>1. held \in ClientsOf(m)
      BY <1>1, <1>2, <1>3, <1>6, <1>10 DEF Claim, ReadsInv, TaskReads, AcceptReads, Accepting
    <2>2. UNCHANGED attached
      BY <1>5, <2>1 DEF ClientsOf
    <2>3. \A n \in Masters : ClientsOf(n)' = ClientsOf(n)
      BY <1>7, <2>2 DEF ClientsOf
    <2>4. \A n \in Masters, p \in Phones : SamePhone(n, p)' \subseteq SamePhone(n, p)
      BY <1>7, <2>2 DEF SamePhone, ClientsOf
    <2>5. ASSUME NEW n \in Masters
          PROVE  ~GrewBeyond(FreeClients, ClientsOf(n), ClientsOf(n)')
      BY <2>3, NoGrowth, FewWithPhone
    <2>6. ASSUME NEW n \in Masters, NEW p \in Phones
          PROVE  ~GrewBeyond(1, SamePhone(n, p), SamePhone(n, p)')
      BY <2>4, NoGrowth, FewWithPhone
    <2> QED
      BY <1>8, <2>5, <2>6 DEF QuotaKept, PhonesKept
  <1> QED
    BY <1>9, <1>10

\* A row comes with an id that was never used.
LEMMA EntryKept ==
    ASSUME IInv, IInv', ReadsInv, NEW t \in Tasks, NEW m \in Masters, NEW c \in Clients,
           NEW row, NEW phone, row.phone = phone,
           \/ row.user = NoUser
           \/ row.user # NoUser /\ ~Registered(row.user),
           c \notin Rows \cup gone, Enter(c, row), attached' = attached \cup {<<m, c>>},
           Commit(t, {}), UNCHANGED <<gone, pro>>, task[t].op \notin {"idle", "selected"},
           ~task[t].raced => CanAttach(m) /\ SamePhone(m, phone) = {}
    PROVE  ReadsInv' /\ QuotaKept /\ PhonesKept
  <1>1. /\ Rows' = Rows \cup {c}
        /\ \A x \in Rows : client'[x] = client[x]
        /\ client'[c] = row
    BY DEF Enter, Rows
  <1>2. ReadsInv'
    <2>1. UsersUnique'
      BY <1>1 DEF ReadsInv, UsersUnique, Registered
    <2>2. \A x \in Rows : Online(x) => Online(x)'
      BY <1>1 DEF Online
    <2>3. \A n \in Masters, x \in Rows' :
              <<n, x>> \in attached' =>
                  \/ <<n, x>> \in attached
                  \/ x = c /\ (Online(x)' \/ (n = m /\ x \notin Rows))
      OBVIOUS
    <2> QED
      BY <1>1, <2>1, <2>2, <2>3, CommitReads
  <1>3. CASE task[t].raced
    BY <1>2, <1>3, CommitRaces, RacedKept
  <1>4. CASE ~task[t].raced
    <2>1. \A n \in Masters, x \in Rows' :
              <<n, x>> \in attached' => <<n, x>> \in attached \/ (n = m /\ x = c)
      OBVIOUS
    <2> QED
      BY <1>1, <1>2, <1>4, <2>1, ArrivalKept
  <1> QED
    BY <1>3, <1>4

LEMMA CreateOnlineReads ==
    ASSUME IInv, IInv', ReadsInv, NEW t \in Tasks, NEW c \in Clients, CreateOnline(t, c)
    PROVE  ReadsInv' /\ QuotaKept /\ PhonesKept
  <1>1. task[t].op = "consumed"
    BY DEF CreateOnline
  <1>2. PICK m \in Masters : m = invite[task[t].invite].master
    BY <1>1, Consumed
  <1>3. PICK row : row = [user |-> task[t].user, phone |-> task[t].phone]
    OBVIOUS
  <1>4. /\ row.phone = task[t].phone /\ row.user = task[t].user
        /\ row.user # NoUser /\ ~Registered(row.user)
    BY <1>1, <1>3, Consumed, ClientConstants DEF Resolved, CreateOnline
  <1>5. /\ c \notin Rows \cup gone /\ Enter(c, row)
        /\ attached' = attached \cup {<<m, c>>}
        /\ Commit(t, {}) /\ UNCHANGED <<gone, pro>>
    BY <1>2, <1>3 DEF CreateOnline, Enter, Admitted
  <1>6. ~task[t].raced => CanAttach(m) /\ SamePhone(m, task[t].phone) = {}
    BY <1>1, <1>2 DEF CreateOnline, ReadsInv, TaskReads, AcceptReads, Accepting
  <1> QED
    BY <1>1, <1>4, <1>5, <1>6, EntryKept

LEMMA CreateOfflineReads ==
    ASSUME IInv, IInv', ReadsInv, NEW t \in Tasks, NEW c \in Clients, CreateOffline(t, c)
    PROVE  ReadsInv' /\ QuotaKept /\ PhonesKept
  <1>1. task[t].op = "entry" /\ task[t] \in EntryTask
    BY Kinds DEF IInv, CreateOffline
  <1>2. PICK m \in Masters : m = task[t].master
    BY <1>1 DEF EntryTask
  <1>3. PICK row : row = [user |-> NoUser, phone |-> task[t].phone]
    OBVIOUS
  <1>4. row.phone = task[t].phone /\ row.user = NoUser
    BY <1>3
  <1>5. /\ c \notin Rows \cup gone /\ Enter(c, row)
        /\ attached' = attached \cup {<<m, c>>}
        /\ Commit(t, {}) /\ UNCHANGED <<gone, pro>>
    BY <1>2, <1>3 DEF CreateOffline, Enter
  <1>6. ~task[t].raced => CanAttach(m) /\ SamePhone(m, task[t].phone) = {}
    BY <1>1, <1>2 DEF ReadsInv, TaskReads, EntryReads
  <1> QED
    BY <1>1, <1>4, <1>5, <1>6, EntryKept

LEMMA WritePhoneReads ==
    ASSUME IInv, IInv', ReadsInv, NEW t \in Tasks, WritePhone(t)
    PROVE  ReadsInv' /\ QuotaKept /\ PhonesKept
  <1>1. task[t].op \in {"masterphone", "ownphone"}
    BY DEF WritePhone
  <1>2. PICK c : c = task[t].client
    OBVIOUS
  <1>3. PICK phone : phone = task[t].phone
    OBVIOUS
  <1>4. /\ client' = [x \in Rows |-> IF x = c THEN [client[x] EXCEPT !.phone = phone]
                                     ELSE client[x]]
        /\ Commit(t, {}) /\ UNCHANGED <<attached, gone, pro>>
    BY <1>2, <1>3 DEF WritePhone
  <1>5. Rows' = Rows /\ attached \subseteq Masters \X Rows
    BY <1>4 DEF Rows, IInv, TypeOK
  <1>6. \A x \in Rows : /\ client'[x].user = client[x].user
                        /\ client'[x].phone = IF x = c THEN phone ELSE client[x].phone
    <2>1. \A x \in Rows : client[x] \in Row
      BY DEF IInv, TypeOK
    <2> QED
      BY <1>4, <2>1 DEF Row
  <1>7. ReadsInv'
    <2>1. UsersUnique'
      BY <1>5, <1>6 DEF ReadsInv, UsersUnique
    <2>2. \A x \in Rows : Online(x) => Online(x)'
      BY <1>6 DEF Online
    <2> QED
      BY <1>4, <1>5, <2>1, <2>2, CommitReads
  <1>8. CASE task[t].raced
    BY <1>1, <1>4, <1>7, <1>8, CommitRaces, RacedKept
  <1>9. CASE ~task[t].raced
    <2>1. \A n \in Masters : ClientsOf(n)' = ClientsOf(n)
      BY <1>4, <1>5 DEF ClientsOf
    <2>2. QuotaKept
      BY <2>1, NoGrowth, FewWithPhone DEF QuotaKept
    <2>3. CASE task[t].op = "masterphone" /\ c \in Rows /\ Online(c)
      <3>1. task'[t] = Idle
        BY <1>4, CommitRaces
      <3>2. FromOldCard
        BY <1>2, <2>3, <3>1 DEF FromOldCard
      <3> QED
        BY <1>7, <2>2, <3>2 DEF PhonesKept
    <2>4. CASE \A n \in Masters : <<n, c>> \in attached => SamePhone(n, phone) \subseteq {c}
      <3>1. ASSUME NEW n \in Masters, NEW p \in Phones
            PROVE  ~GrewBeyond(1, SamePhone(n, p), SamePhone(n, p)')
        <4>1. CASE p = phone /\ <<n, c>> \in attached
          <5>1. SamePhone(n, p)' \subseteq {c}
            BY <1>4, <1>5, <1>6, <2>4, <4>1 DEF SamePhone, ClientsOf
          <5>2. IsFiniteSet({c}) /\ Cardinality({c}) = 1
            BY FS_Singleton
          <5>3. IsFiniteSet(SamePhone(n, p)') /\ Cardinality(SamePhone(n, p)') <= 1
            BY <5>1, <5>2, FS_Subset
          <5>4. Cardinality(SamePhone(n, p)') \in Nat
            BY <5>3, FS_CardinalityType
          <5> QED
            BY <5>3, <5>4 DEF GrewBeyond
        <4>2. CASE ~(p = phone /\ <<n, c>> \in attached)
          <5>1. SamePhone(n, p)' \subseteq SamePhone(n, p)
            BY <1>4, <1>5, <1>6, <4>2 DEF SamePhone, ClientsOf
          <5> QED
            BY <5>1, NoGrowth, FewWithPhone
        <4> QED
          BY <4>1, <4>2
      <3> QED
        BY <1>7, <2>2, <3>1 DEF PhonesKept
    <2> QED
      BY <1>1, <1>2, <1>3, <1>9, <2>3, <2>4 DEF ReadsInv, TaskReads, PhoneReads
  <1> QED
    BY <1>8, <1>9

-----------------------------------------------------------------------------
(* Every step. *)

LEMMA InitReads ==
    ASSUME Init
    PROVE  ReadsInv
  <1>1. UsersUnique
    BY ClientConstants DEF Init, UsersUnique, Rows
  <1>2. OwnedOnce
    BY DEF Init, OwnedOnce
  <1>3. FewClients
    BY FS_EmptySet DEF Init, FewClients, ClientsOf
  <1>4. \A t \in Tasks : TaskReads(t)
    BY IdleType DEF Init, TaskReads, AcceptReads, EntryReads, CardReads, PhoneReads, Accepting
  <1> QED
    BY <1>1, <1>2, <1>3, <1>4 DEF ReadsInv

LEMMA ReadsStep ==
    ASSUME IInv, IInv', ReadsInv, [Next]_vars
    PROVE  ReadsInv' /\ QuotaKept /\ PhonesKept
  <1>1. CASE \/ \E m \in Masters, i \in Invites : CreateInvite(m, i)
             \/ \E i \in Invites : Expire(i)
    <2>1. UNCHANGED <<client, attached, gone, pro>>
      BY <1>1 DEF CreateInvite, Expire
    <2> QED
      BY <1>1, <2>1, InviteReads, QuietShrinks, ShrinkKept
  <1>2. CASE \E c \in Clients : DeleteClient(c)
    BY <1>2, DeleteClientReads, DeleteClientDeletes, DeletesShrink, ShrinkKept
  <1>3. CASE \E m \in Masters : DeleteMaster(m)
    BY <1>3, DeleteMasterReads, DeleteMasterDeletes, DeletesShrink, ShrinkKept
  <1>4. CASE UNCHANGED vars
    <2>1. \A t \in Tasks : StillThere(t)
      BY <1>4 DEF vars, StillThere
    <2>2. UNCHANGED <<client, attached, gone, pro, task>>
      BY <1>4 DEF vars
    <2> QED
      BY <2>1, <2>2, QuietShrinks, ShrinkStep, ShrinkKept
  <1>5. ASSUME NEW t \in Tasks,
               \/ Consume(t) \/ Rollback(t)
               \/ \E u \in Users, i \in Invites, p \in Phones : Resolve(t, u, i, p)
               \/ \E m \in Masters, p \in Phones : EnterByHand(t, m, p)
               \/ \E m \in Masters, c \in Clients : Book(t, m, c) \/ OpenCard(t, m, c)
               \/ \E b \in Bookings : InsertBooking(t, b)
               \/ \E p \in Phones : EditPhone(t, p)
               \/ \E c \in Clients, p \in Phones : EditOwnPhone(t, c, p)
        PROVE  ReadsInv' /\ QuotaKept /\ PhonesKept
    <2>1. CASE Consume(t) \/ Rollback(t)
      <3>1. UNCHANGED <<client, attached, gone, pro>>
        BY <2>1 DEF Consume, Rollback
      <3> QED
        BY <2>1, <3>1, ConsumeReads, RollbackReads, QuietShrinks, ShrinkKept
    <2>2. CASE \E u \in Users, i \in Invites, p \in Phones : Resolve(t, u, i, p)
      <3>1. PICK u \in Users, i \in Invites, p \in Phones : Resolve(t, u, i, p)
        BY <2>2
      <3>2. UNCHANGED <<client, attached, gone, pro>>
        BY <3>1 DEF Resolve
      <3> QED
        BY <3>1, <3>2, ResolveReads, QuietShrinks, ShrinkKept
    <2>3. CASE \E m \in Masters, p \in Phones : EnterByHand(t, m, p)
      <3>1. UNCHANGED <<client, attached, gone, pro>>
        BY <2>3 DEF EnterByHand
      <3> QED
        BY <2>3, <3>1, EnterByHandReads, QuietShrinks, ShrinkKept
    <2>4. CASE \E m \in Masters, c \in Clients : Book(t, m, c) \/ OpenCard(t, m, c)
      <3>1. UNCHANGED <<client, attached, gone, pro>>
        BY <2>4 DEF Book, OpenCard
      <3> QED
        BY <2>4, <3>1, BookReads, OpenCardReads, QuietShrinks, ShrinkKept
    <2>5. CASE \E b \in Bookings : InsertBooking(t, b)
      <3>1. UNCHANGED <<client, attached, gone, pro>>
        BY <2>5 DEF InsertBooking
      <3> QED
        BY <2>5, <3>1, InsertBookingReads, QuietShrinks, ShrinkKept
    <2>6. CASE \/ \E p \in Phones : EditPhone(t, p)
               \/ \E c \in Clients, p \in Phones : EditOwnPhone(t, c, p)
      <3>1. UNCHANGED <<client, attached, gone, pro>>
        BY <2>6 DEF EditPhone, EditOwnPhone
      <3> QED
        BY <2>6, <3>1, EditPhoneReads, EditOwnPhoneReads, QuietShrinks, ShrinkKept
    <2> QED
      BY <1>5, <2>1, <2>2, <2>3, <2>4, <2>5, <2>6
  <1>6. ASSUME NEW t \in Tasks,
               \/ Merge(t) \/ AttachKnown(t) \/ Claim(t) \/ WritePhone(t)
               \/ \E c \in Clients : CreateOnline(t, c) \/ CreateOffline(t, c)
        PROVE  ReadsInv' /\ QuotaKept /\ PhonesKept
    BY <1>6, MergeReads, AttachKnownReads, ClaimReads, WritePhoneReads, CreateOnlineReads,
       CreateOfflineReads
  <1>7. CASE \E m \in Masters : ReserveNudge(m) \/ SettleNudge(m) \/ RetryNudge(m)
    <2>1. UNCHANGED <<client, attached, invite, gone, pro, task>>
      BY <1>7, WorkerKeeps
    <2>2. \A t \in Tasks : StillThere(t)
      BY <2>1 DEF StillThere
    <2> QED
      BY <2>1, <2>2, QuietShrinks, ShrinkStep, ShrinkKept
  <1> QED
    BY <1>1, <1>2, <1>3, <1>4, <1>5, <1>6, <1>7 DEF Next, Accepts

LEMMA ReadsInductive == Spec => [](IInv /\ ReadsInv)
  <1>1. Init => IInv /\ ReadsInv
    BY InitIInv, InitReads
  <1>2. IInv /\ ReadsInv /\ [Next]_vars => IInv' /\ ReadsInv'
    BY StepKeeps, ReadsStep
  <1> QED
    BY <1>1, <1>2, PTL DEF Spec

\* can_attach_client is read in the transaction that writes, but not locked: a
\* master on the free plan gets more clients than FREE_CLIENTS_LIMIT only by a
\* handler that another has overtaken, whatever the limit and however many
\* masters, users, invites and handlers there are.
THEOREM QuotaUnlessRacedHolds == Spec => QuotaUnlessRaced
  <1>1. IInv /\ ReadsInv /\ IInv' /\ [Next]_vars => [QuotaKept]_vars
    BY ReadsStep
  <1> QED
    BY <1>1, ReadsInductive, PTL DEF Spec, QuotaUnlessRaced, QuotaKept

\* A master comes to two clients with one phone only by a handler another has
\* overtaken, or by writing the phone of a Telegram user from a card opened
\* when the client was not one yet.
THEOREM OnePhoneUnlessRacedHolds == Spec => OnePhoneUnlessRaced
  <1>1. IInv /\ ReadsInv /\ IInv' /\ [Next]_vars => [PhonesKept]_vars
    BY ReadsStep
  <1> QED
    BY <1>1, ReadsInductive, PTL DEF Spec, OnePhoneUnlessRaced, PhonesKept
=============================================================================
