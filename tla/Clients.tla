------------------------------- MODULE Clients -------------------------------
(***************************************************************************)
(* Who is a client of whom: invites and their acceptance                   *)
(* (use_cases/accept_client_invite.py, create_master_client_invite.py),    *)
(* clients a master enters by hand (create_client_offline.py), the phone   *)
(* either side edits, the bookings that follow a client who turns out to   *)
(* be one entered by hand before, and the deletion of personal data.       *)
(*                                                                         *)
(* A use case runs in one transaction at READ COMMITTED: it reads, decides *)
(* and writes, and another may commit in between.  Accepting an invite     *)
(* takes the lock of its row (the conditional UPDATE of used_count) before *)
(* the writes, and keeps it until the commit.  Names and aliases are left  *)
(* out.                                                                    *)
(***************************************************************************)
EXTENDS Integers, FiniteSets

CONSTANTS
    Masters, Users,  \* Telegram accounts
    Clients,         \* clients.id, handed out by the sequence
    Phones,
    Invites,         \* rows of the invites table; each may be used once
    Bookings,
    Tasks,           \* handlers that may be in flight together
    FirstPro,        \* bound: who may be on a plan without limit
    FreeClients,     \* FREE_CLIENTS_LIMIT
    FirstClients,    \* bound: the clients table to begin with
    NoUser, NoClient, NoMaster

Row == [user : Users \cup {NoUser}, phone : Phones]

ASSUME ClientConstants ==
    /\ Masters \cap Clients = {}
    /\ \A rows \in FirstClients :
          /\ DOMAIN rows \subseteq Clients /\ rows \in [DOMAIN rows -> Row]
          /\ \A c, d \in DOMAIN rows : rows[c].user = rows[d].user => c = d \/ rows[c].user = NoUser
    /\ FirstPro \subseteq SUBSET Masters
    /\ FreeClients \in Nat \ {0}
    /\ NoUser \notin Users /\ NoClient \notin Clients /\ NoMaster \notin Masters

VARIABLES
    client,    \* the committed rows of the clients table, by id
    attached,  \* master_clients
    invite,    \* the invites table: whose, how often used, expired
    booking,   \* bookings.master_id and client_id; who made it
    nudged,    \* masters whose job "add your first client" waits in the outbox
    inhand,    \* masters whose job the reminders worker has in hand
    late,      \* history: masters whose job was cancelled while in hand and is not done with
    gone,      \* masters and clients whose rows were deleted
    pro,       \* masters whose plan has no limit; fixed while handlers are in flight
    task,      \* the handlers in flight
    admitted   \* history: the users an invite let in

nudges == <<nudged, inhand, late>>

vars == <<client, attached, invite, booking, nudges, gone, pro, task, admitted>>

-----------------------------------------------------------------------------
InviteRow == [master : Masters \cup {NoMaster}, used : Nat, expired : BOOLEAN]

\* raced: its client was merged away between the handler's check and its insert
BookingRow == [master : Masters, client : Clients, raced : BOOLEAN]

Idle == [op |-> "idle"]

\* raced, a history: another handler wrote clients after this one had read them;
\* had: the master had clients when the invite was consumed
Resolved == [op : {"resolved", "consumed"}, invite : Invites, user : Users, phone : Phones,
             known : Clients \cup {NoClient}, held : Clients \cup {NoClient},
             had : BOOLEAN, raced : BOOLEAN]

EntryTask == [op : {"entry"}, master : Masters, phone : Phones, raced : BOOLEAN]

BookTask == [op : {"book"}, master : Masters, client : Clients, raced : BOOLEAN]

\* selected: the master has the client's card open; phone: the new one is checked
CardTask == [op : {"selected"}, master : Masters, client : Clients]

PhoneTask == [op : {"masterphone", "ownphone"}, client : Clients, phone : Phones,
              raced : BOOLEAN]

Task == {Idle} \cup Resolved \cup EntryTask \cup BookTask \cup CardTask \cup PhoneTask

Rows == DOMAIN client

Online(c) == client[c].user # NoUser

ClientsOf(m) == {c \in Rows : <<m, c>> \in attached}

\* the row of a user (telegram_id is unique), or none
RowOf(u) == IF \E c \in Rows : client[c].user = u
            THEN CHOOSE c \in Rows : client[c].user = u ELSE NoClient

\* Mutant: only clients entered by hand are looked up.
WithPhoneOffline(m, p) ==
    LET found == {c \in ClientsOf(m) : client[c].phone = p /\ ~Online(c)}
    IN  IF found = {} THEN {NoClient} ELSE found

\* find_for_master_by_phone: any of them, LIMIT 1
WithPhone(m, p) ==
    LET found == {c \in ClientsOf(m) : client[c].phone = p}
    IN  IF found = {} THEN {NoClient} ELSE found

\* Mutant: the limit is compared with <=.
CanAttachOneMore(m) == m \in pro \/ Cardinality(ClientsOf(m)) <= FreeClients

CanAttach(m) == m \in pro \/ Cardinality(ClientsOf(m)) < FreeClients

Become(t, state) == task' = [task EXCEPT ![t] = state]

Done(t) == Become(t, Idle)

Free(t) == task[t] = Idle

\* The handler commits what it wrote of clients; left are no longer whose they
\* were.  What the others in flight have read is no longer so.
Commit(t, left) ==
    task' = [x \in Tasks |->
        CASE x = t -> Idle
          [] x # t /\ task[x].op = "book" ->
                [task[x] EXCEPT !.raced = @ \/ task[x].client \in left]
          [] x # t /\ task[x].op \in {"resolved", "consumed", "entry", "masterphone", "ownphone"} ->
                [task[x] EXCEPT !.raced = TRUE]
          [] OTHER -> task[x]]

Kept(S, f) == [x \in S |-> f[x]]

\* Mutant: the jobs are not cancelled.
LeaveNudge(m) == UNCHANGED nudges

\* cancel_onboarding_for_master; a worker that has the job in hand is not told
CancelNudge(m) ==
    /\ nudged' = nudged \ {m}
    /\ late' = (late \ {m}) \cup ({m} \cap inhand)
    /\ inhand' = inhand

\* the nudging ends with the first client
Welcomed(m, had) == IF had THEN UNCHANGED nudges ELSE CancelNudge(m)

\* Mutant: the bookings have no ON DELETE CASCADE.
BookingsLeft(ms, cs) == booking

\* what the deletion of masters and clients leaves of the bookings
BookingsWithout(ms, cs) ==
    [b \in {x \in DOMAIN booking : booking[x].master \notin ms /\ booking[x].client \notin cs} |-> booking[b]]

Init ==
    /\ client \in FirstClients
    /\ attached = {}
    /\ invite = [i \in Invites |-> [master |-> NoMaster, used |-> 0, expired |-> FALSE]]
    /\ booking = [b \in {} |-> <<>>]
    /\ nudged = Masters
    /\ inhand = {} /\ late = {}
    /\ gone = {}
    /\ pro \in FirstPro
    /\ task = [t \in Tasks |-> Idle]
    /\ admitted = [i \in Invites |-> {}]

-----------------------------------------------------------------------------
(* Invites: CreateMasterClientInvite, and time *)

CreateInvite(m, i) ==
    /\ m \notin gone
    /\ invite[i].master = NoMaster
    /\ CanAttach(m)
    /\ invite' = [invite EXCEPT ![i].master = m]
    /\ UNCHANGED <<client, attached, booking, nudges, gone, task, admitted, pro>>

Expire(i) ==
    /\ invite[i].master # NoMaster /\ ~invite[i].expired
    /\ invite' = [invite EXCEPT ![i].expired = TRUE]
    /\ UNCHANGED <<client, attached, booking, nudges, gone, task, admitted, pro>>

\* Mutant: the uses are not compared again by the UPDATE.
UsableUnbounded(i) == ~invite[i].expired

\* the WHERE of increment_used_count_if_valid
Usable(i) == invite[i].used < 1 /\ ~invite[i].expired

\* another transaction has incremented it and not committed
LockedInvite(i) == \E u \in Tasks : task[u].op = "consumed" /\ task[u].invite = i

-----------------------------------------------------------------------------
(* AcceptClientInvite *)

\* somebody else of the master's clients has this phone and a Telegram account
TakenByOther(m, u, p, mine) ==
    \E c \in WithPhone(m, p) : c \notin {NoClient, mine} /\ client[c].user \notin {NoUser, u}

\* _decide_quota: who takes no new place among the master's clients
NeedsNoRoom(m, known, held) == held # NoClient \/ <<m, known>> \in attached

\* What the reads of the use case come to: known is the user's row, held the
\* master's client with his phone.  A user who is attached already is found by
\* his own phone, so that _step_noop_if_already_attached passes him on.
Resolve(t, u, i, p) ==
    LET m == invite[i].master
        known == RowOf(u)
        phone == IF known = NoClient THEN p ELSE client[known].phone
    IN  /\ Free(t) /\ m # NoMaster
        /\ \E found \in WithPhone(m, phone) :
               /\ found # NoClient => client[found].user \in {NoUser, u}
               /\ known # NoClient => ~TakenByOther(m, u, phone, known)
               /\ NeedsNoRoom(m, known, found) \/ CanAttach(m)
               /\ Become(t, [op |-> "resolved", invite |-> i, user |-> u, phone |-> phone,
                             known |-> known, held |-> found, had |-> FALSE, raced |-> FALSE])
        /\ UNCHANGED <<client, attached, invite, booking, nudges, gone, admitted, pro>>

Consume(t) ==
    LET i == task[t].invite
    IN  /\ task[t].op = "resolved"
        /\ ~LockedInvite(i)
        /\ IF Usable(i)
             THEN Become(t, [task[t] EXCEPT !.op = "consumed",
                                            !.had = ClientsOf(invite[i].master) # {}])
             ELSE Done(t)
        /\ UNCHANGED <<client, attached, invite, booking, nudges, gone, admitted, pro>>

\* The transaction commits: the invite is used, the first client ends the
\* nudging, and clients, attached and booking become what the writes made them.
Admitted(t) ==
    LET i == task[t].invite
    IN  /\ invite' = [invite EXCEPT ![i].used = @ + 1]
        /\ admitted' = [admitted EXCEPT ![i] = @ \cup {task[t].user}]
        /\ Welcomed(invite[i].master, task[t].had)
        /\ gone' = gone

\* Mutant: from and to are swapped.
MovedBack(m, from, to) ==
    [b \in DOMAIN booking |->
        IF booking[b].master = m /\ booking[b].client = to
        THEN [booking[b] EXCEPT !.client = from] ELSE booking[b]]

\* Mutant: the bookings of the client entered by hand stay with it.
MovedNowhere(m, from, to) == booking

\* reassign_client_for_master
Moved(m, from, to) ==
    [b \in DOMAIN booking |->
        IF booking[b].master = m /\ booking[b].client = from
        THEN [booking[b] EXCEPT !.client = to] ELSE booking[b]]

\* The user's row takes the place of the one the master entered by hand.
Merge(t) ==
    LET m == invite[task[t].invite].master
        known == task[t].known
        held == task[t].held
    IN  /\ task[t].op = "consumed"
        /\ known \in Rows /\ held \notin {NoClient, known}
        /\ booking' = Moved(m, held, known)
        /\ attached' = (attached \ {<<m, held>>}) \cup {<<m, known>>}
        /\ Commit(t, {held})
        /\ Admitted(t)
        /\ UNCHANGED <<client, pro>>

AttachKnown(t) ==
    LET known == task[t].known
    IN  /\ task[t].op = "consumed"
        /\ known \in Rows /\ task[t].held \in {NoClient, known}
        /\ attached' = attached \cup {<<invite[task[t].invite].master, known>>}
        /\ Admitted(t) /\ Commit(t, {})
        /\ UNCHANGED <<client, booking, pro>>

\* telegram_id is unique
Registered(u) == \E c \in Rows : client[c].user = u

\* The row entered by hand becomes the user's: an UPDATE by id alone.
Claim(t) ==
    LET held == task[t].held
    IN  /\ task[t].op = "consumed"
        /\ task[t].known = NoClient /\ held \in Rows
        /\ ~\E c \in Rows \ {held} : client[c].user = task[t].user
        /\ client' = [client EXCEPT ![held].user = task[t].user]
        /\ attached' = attached \cup {<<invite[task[t].invite].master, held>>}
        /\ Admitted(t) /\ Commit(t, {})
        /\ UNCHANGED <<booking, pro>>

Enter(c, row) == client' = [x \in Rows \cup {c} |-> IF x = c THEN row ELSE client[x]]

CreateOnline(t, c) ==
    /\ task[t].op = "consumed"
    /\ task[t].known = NoClient /\ task[t].held = NoClient
    /\ ~Registered(task[t].user)
    /\ c \notin Rows \cup gone
    /\ Enter(c, [user |-> task[t].user, phone |-> task[t].phone])
    /\ attached' = attached \cup {<<invite[task[t].invite].master, c>>}
    /\ Admitted(t) /\ Commit(t, {})
    /\ UNCHANGED <<booking, pro>>

\* A constraint is violated, a row is no longer there, the process dies: the
\* use of the invite is rolled back with the rest.
Rollback(t) ==
    /\ ~Free(t)
    /\ Done(t)
    /\ UNCHANGED <<client, attached, invite, booking, nudges, gone, admitted, pro>>

-----------------------------------------------------------------------------
(* CreateClientOffline *)

EnterByHand(t, m, p) ==
    /\ Free(t) /\ m \notin gone
    /\ CanAttach(m)
    /\ WithPhone(m, p) = {NoClient}
    /\ Become(t, [op |-> "entry", master |-> m, phone |-> p, raced |-> FALSE])
    /\ UNCHANGED <<client, attached, invite, booking, nudges, gone, admitted, pro>>

\* the count is read just before the write, which another first client may overtake
CreateOffline(t, c) ==
    LET m == task[t].master
        there == ClientsOf(m) # {}
    IN  /\ task[t].op = "entry" /\ m \notin gone
        /\ c \notin Rows \cup gone
        /\ Enter(c, [user |-> NoUser, phone |-> task[t].phone])
        /\ attached' = attached \cup {<<m, c>>}
        /\ \E had \in {there, there /\ ~task[t].raced} : Welcomed(m, had)
        /\ Commit(t, {})
        /\ UNCHANGED <<invite, booking, gone, admitted, pro>>

-----------------------------------------------------------------------------
(* A booking, as far as it concerns clients: the check and the insert *)

Book(t, m, c) ==
    /\ Free(t) /\ <<m, c>> \in attached
    /\ Become(t, [op |-> "book", master |-> m, client |-> c, raced |-> FALSE])
    /\ UNCHANGED <<client, attached, invite, booking, nudges, gone, admitted, pro>>

InsertBooking(t, b) ==
    LET row == [master |-> task[t].master, client |-> task[t].client, raced |-> task[t].raced]
    IN  /\ task[t].op = "book"
        /\ row.client \in Rows /\ row.master \notin gone
        /\ b \notin DOMAIN booking
        /\ booking' = [x \in DOMAIN booking \cup {b} |-> IF x = b THEN row ELSE booking[x]]
        /\ CancelNudge(row.master)
        /\ Done(t)
        /\ UNCHANGED <<client, attached, invite, gone, admitted, pro>>

-----------------------------------------------------------------------------
(* Phones.  The master's dialog keeps the client it showed, with the        *)
(* telegram_id of that moment.                                              *)

OpenCard(t, m, c) ==
    /\ Free(t) /\ <<m, c>> \in attached /\ ~Online(c)
    /\ Become(t, [op |-> "selected", master |-> m, client |-> c])
    /\ UNCHANGED <<client, attached, invite, booking, nudges, gone, admitted, pro>>

\* _update_phone_for_master
EditPhone(t, p) ==
    /\ task[t].op = "selected" /\ task[t].master \notin gone
    /\ WithPhone(task[t].master, p) \subseteq {NoClient, task[t].client}
    /\ Become(t, [op |-> "masterphone", client |-> task[t].client, phone |-> p,
                  raced |-> FALSE])
    /\ UNCHANGED <<client, attached, invite, booking, nudges, gone, admitted, pro>>

\* _has_phone_conflict_for_client: another client of one of his masters has it
TakenAtSomeMaster(c, p) ==
    \E m \in Masters : <<m, c>> \in attached /\ ~(WithPhone(m, p) \subseteq {NoClient, c})

EditOwnPhone(t, c, p) ==
    /\ Free(t) /\ c \in Rows /\ Online(c)
    /\ ~TakenAtSomeMaster(c, p)
    /\ Become(t, [op |-> "ownphone", client |-> c, phone |-> p, raced |-> FALSE])
    /\ UNCHANGED <<client, attached, invite, booking, nudges, gone, admitted, pro>>

WritePhone(t) ==
    /\ task[t].op \in {"masterphone", "ownphone"}
    /\ client' = [c \in Rows |-> IF c = task[t].client THEN [client[c] EXCEPT !.phone = task[t].phone]
                                 ELSE client[c]]
    /\ Commit(t, {})
    /\ UNCHANGED <<attached, invite, booking, nudges, gone, admitted, pro>>

-----------------------------------------------------------------------------
(* DeleteClientPersonalData, DeleteMasterPersonalData: rows that refer to  *)
(* the deleted one go with it.                                             *)

DeleteClient(c) ==
    /\ c \in Rows /\ Online(c)
    /\ client' = Kept(Rows \ {c}, client)
    /\ attached' = attached \ (Masters \X {c})
    /\ booking' = BookingsWithout({}, {c})
    /\ gone' = gone \cup {c}
    /\ UNCHANGED <<invite, nudges, task, admitted, pro>>

\* clients entered by hand that nobody has when these attachments are left
Orphans(left) == {c \in Rows : ~Online(c) /\ ~\E o \in Masters : <<o, c>> \in left}

DeleteMaster(m) ==
    LET left == attached \ ({m} \X Clients)
        orphans == Orphans(left)
    IN  /\ m \notin gone
        /\ ~\E i \in Invites : invite[i].master = m /\ LockedInvite(i)
        /\ gone' = gone \cup {m} \cup orphans
        /\ client' = Kept(Rows \ orphans, client)
        /\ attached' = left
        /\ booking' = BookingsWithout({m}, orphans)
        /\ invite' = [i \in Invites |->
               IF invite[i].master = m THEN [invite[i] EXCEPT !.expired = TRUE] ELSE invite[i]]
        /\ nudged' = nudged \ {m} /\ inhand' = inhand \ {m} /\ late' = late \ {m}
        /\ UNCHANGED <<task, admitted, pro>>

-----------------------------------------------------------------------------
(* The reminders worker, as far as it concerns that job.  It asks nothing   *)
(* about clients, and writes the row by its id, whatever it says by now.    *)

\* reserve_due
ReserveNudge(m) ==
    /\ m \in nudged
    /\ nudged' = nudged \ {m}
    /\ inhand' = inhand \cup {m}
    /\ UNCHANGED <<client, attached, invite, booking, late, gone, pro, task, admitted>>

\* it was sent or dropped, or failed for the last time; or the worker died, and
\* nothing takes it up again
SettleNudge(m) ==
    /\ m \in inhand
    /\ inhand' = inhand \ {m} /\ late' = late \ {m}
    /\ UNCHANGED <<client, attached, invite, booking, nudged, gone, pro, task, admitted>>

\* reschedule_after_error: also a job that was cancelled meanwhile
RetryNudge(m) ==
    /\ m \in inhand
    /\ nudged' = nudged \cup {m}
    /\ inhand' = inhand \ {m}
    /\ UNCHANGED <<client, attached, invite, booking, late, gone, pro, task, admitted>>

-----------------------------------------------------------------------------
Accepts(t) == Consume(t) \/ Merge(t) \/ AttachKnown(t) \/ Claim(t)

Next ==
    \/ \E m \in Masters, i \in Invites : CreateInvite(m, i)
    \/ \E i \in Invites : Expire(i)
    \/ \E t \in Tasks :
           \/ Accepts(t) \/ Rollback(t) \/ WritePhone(t)
           \/ \E u \in Users, i \in Invites, p \in Phones : Resolve(t, u, i, p)
           \/ \E c \in Clients : CreateOnline(t, c) \/ CreateOffline(t, c)
           \/ \E m \in Masters, p \in Phones : EnterByHand(t, m, p)
           \/ \E m \in Masters, c \in Clients : Book(t, m, c) \/ OpenCard(t, m, c)
           \/ \E b \in Bookings : InsertBooking(t, b)
           \/ \E p \in Phones : EditPhone(t, p)
           \/ \E c \in Clients, p \in Phones : EditOwnPhone(t, c, p)
    \/ \E c \in Clients : DeleteClient(c)
    \/ \E m \in Masters : DeleteMaster(m) \/ ReserveNudge(m) \/ SettleNudge(m) \/ RetryNudge(m)

Spec == Init /\ [][Next]_vars

-----------------------------------------------------------------------------
(* Properties *)

TypeOK ==
    /\ Rows \subseteq Clients /\ client \in [Rows -> Row]
    /\ attached \subseteq Masters \X Rows
    /\ invite \in [Invites -> InviteRow]
    /\ DOMAIN booking \subseteq Bookings /\ booking \in [DOMAIN booking -> BookingRow]
    /\ \A b \in DOMAIN booking : booking[b].client \in Rows
    /\ nudged \subseteq Masters /\ inhand \subseteq Masters /\ late \subseteq Masters
    /\ gone \subseteq (Masters \cup Clients) \ Rows
    /\ pro \subseteq Masters
    /\ task \in [Tasks -> Task]
    /\ admitted \in [Invites -> SUBSET Users]

\* An invite lets one Telegram user in, whoever else follows the link at the
\* same time (increment_used_count_if_valid).
InviteAdmitsOnce ==
    \A i \in Invites : Cardinality(admitted[i]) <= invite[i].used /\ invite[i].used <= 1

\* the step is that of a handler another has overtaken
Overtaken == \E t \in Tasks : task'[t] = Idle /\ ~Free(t) /\ task[t].op # "selected" /\ task[t].raced

GrewBeyond(n, S, T) == Cardinality(T) > n /\ Cardinality(T) > Cardinality(S)

\* can_attach_client is read before the write: only handlers in flight together
\* bring a free plan's master above the limit, whether a client comes by an
\* invite, by hand, or takes the place of one who is there.
QuotaUnlessRaced ==
    [][\A m \in Masters \ pro :
        GrewBeyond(FreeClients, ClientsOf(m), ClientsOf(m)') => Overtaken]_vars

\* A master edits a phone from a card he opened before its client was a Telegram
\* user's: the other masters the client has come to since are not asked.
FromOldCard ==
    \E t \in Tasks :
        /\ task[t].op = "masterphone" /\ task'[t] = Idle
        /\ task[t].client \in Rows /\ Online(task[t].client)

SamePhone(m, p) == {c \in ClientsOf(m) : client[c].phone = p}

\* A master has one client with a phone, which is how a client entered by hand
\* is recognised later: no handler breaks that unless another overtakes it, or
\* it writes the phone of a Telegram user from a card that is out of date.
OnePhoneUnlessRaced ==
    [][\A m \in Masters, p \in Phones :
        GrewBeyond(1, SamePhone(m, p), SamePhone(m, p)') => Overtaken \/ FromOldCard]_vars

\* A merge takes every booking of the client along: none is left with a row
\* the master no longer has, but for one inserted after a check made before.
BookingsFollowTheMerge ==
    \A b \in DOMAIN booking :
        <<booking[b].master, booking[b].client>> \in attached \/ booking[b].raced

\* A booking passes to another client only when a Telegram user takes the place
\* of that client with the booking's own master, in the same step
\* (_apply_attach); nothing else of a booking changes.
MergeKeepsHistory ==
    [][\A b \in DOMAIN booking \cap DOMAIN booking' :
        LET m == booking[b].master
            to == booking'[b].client
        IN  booking'[b] # booking[b] =>
                /\ booking'[b].master = m /\ to \in Rows /\ Online(to)
                /\ <<m, to>> \in attached' /\ <<m, booking[b].client>> \notin attached']_vars

\* Whoever has a client is told to add the first one only by a job the worker
\* had in hand when that client came, or put back from there: no other job is
\* left that could be sent, however handlers, worker and deletions interleave.
FirstClientEndsNudging ==
    \A m \in Masters :
        ClientsOf(m) # {} /\ m \in nudged \cup inhand => m \in late

=============================================================================
