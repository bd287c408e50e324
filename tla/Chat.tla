-------------------------------- MODULE Chat --------------------------------
(***************************************************************************)
(* One user's chat with the bot, as its dialogs see it: the conversation   *)
(* state kept in Redis (aiogram's FSM context: a state and a dict), and    *)
(* the messages with buttons that are on the user's screen.  The two drift *)
(* apart: an edit may fail and is only logged, a deletion is best effort,  *)
(* an old message keeps its buttons, and a handler may be cut short after  *)
(* it wrote the data and before it set the state.                          *)
(*                                                                         *)
(* The updates of one user are handled one at a time (main.py isolates     *)
(* events), so a step is a whole handler, or the part of it that ran.      *)
(* Everything typed is valid or not; a list of times is the day it is for, *)
(* a time the day it is on.                                                *)
(***************************************************************************)
EXTENDS Naturals, Sequences, SequencesExt, TLC

CONSTANTS
    Days,
    People,     \* the clients of a master, as far as they are edited
    NoDay,      \* nothing is shown, listed, picked or selected
    MaxScreens  \* bound: how many of the last messages the user can reach

ASSUME ChatConstants == NoDay \notin Days \cup People /\ MaxScreens \in Nat \ {0}

VARIABLES
    fsm,         \* the FSM context
    chat,        \* messages with buttons, oldest first
    role,        \* whose menu the user has: "client" or "master"
    registered,  \* whether he is one
    consent,     \* whether the consents table has a row of his
    act          \* what the last step did for good, if anything

chatVars == <<fsm, chat>>

userVars == <<role, registered, consent, act>>

-----------------------------------------------------------------------------
\* day: the day of the list of slots in the data, or the day being overridden
\* picked: the slot picked from it; who: the client selected to be edited
\* lost: the last edit failed; halted: a handler was cut short since the data began
Blank == [state |-> "none", keys |-> {}, day |-> NoDay, picked |-> NoDay, who |-> NoDay,
          lost |-> FALSE, halted |-> FALSE]

\* tracked: in the bucket of its dialog
\* front: the message the dialog last drew, or tried to
\* main: the data refers to it as the message to edit
Screen(kind, shows, tracked) ==
    [kind |-> kind, shows |-> shows, tracked |-> tracked, front |-> TRUE, main |-> FALSE]

NoAct == [what |-> "none"]

\* A button whose handler commits something: what the message said, what the
\* handler used, and whether it was the dialog's own message
Act(what, i, used) ==
    [what |-> what, shown |-> chat[i].shows, used |-> used, front |-> chat[i].front]

Has(f) == f.keys \cup (IF f.day = NoDay THEN {} ELSE {"day"})
                 \cup (IF f.picked = NoDay THEN {} ELSE {"slot"})
                 \cup (IF f.who = NoDay THEN {} ELSE {"who"})

Put(f, keys) == [f EXCEPT !.keys = @ \cup keys]

Drop(f, keys) == [f EXCEPT !.keys = @ \ keys]

\* the handler got to its set_state
To(f, state) == [f EXCEPT !.state = state, !.lost = FALSE]

\* It did not: f is the data so far.  Bound: once while the same data lives
CutShort(f) == ~f.halted /\ fsm' = [f EXCEPT !.halted = TRUE]

-----------------------------------------------------------------------------
(* What a handler does to the messages.                                    *)

Faded(c) == [i \in DOMAIN c |-> [c[i] EXCEPT !.front = FALSE]]

InFront(c, i) == [Faded(c) EXCEPT ![i].front = TRUE]

Drawn(c, i, kind, shows) ==
    [Faded(c) EXCEPT ![i] = [Screen(kind, shows, c[i].tracked) EXCEPT !.main = c[i].main]]

Bare(c, i) == [c EXCEPT ![i].kind = "bare"]

\* By a handler that does not touch the conversation
Turned(c, i, kind, shows) == [c EXCEPT ![i].kind = kind, ![i].shows = shows]

\* track_callback_message
Track(i) == [chat EXCEPT ![i].tracked = TRUE]

\* untrack_message_id
Untrack(i) == [chat EXCEPT ![i].tracked = FALSE]

\* the user does not scroll up further than MaxScreens
Appended(c, s) == Append(IF Len(c) = MaxScreens THEN Tail(c) ELSE c, s)

\* Mutant: the older message still counts as the dialog's.
SentBeside(c, kind, shows) == Appended(c, Screen(kind, shows, TRUE))

Sent(c, kind, shows) == Appended(Faded(c), Screen(kind, shows, TRUE))

\* state.clear() forgets the buckets too
Cleared(c) ==
    [i \in DOMAIN c |-> [c[i] EXCEPT !.tracked = FALSE, !.front = FALSE, !.main = FALSE]]

-----------------------------------------------------------------------------
(* The keyboards, a row for each kind of message and button of it, and the *)
(* states in which each button has a handler (StateFilter).                *)

ClientBookingKeyboards ==
           {"book.masters"} \X {"book:master", "book:cancel_flow"}
      \cup {"book.calendar"} \X {"book:mc:m", "book:mc:d", "book:cancel_flow"}
      \cup {"book.slots"} \X {"book:slot", "book:back:calendar", "book:cancel_flow"}
      \cup {"book.confirm"} \X {"book:confirm", "book:back:slots", "book:cancel"}

ClientBookingFilters ==
           {"book:master"} \X {"ClientBooking.selecting_master"}
      \cup {"book:mc:m", "book:mc:d"} \X {"ClientBooking.selecting_date"}
      \cup {"book:slot", "book:back:calendar"} \X {"ClientBooking.selecting_slot"}
      \cup {"book:back:slots", "book:confirm", "book:cancel"} \X {"ClientBooking.confirm"}
      \cup {"book:cancel_flow"}
              \X {"ClientBooking.selecting_master", "ClientBooking.selecting_date",
                  "ClientBooking.selecting_slot", "ClientBooking.confirm"}

AddBookingKeyboards ==
           {"add.noclients"} \X {"m:add_booking:no_clients:add_client", "m:add_booking:cancel"}
      \cup {"add.prompt"} \X {"m:add_booking:cancel"}
      \cup {"add.clients"} \X {"m:add_booking:client", "m:add_booking:cancel"}
      \cup {"add.calendar"}
              \X {"m:add_booking:mc:m", "m:add_booking:mc:d", "m:add_booking:mc:pro",
                  "m:add_booking:mc:cancel", "m:add_booking:cancel"}
      \cup {"add.paywall"} \X {"m:add_booking:mc:m"}
      \cup {"add.slots"} \X {"m:add_booking:slot", "m:add_booking:slots:back",
                             "m:add_booking:cancel"}
      \cup {"add.confirm"} \X {"m:add_booking:confirm", "m:add_booking:confirm:back",
                               "m:add_booking:cancel"}

\* Mutant: the dialog can be left at its end only.
AddBookingCancelAtTheEnd == {"AddBooking.confirm"}

AddBookingCancel ==
    {"AddBooking.no_clients", "AddBooking.search_client", "AddBooking.selecting_date",
     "AddBooking.selecting_slot", "AddBooking.confirm"}

AddBookingFilters ==
           {"m:add_booking:no_clients:add_client"} \X {"AddBooking.no_clients"}
      \cup {"m:add_booking:client"} \X {"AddBooking.search_client"}
      \cup {"m:add_booking:mc:m", "m:add_booking:mc:d", "m:add_booking:mc:pro",
            "m:add_booking:mc:cancel"} \X {"AddBooking.selecting_date"}
      \cup {"m:add_booking:slot", "m:add_booking:slots:back"} \X {"AddBooking.selecting_slot"}
      \cup {"m:add_booking:confirm", "m:add_booking:confirm:back"} \X {"AddBooking.confirm"}
      \cup {"m:add_booking:cancel"} \X AddBookingCancel

RescheduleKeyboards ==
           {"move.calendar"} \X {"m:reschedule:mc:m", "m:reschedule:mc:d", "m:reschedule:mc:pro",
                                 "m:reschedule:back_card", "m:close"}
      \cup {"move.paywall"} \X {"m:reschedule:mc:m"}
      \cup {"move.slots"} \X {"m:reschedule:slot", "m:reschedule:back_calendar", "m:close"}
      \cup {"move.confirm"} \X {"m:reschedule:confirm", "m:reschedule:back_slots", "m:close"}

RescheduleFilters ==
           {"m:reschedule:mc:m", "m:reschedule:mc:d", "m:reschedule:mc:pro",
            "m:reschedule:back_card"} \X {"Reschedule.selecting_date"}
      \cup {"m:reschedule:slot", "m:reschedule:back_calendar"} \X {"Reschedule.selecting_slot"}
      \cup {"m:reschedule:confirm", "m:reschedule:back_slots"} \X {"Reschedule.confirm"}

WorkdayKeyboards ==
           {"day.calendar"} \X {"m:overrides:mc:m", "m:overrides:mc:d",
                                "m:overrides:back_schedule", "m:close"}
      \cup {"day.menu"} \X {"m:overrides:make_day_off", "m:overrides:make_working",
                            "m:overrides:set_hours", "m:overrides:back_schedule", "m:close"}
      \cup {"day.back"} \X {"m:overrides:back_day", "m:close"}

WorkdayFilters ==
           {"m:overrides:mc:m", "m:overrides:mc:d"} \X {"Workday.picking_date"}
      \cup {"m:overrides:back_schedule"} \X {"Workday.picking_date", "Workday.choosing_action"}
      \cup {"m:overrides:make_day_off", "m:overrides:make_working", "m:overrides:set_hours"}
              \X {"Workday.choosing_action"}
      \cup {"m:overrides:back_day"} \X {"Workday.choosing_action", "Workday.setting_start",
                                        "Workday.setting_end"}

MasterRegistrationKeyboards ==
           {"mreg.consent"} \X {"m:pd:agree", "m:pd:disagree", "m:pd:policy"}
      \cup {"mreg.declined"} \X {"m:pd:understood", "m:pd:back", "m:close"}
      \cup {"mreg.cancel"} \X {"m:registration:cancel", "m:close"}
      \cup {"mreg.confirm"} \X {"m:registration:confirm", "m:registration:restart",
                                "m:registration:cancel", "m:close"}

MasterRegistrationFilters ==
           {"m:pd:agree", "m:pd:disagree", "m:pd:policy"} \X {"MasterRegistration.consent"}
      \cup {"m:pd:understood", "m:pd:back"} \X {"MasterRegistration.consent_declined"}
      \cup {"m:registration:confirm", "m:registration:restart"} \X {"MasterRegistration.confirm"}
      \cup {"m:registration:cancel"}
              \X {"MasterRegistration.name", "MasterRegistration.phone",
                  "MasterRegistration.work_days", "MasterRegistration.work_time",
                  "MasterRegistration.slot_size", "MasterRegistration.confirm"}

ClientRegistrationKeyboards ==
           {"creg.consent"} \X {"c:pd:agree", "c:pd:disagree", "c:pd:policy",
                                "c:registration:cancel"}
      \cup {"creg.declined"} \X {"c:pd:understood", "c:pd:back", "c:registration:cancel"}
      \cup {"creg.cancel"} \X {"c:registration:cancel"}
      \cup {"creg.confirm"} \X {"c:registration:confirm", "c:registration:restart",
                                "c:registration:cancel"}

ClientRegistrationFilters ==
           {"c:pd:agree", "c:pd:disagree", "c:pd:policy"} \X {"ClientRegistration.consent"}
      \cup {"c:pd:understood", "c:pd:back"} \X {"ClientRegistration.consent_declined"}
      \cup {"c:registration:confirm", "c:registration:restart"} \X {"ClientRegistration.confirm"}
      \cup {"c:registration:cancel"} \X {"ClientRegistration.name", "ClientRegistration.phone",
                                         "ClientRegistration.confirm"}

AddClientKeyboards ==
           {"client.cancel"} \X {"m:add_client:cancel"}
      \cup {"client.confirm"} \X {"m:add_client:confirm", "m:add_client:restart",
                                  "m:add_client:cancel"}

AddClientFilters ==
           {"m:add_client:confirm", "m:add_client:restart"} \X {"AddClient.confirm"}
      \cup {"m:add_client:cancel"} \X {"AddClient.name", "AddClient.phone", "AddClient.confirm"}

\* The results are "picked" from once they are counted among the cards
EditClientKeyboards ==
           {"edit.prompt"} \X {"m:edit_client:cancel"}
      \cup {"edit.results"} \X {"m:edit_client:pick", "m:edit_client:back",
                                "m:edit_client:cancel"}
      \cup {"edit.picked"} \X {"m:edit_client:pick", "m:edit_client:back",
                               "m:edit_client:cancel"}
      \cup {"edit.view"} \X {"m:edit_client:book", "m:edit_client:edit_menu",
                             "m:edit_client:back", "m:edit_client:cancel"}
      \cup {"edit.menu"} \X {"m:edit_client:edit_name", "m:edit_client:edit_phone",
                             "m:edit_client:view"}
      \cup {"edit.input"} \X {"m:edit_client:edit_menu"}

EditClientOpen ==
    {"EditClient.query", "EditClient.choosing", "EditClient.action", "EditClient.edit_name",
     "EditClient.edit_phone"}

EditClientFilters ==
           {"m:edit_client:pick"} \X {"EditClient.choosing"}
      \cup {"m:edit_client:edit_name", "m:edit_client:edit_phone"} \X {"EditClient.action"}
      \cup {"m:edit_client:back", "m:edit_client:cancel"} \X EditClientOpen

\* Of either role, all pages as one; their handlers do not ask for a state
SettingsKeyboards ==
           {"settings"} \X {"settings:menu", "settings:edit", "settings:back",
                            "settings:delete_confirm"}
      \cup {"settings.prompt"} \X {"settings:cancel_edit"}

\* Messages of other handlers, from which a dialog starts: the schedule with its
\* booking cards, a client's card, a master's card (and the question for a new name of
\* his)
OtherKeyboards ==
           {"schedule"} \X {"m:b:reschedule", "m:overrides:start"}
      \cup {"client card"} \X {"m:clients:book", "m:edit_client:open"}
      \cup {"master card"} \X {"masters:book", "masters:alias", "masters:close"}
      \cup {"alias.prompt"} \X {"masters:open"}

\* A paywall has no buttons here, nor has a message whose keyboard was removed
Keyboards ==
    ClientBookingKeyboards \cup AddBookingKeyboards \cup RescheduleKeyboards
        \cup WorkdayKeyboards \cup MasterRegistrationKeyboards
        \cup ClientRegistrationKeyboards \cup AddClientKeyboards \cup EditClientKeyboards
        \cup SettingsKeyboards \cup OtherKeyboards

Filters ==
    ClientBookingFilters \cup AddBookingFilters \cup RescheduleFilters \cup WorkdayFilters
        \cup MasterRegistrationFilters \cup ClientRegistrationFilters
        \cup AddClientFilters \cup EditClientFilters

Rows(table) == {row[1] : row \in table}

Column(table, x) == {row[2] : row \in {r \in table : r[1] = x}}

Kinds == Rows(Keyboards) \cup {"paywall", "bare"}

Keyboard == [kind \in Kinds |-> Column(Keyboards, kind)]

Filter == [b \in Rows(Filters) |-> Column(Filters, b)]

\* The states of a dialog that is left by no button of its own too
States == {"none", "Settings.edit", "Masters.edit_alias"} \cup {row[2] : row \in Filters}

\* the others are handled whatever the state
Accepts(b, state) == b \in DOMAIN Filter => state \in Filter[b]

\* Only these are for a user without a role (UserRole), or find him a profile
Public == Rows(MasterRegistrationFilters) \cup Rows(ClientRegistrationFilters) \cup {"m:close"}

\* The user taps button b of the i-th message, and it has a handler
On(i, b) ==
    b \in Keyboard[chat[i].kind] /\ Accepts(b, fsm.state) /\ (registered \/ b \in Public)

\* A text of the menu is taken for an answer where a registration waits for one: its
\* router comes first
AtMenu == registered /\ fsm.state \notin
    {"ClientRegistration.name", "ClientRegistration.phone", "MasterRegistration.name",
     "MasterRegistration.phone", "MasterRegistration.work_days", "MasterRegistration.work_time",
     "MasterRegistration.slot_size"}

Bucket(kind) ==
    CASE kind \in Rows(ClientBookingKeyboards)      -> "client_booking"
      [] kind \in Rows(AddBookingKeyboards)         -> "master_add_booking"
      [] kind \in Rows(RescheduleKeyboards)         -> "master_reschedule"
      [] kind \in Rows(WorkdayKeyboards)            -> "master_workday_overrides"
      [] kind \in Rows(MasterRegistrationKeyboards) -> "master_registration"
      [] kind \in Rows(ClientRegistrationKeyboards) -> "client_registration"
      [] kind \in Rows(AddClientKeyboards)          -> "master_add_client"
      [] kind \in {"edit.prompt", "edit.results"}    -> "master_edit_client"
      [] kind \in {"edit.picked", "edit.view", "edit.menu", "edit.input"}
                                                     -> "master_edit_client_card"
      [] kind \in Rows(SettingsKeyboards)           -> "settings"
      [] OTHER                                       -> "none"

-----------------------------------------------------------------------------
(* How a handler ends.  C are the chats it may have got to so far, f its   *)
(* data; a handler that is cut short leaves the data and the old state.    *)

In(c, buckets) == {i \in DOMAIN c : c[i].tracked /\ Bucket(c[i].kind) \in buckets}

\* Which of c's messages are left, in their order: p[n] is the place the n-th had
Remainders(c) ==
    UNION {{p \in [1..k -> DOMAIN c] : \A m, n \in 1..k : m < n => p[m] < p[n]} :
              k \in 0..Len(c)}

\* cleanup_messages: the buckets are forgotten, each deletion may fail
Swept(C, buckets) ==
    UNION {{[n \in DOMAIN p |-> [c[p[n]] EXCEPT !.tracked = @ /\ p[n] \notin In(c, buckets)]] :
               p \in {q \in Remainders(c) : DOMAIN c \ In(c, buckets) \subseteq Range(q)}} : c \in C}

\* cleanup_messages and state.clear()
Fresh(C, bucket) == {Cleared(c) : c \in Swept(C, {bucket})}

Reset(C, bucket) ==
    \/ fsm' = Blank /\ chat' \in Fresh(C, bucket)
    \/ CutShort(fsm) /\ chat' \in C \cup Swept(C, {bucket})

\* context_lost: an alert, then the same
LoseContext(C, bucket) == Reset(C, bucket)

\* Where the i-th message, of no bucket, is in c after a reset
Still(c, i) == {j \in DOMAIN c : c[j] = Cleared(chat)[i]}

\* A message is sent, then the state set
Send(C, f, state, kind, shows) ==
    LET sent == {Sent(c, kind, shows) : c \in C}
    IN  \/ fsm' = To(f, state) /\ chat' \in sent
        \/ CutShort(f) /\ chat' \in C \cup sent

\* The i-th message of c is edited, whether or not that works, then the state set
Redraw(c, i, f, state, kind, shows) ==
    \/ fsm' = To(f, state) /\ chat' = Drawn(c, i, kind, shows)
    \/ fsm' = [To(f, state) EXCEPT !.lost = TRUE] /\ chat' = InFront(c, i)
    \/ CutShort(f) /\ chat' \in {c, Drawn(c, i, kind, shows)}

\* The same, and a new message if the edit fails
RedrawOrSend(c, i, f, state, kind, shows) ==
    LET drawn == {Drawn(c, i, kind, shows), Sent(c, kind, shows)}
    IN  \/ fsm' = To(f, state) /\ chat' \in drawn
        \/ CutShort(f) /\ chat' \in {c} \cup drawn

\* Another page of the same, or nothing
Refresh(c, i, kind) == chat' \in {c, Drawn(c, i, kind, NoDay)} /\ UNCHANGED fsm

\* An alert only
Refuse(c) == chat' = c /\ UNCHANGED fsm

\* state.clear() alone
Forget == fsm' = Blank /\ chat' = Cleared(chat)

\* What a dialog's main message may have become
Overrides == Rows(WorkdayKeyboards) \cup {"schedule", "paywall"}
EditClient == Rows(EditClientKeyboards) \cup {"client card"}

Main(c, kinds) == {i \in DOMAIN c : c[i].main /\ c[i].kind \in kinds}

MainIs(c, i, kinds) == [n \in DOMAIN c |-> [c[n] EXCEPT !.main =
                            IF n = i THEN TRUE ELSE @ /\ n \notin Main(c, kinds)]]

\* The main message is edited, whichever was tapped.  f, state: the data and the state the
\* handler goes on to.  The main message may be out of the user's reach, or unknown
EditMain(c, kinds, f, state, kind, shows) ==
    \/ \E i \in Main(c, kinds) : Redraw(c, i, f, state, kind, shows)
    \/ Main(c, kinds) = {} /\ fsm' = To(f, state) /\ chat' = Faded(c)
=============================================================================
