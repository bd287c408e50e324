---------------------------- MODULE DialogsProofs ----------------------------
(***************************************************************************)
(* Proofs about Dialogs: the data of each state is there, a confirmation   *)
(* is taken up, what is committed is what the message says, the dialog's   *)
(* message has buttons that work, and nobody registers without consent.    *)
(* The invariant says of the data, and of each message on the screen, what *)
(* the state the dialog is in asks of it.                                  *)
(***************************************************************************)
EXTENDS Dialogs, ChatProofs

-----------------------------------------------------------------------------
(* The data.                                                               *)

Fsms ==
    [state : States, keys : SUBSET Keys, day : Days \cup {NoDay}, picked : Days \cup {NoDay},
     who : People \cup {NoDay}, lost : BOOLEAN, halted : BOOLEAN]

Ready(f, state) == Needs[state] \subseteq Has(f)

\* The states that only who has consented gets to
FormStates ==
    {"MasterRegistration.name", "MasterRegistration.phone", "MasterRegistration.work_days",
     "MasterRegistration.work_time", "MasterRegistration.slot_size",
     "MasterRegistration.confirm", "ClientRegistration.name", "ClientRegistration.phone",
     "ClientRegistration.confirm"}

\* What the data f must be for a dialog that goes on in a state, unless a handler was cut
\* short; k: whether there is a consent
Carries(f, state, k) ==
    /\ Ready(f, state)
    /\ "confirm_in_progress" \notin f.keys
    /\ "clients" \in f.keys => "master_id" \in f.keys
    /\ state \in FormStates => k

Data(f, k) == f.halted \/ Carries(f, f.state, k)

Lost(f) == [f EXCEPT !.lost = TRUE]

CutOff(f) == [f EXCEPT !.halted = TRUE]

LEMMA HasIs ==
    ASSUME NEW f \in Fsms
    PROVE  /\ "day" \in Has(f) <=> f.day # NoDay
           /\ "slot" \in Has(f) <=> f.picked # NoDay
           /\ "who" \in Has(f) <=> f.who # NoDay
           /\ \A x \in Keys : x \in Has(f) <=> x \in f.keys
  <1> DEFINE day == IF f.day = NoDay THEN {} ELSE {"day"}
             slot == IF f.picked = NoDay THEN {} ELSE {"slot"}
             who == IF f.who = NoDay THEN {} ELSE {"who"}
  <1>1. f.keys \subseteq Keys
    BY DEF Fsms
  <1>2. "day" \notin Keys /\ "slot" \notin Keys /\ "who" \notin Keys
    BY DEF Keys
  <1>3. /\ \A x : x \in day <=> x = "day" /\ f.day # NoDay
        /\ \A x : x \in slot <=> x = "slot" /\ f.picked # NoDay
        /\ \A x : x \in who <=> x = "who" /\ f.who # NoDay
    OBVIOUS
  <1>4. Has(f) = f.keys \cup day \cup slot \cup who
    BY DEF Has
  <1> HIDE DEF day, slot, who
  <1>5. \A x : x \in Has(f) <=> x \in f.keys \/ x \in day \/ x \in slot \/ x \in who
    BY <1>4
  <1> QED
    BY <1>1, <1>2, <1>3, <1>5

LEMMA MasterDataIs == MasterData = {"name", "phone", "work_days", "work_time", "slot_size_min"}
  <1>1. 1..5 = {1, 2, 3, 4, 5}
    OBVIOUS
  <1>2. /\ MasterForm[1].key = "name" /\ MasterForm[2].key = "phone"
        /\ MasterForm[3].key = "work_days" /\ MasterForm[4].key = "work_time"
        /\ MasterForm[5].key = "slot_size_min"
    BY DEF MasterForm
  <1> QED
    BY <1>1, <1>2 DEF MasterData

\* The rows of a state in the tables of what each takes from the data
Wants(state, keys) ==
    \A x : <<state, x>> \in BookingNeeds \cup ProfileNeeds \cup EditNeeds <=> x \in keys

LEMMA NeedsRows ==
    ASSUME NEW state \in States, NEW keys, Wants(state, keys)
    PROVE  Needs[state] = keys
  <1> DEFINE table == BookingNeeds \cup ProfileNeeds \cup EditNeeds
  <1>a. Pairs(BookingNeeds)
    BY DEF Pairs, BookingNeeds
  <1>b. Pairs(ProfileNeeds)
    BY DEF Pairs, ProfileNeeds
  <1>c. Pairs(EditNeeds)
    BY PairsProduct, PairsUnion DEF EditNeeds
  <1>2. Pairs(table)
    BY <1>a, <1>b, <1>c, PairsUnion
  <1>3. Needs[state] = Column(table, state)
    BY DEF Needs
  <1>4. \A x : <<state, x>> \in table <=> x \in keys
    BY DEF Wants
  <1> HIDE DEF table
  <1>5. \A x : x \in Column(table, state) <=> <<state, x>> \in table
    <2>1. \A r \in table : r = <<r[1], r[2]>>
      BY <1>2 DEF Pairs
    <2>2. \A x : x \in Column(table, state) <=> \E r \in table : r[1] = state /\ x = r[2]
      BY DEF Column
    <2> QED
      BY <2>1, <2>2
  <1> QED
    BY <1>3, <1>4, <1>5

LEMMA BookingReadiness ==
    ASSUME NEW f \in Fsms
    PROVE  /\ Ready(f, "ClientBooking.selecting_master") <=> "client_id" \in f.keys
           /\ Ready(f, "ClientBooking.selecting_date") <=>
               {"client_id", "master_id"} \subseteq f.keys
           /\ Ready(f, "ClientBooking.selecting_slot") <=>
               {"client_id", "master_id"} \subseteq f.keys /\ f.day # NoDay
           /\ Ready(f, "ClientBooking.confirm") <=>
               {"client_id", "master_id"} \subseteq f.keys /\ f.day # NoDay /\ f.picked # NoDay
           /\ Ready(f, "AddBooking.selecting_date") <=>
               {"master_id", "client"} \subseteq f.keys
           /\ Ready(f, "AddBooking.selecting_slot") <=>
               {"master_id", "client"} \subseteq f.keys /\ f.day # NoDay
           /\ Ready(f, "AddBooking.confirm") <=>
               {"master_id", "client"} \subseteq f.keys /\ f.day # NoDay /\ f.picked # NoDay
           /\ Ready(f, "Reschedule.selecting_date") <=> "booking" \in f.keys
           /\ Ready(f, "Reschedule.selecting_slot") <=> "booking" \in f.keys /\ f.day # NoDay
           /\ Ready(f, "Reschedule.confirm") <=>
               "booking" \in f.keys /\ f.day # NoDay /\ f.picked # NoDay
           /\ Ready(f, "AddBooking.no_clients")
           /\ Ready(f, "AddBooking.search_client")
  <1>1. /\ Wants("ClientBooking.selecting_master", {"client_id"})
        /\ Wants("ClientBooking.selecting_date", {"client_id", "master_id"})
        /\ Wants("ClientBooking.selecting_slot", {"client_id", "master_id", "day"})
        /\ Wants("ClientBooking.confirm", {"client_id", "master_id", "day", "slot"})
        /\ Wants("AddBooking.selecting_date", {"master_id", "client"})
        /\ Wants("AddBooking.selecting_slot", {"master_id", "client", "day"})
        /\ Wants("AddBooking.confirm", {"master_id", "client", "day", "slot"})
        /\ Wants("Reschedule.selecting_date", {"booking"})
        /\ Wants("Reschedule.selecting_slot", {"booking", "day"})
        /\ Wants("Reschedule.confirm", {"booking", "day", "slot"})
        /\ Wants("AddBooking.no_clients", {})
        /\ Wants("AddBooking.search_client", {})
    BY MasterDataIs DEF Wants, BookingNeeds, ProfileNeeds, EditNeeds, ClientData
  <1>2. /\ "ClientBooking.selecting_master" \in States
        /\ "ClientBooking.selecting_date" \in States
        /\ "ClientBooking.selecting_slot" \in States
        /\ "ClientBooking.confirm" \in States
        /\ "AddBooking.selecting_date" \in States
        /\ "AddBooking.selecting_slot" \in States
        /\ "AddBooking.confirm" \in States
        /\ "Reschedule.selecting_date" \in States
        /\ "Reschedule.selecting_slot" \in States
        /\ "Reschedule.confirm" \in States
        /\ "AddBooking.no_clients" \in States
        /\ "AddBooking.search_client" \in States
    BY StateNames
  <1>3. /\ Needs["ClientBooking.selecting_master"] = {"client_id"}
        /\ Needs["ClientBooking.selecting_date"] = {"client_id", "master_id"}
        /\ Needs["ClientBooking.selecting_slot"] = {"client_id", "master_id", "day"}
        /\ Needs["ClientBooking.confirm"] = {"client_id", "master_id", "day", "slot"}
        /\ Needs["AddBooking.selecting_date"] = {"master_id", "client"}
        /\ Needs["AddBooking.selecting_slot"] = {"master_id", "client", "day"}
        /\ Needs["AddBooking.confirm"] = {"master_id", "client", "day", "slot"}
        /\ Needs["Reschedule.selecting_date"] = {"booking"}
        /\ Needs["Reschedule.selecting_slot"] = {"booking", "day"}
        /\ Needs["Reschedule.confirm"] = {"booking", "day", "slot"}
        /\ Needs["AddBooking.no_clients"] = {}
        /\ Needs["AddBooking.search_client"] = {}
    BY <1>1, <1>2, NeedsRows
  <1>4. {"booking", "client", "client_id", "master_id"} \subseteq Keys
    BY DEF Keys
  <1> QED
    BY <1>3, <1>4, HasIs DEF Ready

LEMMA ProfileReadiness ==
    ASSUME NEW f \in Fsms
    PROVE  /\ Ready(f, "MasterRegistration.consent") <=> "token" \in f.keys
           /\ Ready(f, "MasterRegistration.consent_declined") <=> "token" \in f.keys
           /\ Ready(f, "MasterRegistration.name") <=> "token" \in f.keys
           /\ Ready(f, "MasterRegistration.phone") <=> {"token", "name"} \subseteq f.keys
           /\ Ready(f, "MasterRegistration.work_days") <=>
               {"token", "name", "phone"} \subseteq f.keys
           /\ Ready(f, "MasterRegistration.work_time") <=>
               {"token", "name", "phone", "work_days"} \subseteq f.keys
           /\ Ready(f, "MasterRegistration.slot_size") <=>
               {"token", "name", "phone", "work_days", "work_time"} \subseteq f.keys
           /\ Ready(f, "MasterRegistration.confirm") <=>
               {"token", "name", "phone", "work_days", "work_time",
                      "slot_size_min"} \subseteq f.keys
           /\ Ready(f, "ClientRegistration.consent") <=> "invite_token" \in f.keys
           /\ Ready(f, "ClientRegistration.consent_declined") <=> "invite_token" \in f.keys
           /\ Ready(f, "ClientRegistration.name") <=> "invite_data" \in f.keys
           /\ Ready(f, "ClientRegistration.phone") <=>
               {"invite_data", "name"} \subseteq f.keys
           /\ Ready(f, "ClientRegistration.confirm") <=>
               {"invite_data", "name", "phone"} \subseteq f.keys
           /\ Ready(f, "AddClient.phone") <=> "name" \in f.keys
           /\ Ready(f, "AddClient.confirm") <=> {"name", "phone"} \subseteq f.keys
           /\ Ready(f, "Workday.choosing_action") <=> f.day # NoDay
           /\ Ready(f, "Workday.setting_start") <=> f.day # NoDay
           /\ Ready(f, "Workday.setting_end") <=> "override_start" \in f.keys /\ f.day # NoDay
           /\ Ready(f, "AddClient.name")
           /\ Ready(f, "Workday.picking_date")
  <1>1. /\ Wants("MasterRegistration.consent", {"token"})
        /\ Wants("MasterRegistration.consent_declined", {"token"})
        /\ Wants("MasterRegistration.name", {"token"})
        /\ Wants("MasterRegistration.phone", {"token", "name"})
        /\ Wants("MasterRegistration.work_days", {"token", "name", "phone"})
        /\ Wants("MasterRegistration.work_time", {"token", "name", "phone", "work_days"})
        /\ Wants("MasterRegistration.slot_size", {"token", "name", "phone", "work_days",
               "work_time"})
        /\ Wants("MasterRegistration.confirm", {"token", "name", "phone", "work_days",
               "work_time", "slot_size_min"})
        /\ Wants("ClientRegistration.consent", {"invite_token"})
        /\ Wants("ClientRegistration.consent_declined", {"invite_token"})
        /\ Wants("ClientRegistration.name", {"invite_data"})
        /\ Wants("ClientRegistration.phone", {"invite_data", "name"})
        /\ Wants("ClientRegistration.confirm", {"invite_data", "name", "phone"})
        /\ Wants("AddClient.phone", {"name"})
        /\ Wants("AddClient.confirm", {"name", "phone"})
        /\ Wants("Workday.choosing_action", {"day"})
        /\ Wants("Workday.setting_start", {"day"})
        /\ Wants("Workday.setting_end", {"day", "override_start"})
        /\ Wants("AddClient.name", {})
        /\ Wants("Workday.picking_date", {})
    BY MasterDataIs DEF Wants, BookingNeeds, ProfileNeeds, EditNeeds, ClientData
  <1>2. /\ "MasterRegistration.consent" \in States
        /\ "MasterRegistration.consent_declined" \in States
        /\ "MasterRegistration.name" \in States
        /\ "MasterRegistration.phone" \in States
        /\ "MasterRegistration.work_days" \in States
        /\ "MasterRegistration.work_time" \in States
        /\ "MasterRegistration.slot_size" \in States
        /\ "MasterRegistration.confirm" \in States
        /\ "ClientRegistration.consent" \in States
        /\ "ClientRegistration.consent_declined" \in States
        /\ "ClientRegistration.name" \in States
        /\ "ClientRegistration.phone" \in States
        /\ "ClientRegistration.confirm" \in States
        /\ "AddClient.phone" \in States
        /\ "AddClient.confirm" \in States
        /\ "Workday.choosing_action" \in States
        /\ "Workday.setting_start" \in States
        /\ "Workday.setting_end" \in States
        /\ "AddClient.name" \in States
        /\ "Workday.picking_date" \in States
    BY StateNames
  <1>3. /\ Needs["MasterRegistration.consent"] = {"token"}
        /\ Needs["MasterRegistration.consent_declined"] = {"token"}
        /\ Needs["MasterRegistration.name"] = {"token"}
        /\ Needs["MasterRegistration.phone"] = {"token", "name"}
        /\ Needs["MasterRegistration.work_days"] = {"token", "name", "phone"}
        /\ Needs["MasterRegistration.work_time"] = {"token", "name", "phone", "work_days"}
        /\ Needs["MasterRegistration.slot_size"] = {"token", "name", "phone", "work_days",
               "work_time"}
        /\ Needs["MasterRegistration.confirm"] = {"token", "name", "phone", "work_days",
               "work_time", "slot_size_min"}
        /\ Needs["ClientRegistration.consent"] = {"invite_token"}
        /\ Needs["ClientRegistration.consent_declined"] = {"invite_token"}
        /\ Needs["ClientRegistration.name"] = {"invite_data"}
        /\ Needs["ClientRegistration.phone"] = {"invite_data", "name"}
        /\ Needs["ClientRegistration.confirm"] = {"invite_data", "name", "phone"}
        /\ Needs["AddClient.phone"] = {"name"}
        /\ Needs["AddClient.confirm"] = {"name", "phone"}
        /\ Needs["Workday.choosing_action"] = {"day"}
        /\ Needs["Workday.setting_start"] = {"day"}
        /\ Needs["Workday.setting_end"] = {"day", "override_start"}
        /\ Needs["AddClient.name"] = {}
        /\ Needs["Workday.picking_date"] = {}
    BY <1>1, <1>2, NeedsRows
  <1>4. {"invite_data", "invite_token", "name", "override_start", "phone", "slot_size_min",
        "token", "work_days", "work_time"} \subseteq Keys
    BY DEF Keys
  <1> QED
    BY <1>3, <1>4, HasIs DEF Ready

LEMMA EditReadiness ==
    ASSUME NEW f \in Fsms
    PROVE  /\ Ready(f, "EditClient.action") <=> f.who # NoDay
           /\ Ready(f, "EditClient.edit_name") <=> f.who # NoDay
           /\ Ready(f, "EditClient.edit_phone") <=> f.who # NoDay
           /\ Ready(f, "EditClient.choosing") <=> "results" \in f.keys
           /\ Ready(f, "Masters.edit_alias") <=> "alias" \in f.keys
           /\ Ready(f, "none")
           /\ Ready(f, "Settings.edit")
           /\ Ready(f, "EditClient.query")
  <1>1. /\ Wants("EditClient.action", {"who"})
        /\ Wants("EditClient.edit_name", {"who"})
        /\ Wants("EditClient.edit_phone", {"who"})
        /\ Wants("EditClient.choosing", {"results"})
        /\ Wants("Masters.edit_alias", {"alias"})
        /\ Wants("none", {})
        /\ Wants("Settings.edit", {})
        /\ Wants("EditClient.query", {})
    BY MasterDataIs DEF Wants, BookingNeeds, ProfileNeeds, EditNeeds, ClientData
  <1>2. /\ "EditClient.action" \in States
        /\ "EditClient.edit_name" \in States
        /\ "EditClient.edit_phone" \in States
        /\ "EditClient.choosing" \in States
        /\ "Masters.edit_alias" \in States
        /\ "none" \in States
        /\ "Settings.edit" \in States
        /\ "EditClient.query" \in States
    BY StateNames
  <1>3. /\ Needs["EditClient.action"] = {"who"}
        /\ Needs["EditClient.edit_name"] = {"who"}
        /\ Needs["EditClient.edit_phone"] = {"who"}
        /\ Needs["EditClient.choosing"] = {"results"}
        /\ Needs["Masters.edit_alias"] = {"alias"}
        /\ Needs["none"] = {}
        /\ Needs["Settings.edit"] = {}
        /\ Needs["EditClient.query"] = {}
    BY <1>1, <1>2, NeedsRows
  <1>4. {"alias", "results"} \subseteq Keys
    BY DEF Keys
  <1> QED
    BY <1>3, <1>4, HasIs DEF Ready

-----------------------------------------------------------------------------
(* What the handlers write to it.                                          *)

LEMMA BlankIs ==
    /\ Blank \in Fsms /\ Blank.state = "none" /\ Blank.keys = {} /\ Blank.day = NoDay
    /\ Blank.picked = NoDay /\ Blank.who = NoDay /\ Blank.lost = FALSE /\ Blank.halted = FALSE
  BY StateNames DEF Blank, Fsms

LEMMA ToIs ==
    ASSUME NEW f \in Fsms, NEW state \in States
    PROVE  /\ To(f, state) \in Fsms /\ To(f, state).state = state
           /\ To(f, state).keys = f.keys /\ To(f, state).day = f.day
           /\ To(f, state).picked = f.picked /\ To(f, state).who = f.who
           /\ To(f, state).lost = FALSE /\ To(f, state).halted = f.halted
  BY DEF To, Fsms

LEMMA LostIs ==
    ASSUME NEW f \in Fsms
    PROVE  /\ Lost(f) \in Fsms /\ Lost(f).state = f.state /\ Lost(f).keys = f.keys
           /\ Lost(f).day = f.day /\ Lost(f).picked = f.picked /\ Lost(f).who = f.who
           /\ Lost(f).lost = TRUE /\ Lost(f).halted = f.halted
  BY DEF Lost, Fsms

LEMMA CutOffIs ==
    ASSUME NEW f \in Fsms
    PROVE  /\ CutOff(f) \in Fsms /\ CutOff(f).state = f.state /\ CutOff(f).keys = f.keys
           /\ CutOff(f).day = f.day /\ CutOff(f).picked = f.picked /\ CutOff(f).who = f.who
           /\ CutOff(f).lost = f.lost /\ CutOff(f).halted = TRUE
  BY DEF CutOff, Fsms

LEMMA PutIs ==
    ASSUME NEW f \in Fsms, NEW keys \in SUBSET Keys
    PROVE  /\ Put(f, keys) \in Fsms /\ Put(f, keys).state = f.state
           /\ Put(f, keys).keys = f.keys \cup keys /\ Put(f, keys).day = f.day
           /\ Put(f, keys).picked = f.picked /\ Put(f, keys).who = f.who
           /\ Put(f, keys).lost = f.lost /\ Put(f, keys).halted = f.halted
  BY DEF Put, Fsms

LEMMA DropIs ==
    ASSUME NEW f \in Fsms, NEW keys
    PROVE  /\ Drop(f, keys) \in Fsms /\ Drop(f, keys).state = f.state
           /\ Drop(f, keys).keys = f.keys \ keys /\ Drop(f, keys).day = f.day
           /\ Drop(f, keys).picked = f.picked /\ Drop(f, keys).who = f.who
           /\ Drop(f, keys).lost = f.lost /\ Drop(f, keys).halted = f.halted
  BY DEF Drop, Fsms

LEMMA ListedIs ==
    ASSUME NEW f \in Fsms, NEW d \in Days
    PROVE  /\ Listed(f, d) \in Fsms /\ Listed(f, d).state = f.state
           /\ Listed(f, d).keys = f.keys /\ Listed(f, d).day = d
           /\ Listed(f, d).picked = f.picked /\ Listed(f, d).who = f.who
           /\ Listed(f, d).lost = f.lost /\ Listed(f, d).halted = f.halted
  BY DEF Listed, Fsms

LEMMA PickedIs ==
    ASSUME NEW f \in Fsms, NEW d \in Days \cup {NoDay}
    PROVE  /\ Picked(f, d) \in Fsms /\ Picked(f, d).state = f.state
           /\ Picked(f, d).keys = f.keys /\ Picked(f, d).day = f.day
           /\ Picked(f, d).picked = d /\ Picked(f, d).who = f.who
           /\ Picked(f, d).lost = f.lost /\ Picked(f, d).halted = f.halted
  BY DEF Picked, Fsms

LEMMA UnlistedIs ==
    ASSUME NEW f \in Fsms
    PROVE  /\ Unlisted(f) \in Fsms /\ Unlisted(f).state = f.state
           /\ Unlisted(f).keys = f.keys /\ Unlisted(f).day = NoDay
           /\ Unlisted(f).picked = NoDay /\ Unlisted(f).who = f.who
           /\ Unlisted(f).lost = f.lost /\ Unlisted(f).halted = f.halted
  BY DEF Unlisted, Fsms

LEMMA SelectedIs ==
    ASSUME NEW f \in Fsms, NEW p \in People
    PROVE  /\ Selected(f, p) \in Fsms /\ Selected(f, p).state = f.state
           /\ Selected(f, p).keys = f.keys /\ Selected(f, p).day = f.day
           /\ Selected(f, p).picked = f.picked /\ Selected(f, p).who = p
           /\ Selected(f, p).lost = f.lost /\ Selected(f, p).halted = f.halted
  BY DEF Selected, Fsms

\* The data is ready for a state whatever else is said of the dialog
LEMMA ReadyAlike ==
    ASSUME NEW f \in Fsms, NEW g \in Fsms, NEW state \in States,
           f.keys = g.keys, f.day = g.day, f.picked = g.picked, f.who = g.who
    PROVE  /\ Ready(f, state) <=> Ready(g, state)
           /\ \A k : Carries(f, state, k) <=> Carries(g, state, k)
  BY DEF Ready, Carries, Has

\* A handler that writes f and goes on to a state, and one that was cut short
LEMMA DataWritten ==
    ASSUME NEW f \in Fsms, NEW state \in States, NEW k, f.halted \/ Carries(f, state, k)
    PROVE  /\ Data(To(f, state), k) /\ Data(Lost(To(f, state)), k) /\ Data(CutOff(f), k)
  <1>1. /\ To(f, state) \in Fsms /\ To(f, state).state = state
        /\ To(f, state).keys = f.keys /\ To(f, state).day = f.day
        /\ To(f, state).picked = f.picked /\ To(f, state).who = f.who
        /\ To(f, state).halted = f.halted
    BY ToIs
  <1>2. /\ Lost(To(f, state)) \in Fsms /\ Lost(To(f, state)).state = state
        /\ Lost(To(f, state)).keys = f.keys /\ Lost(To(f, state)).day = f.day
        /\ Lost(To(f, state)).picked = f.picked /\ Lost(To(f, state)).who = f.who
        /\ Lost(To(f, state)).halted = f.halted
    BY <1>1, LostIs
  <1>3. CutOff(f).halted
    BY CutOffIs
  <1>4. f.halted \/ (Carries(To(f, state), state, k) /\ Carries(Lost(To(f, state)), state, k))
    BY <1>1, <1>2, ReadyAlike
  <1> QED
    BY <1>1, <1>2, <1>3, <1>4 DEF Data

LEMMA BlankData ==
    ASSUME NEW k
    PROVE  Data(Blank, k)
  BY BlankIs, EditReadiness DEF Data, Carries, FormStates

-----------------------------------------------------------------------------
(* What the messages on the screen say, given the data.                    *)

\* A client's card is of a client
Person(kind, shows) == kind \in {"edit.view", "edit.menu", "edit.input"} => shows \in People

\* The dialog's message asks to confirm what the data has
Asks(f, kind, shows) ==
    /\ kind = "book.confirm" /\ f.state = "ClientBooking.confirm" => shows = f.day
    /\ kind = "add.confirm" /\ f.state = "AddBooking.confirm" => shows = f.picked \/ f.picked = NoDay
    /\ kind = "move.confirm" /\ f.state = "Reschedule.confirm" => shows = f.picked \/ f.picked = NoDay

DayStates == {"Workday.choosing_action", "Workday.setting_start", "Workday.setting_end"}

\* ... to override the day the data has, to edit the client it has
Edits(f, kind, shows) ==
    \/ f.halted
    \/ /\ kind = "day.menu" /\ f.state \in DayStates => shows = f.day
       /\ kind = "edit.input" /\ f.state \in Asked => shows = f.who

\* The buttons of a client's consent are heard but for one
Works(kind, state) ==
    \A b : <<kind, b>> \in Keyboards =>
        \/ Heard(b, state)
        \/ kind \in {"creg.consent", "creg.declined"} /\ b = "c:registration:cancel"

Away(kind, state) == \E b : <<kind, b>> \in Keyboards /\ Heard(b, state)

Stuck == {"book.confirm", "mreg.consent", "creg.consent", "creg.declined"}

\* The dialog's message has buttons that are heard
Answers(f, kind) ==
    \/ f.halted
    \/ /\ f.lost \/ Works(kind, f.state)
       /\ f.state \in {"Settings.edit", "Masters.edit_alias"} => Free(kind)
       /\ kind \in {"paywall", "bare"} \/ Away(kind, f.state) \/ (f.lost /\ kind \in Stuck)

\* What the dialog's own message is
Own(f, kind, shows) ==
    Person(kind, shows) /\ Asks(f, kind, shows) /\ Edits(f, kind, shows) /\ Answers(f, kind)

\* What a main message is, which can become the dialog's own again
Stays(f, kind, shows) ==
    /\ Edits(f, kind, shows)
    /\ ~f.halted /\ kind = "day.menu" => f.state # "Workday.picking_date"

Fits(f, m) ==
    /\ Person(m.kind, m.shows)
    /\ m.front => Own(f, m.kind, m.shows)
    /\ m.main => Stays(f, m.kind, m.shows)

Fitting(f, c) == \A n \in DOMAIN c : Fits(f, c[n])

Decent(c) == \A n \in DOMAIN c : Person(c[n].kind, c[n].shows)

Idle(c) == \A n \in DOMAIN c : ~c[n].front /\ ~c[n].main /\ Person(c[n].kind, c[n].shows)

Coherent(f, c, k) == f \in Fsms /\ c \in Chats /\ Data(f, k) /\ Fitting(f, c)

IInv ==
    /\ Coherent(fsm, chat, consent)
    /\ role \in {"client", "master"} /\ registered \in BOOLEAN /\ consent \in BOOLEAN

-----------------------------------------------------------------------------
(* What becomes of a fitting message.                                      *)

\* A message without its buttons
LEMMA BareOwn ==
    ASSUME NEW f, NEW shows
    PROVE  Own(f, "bare", shows) /\ Own(f, "paywall", shows)
           /\ Stays(f, "bare", shows) /\ Stays(f, "paywall", shows)
  <1>1. /\ \A b : <<"bare", b>> \notin Keyboards
        /\ \A b : <<"paywall", b>> \notin Keyboards
    BY OtherKeys
  <1>2. /\ Works("bare", f.state) /\ Works("paywall", f.state)
        /\ Free("bare") /\ Free("paywall")
    BY <1>1 DEF Works, Free
  <1> QED
    BY <1>2 DEF Own, Stays, Person, Asks, Edits, Answers

LEMMA WeakerFits ==
    ASSUME NEW f, NEW m \in Messages, NEW m0 \in Messages, Fits(f, m0), Weaker(m, m0)
    PROVE  Fits(f, m)
  <1>1. CASE m.kind = "bare"
    <2>1. Person("bare", m.shows)
      BY DEF Person
    <2> QED
      BY <1>1, <2>1, BareOwn DEF Fits
  <1>2. CASE m.kind = m0.kind
    BY <1>2 DEF Fits, Weaker
  <1> QED
    BY <1>1, <1>2 DEF Weaker

LEMMA BelowFits ==
    ASSUME NEW f, NEW c \in Chats, NEW d \in Chats, Fitting(f, d), Below(c, d)
    PROVE  Fitting(f, c)
  <1>1. \A n \in DOMAIN c : c[n] \in Messages
    BY ChatDomain
  <1>2. \A n \in DOMAIN d : d[n] \in Messages
    BY ChatDomain
  <1>3. ASSUME NEW n \in DOMAIN c
        PROVE  Fits(f, c[n])
    <2>1. PICK j \in DOMAIN d : Weaker(c[n], d[j])
      BY DEF Below
    <2>2. Fits(f, d[j])
      BY <2>1 DEF Fitting
    <2> QED
      BY <1>1, <1>2, <2>1, <2>2, WeakerFits
  <1> QED
    BY <1>3 DEF Fitting

LEMMA FaintFits ==
    ASSUME NEW f, NEW d \in Chats, NEW m \in Messages, Faint(m, d), Decent(d),
           \A n \in DOMAIN d : d[n].main => Stays(f, d[n].kind, d[n].shows)
    PROVE  Fits(f, m)
  <1>1. PICK j \in DOMAIN d : Weaker(m, d[j])
    BY DEF Faint
  <1>2. Person(d[j].kind, d[j].shows) /\ (d[j].main => Stays(f, d[j].kind, d[j].shows))
    BY <1>1 DEF Decent
  <1>3. Person(m.kind, m.shows)
    BY <1>1, <1>2 DEF Weaker, Person
  <1>4. m.main => Stays(f, m.kind, m.shows)
    BY <1>1, <1>2, BareOwn DEF Weaker
  <1> QED
    BY <1>3, <1>4 DEF Fits, Faint

LEMMA IdleFits ==
    ASSUME NEW f, NEW c, Idle(c)
    PROVE  Fitting(f, c)
  BY DEF Idle, Fitting, Fits

LEMMA FittingDecent ==
    ASSUME NEW f, NEW c, Fitting(f, c)
    PROVE  Decent(c)
  BY DEF Fitting, Fits, Decent

\* A main message is at odds with the data in these states only
EditingStates == DayStates \cup {"Workday.picking_date"} \cup Asked

LEMMA CalmStays ==
    ASSUME NEW f, NEW kind, NEW shows, f.halted \/ f.state \notin EditingStates
    PROVE  Stays(f, kind, shows)
  BY DEF Stays, Edits, EditingStates

\* Of a handler that was cut short only what was to be confirmed is still asked
Agrees(f, g) ==
    /\ f.state = g.state
    /\ f.state = "ClientBooking.confirm" => f.day = g.day
    /\ f.state \in {"AddBooking.confirm", "Reschedule.confirm"} => f.picked \in {g.picked, NoDay}

LEMMA CutOffFits ==
    ASSUME NEW f \in Fsms, NEW g, NEW c, Fitting(g, c), Agrees(f, g)
    PROVE  Fitting(CutOff(f), c)
  <1>1. /\ CutOff(f).halted /\ CutOff(f).state = f.state /\ CutOff(f).day = f.day
        /\ CutOff(f).picked = f.picked
    BY CutOffIs
  <1>2. ASSUME NEW kind, NEW shows, Own(g, kind, shows)
        PROVE  Own(CutOff(f), kind, shows)
    <2>1. Asks(CutOff(f), kind, shows)
      BY <1>1, <1>2 DEF Own, Asks, Agrees
    <2> QED
      BY <1>1, <1>2, <2>1 DEF Own, Edits, Answers
  <1>3. \A kind, shows : Stays(CutOff(f), kind, shows)
    BY <1>1, CalmStays
  <1> QED
    BY <1>2, <1>3 DEF Fitting, Fits

\* The messages that ask for nothing of the data
Confirms == {"book.confirm", "add.confirm", "move.confirm"}

LEMMA CutOffOwn ==
    ASSUME NEW f \in Fsms, NEW kind, NEW shows, Person(kind, shows),
           \/ kind \notin Confirms
           \/ f.state \notin {"ClientBooking.confirm", "AddBooking.confirm", "Reschedule.confirm"}
    PROVE  Own(CutOff(f), kind, shows)
  BY CutOffIs DEF Own, Asks, Edits, Answers, Confirms

-----------------------------------------------------------------------------
(* The chats a handler leaves.                                             *)

LEMMA ClearedIdle ==
    ASSUME NEW c \in Chats, Decent(c)
    PROVE  Cleared(c) \in Chats /\ Idle(Cleared(c)) /\ DOMAIN Cleared(c) = DOMAIN c
  BY ClearedIs DEF Idle, Decent, Faint

LEMMA BelowDecent ==
    ASSUME NEW c \in Chats, NEW d \in Chats, Decent(d), Below(c, d)
    PROVE  Decent(c)
  <1>1. ASSUME NEW n \in DOMAIN c
        PROVE  Person(c[n].kind, c[n].shows)
    <2>1. PICK j \in DOMAIN d : Weaker(c[n], d[j])
      BY DEF Below
    <2> QED
      BY <2>1 DEF Decent, Weaker, Person
  <1> QED
    BY <1>1 DEF Decent

LEMMA SweptDecent ==
    ASSUME NEW C, \A c \in C : c \in Chats /\ Decent(c), NEW buckets, NEW d \in Swept(C, buckets)
    PROVE  d \in Chats /\ Decent(d)
  <1>1. d \in Chats /\ \E c \in C : Below(d, c)
    BY SweptIs
  <1> QED
    BY <1>1, BelowDecent

LEMMA SweptFits ==
    ASSUME NEW f, NEW C, \A c \in C : c \in Chats /\ Fitting(f, c), NEW buckets,
           NEW d \in Swept(C, buckets)
    PROVE  d \in Chats /\ Fitting(f, d)
  <1>1. d \in Chats /\ \E c \in C : Below(d, c)
    BY SweptIs
  <1> QED
    BY <1>1, BelowFits

LEMMA FreshIdle ==
    ASSUME NEW C, \A c \in C : c \in Chats /\ Decent(c), NEW bucket, NEW d \in Fresh(C, bucket)
    PROVE  d \in Chats /\ Idle(d) /\ Decent(d)
  <1>1. PICK c \in Swept(C, {bucket}) : d = Cleared(c)
    BY DEF Fresh
  <1>2. c \in Chats /\ Decent(c)
    BY <1>1, SweptDecent
  <1>3. d \in Chats /\ Idle(d)
    BY <1>1, <1>2, ClearedIdle
  <1> QED
    BY <1>3 DEF Idle, Decent

LEMMA SentFits ==
    ASSUME NEW f, NEW c \in Chats, Decent(c), NEW kind \in Kinds, NEW shows \in Shown,
           Own(f, kind, shows),
           \A n \in DOMAIN c : c[n].main => Stays(f, c[n].kind, c[n].shows)
    PROVE  Sent(c, kind, shows) \in Chats /\ Fitting(f, Sent(c, kind, shows))
  <1> DEFINE d == Sent(c, kind, shows)
  <1>1. /\ d \in Chats
        /\ \A n \in DOMAIN d : \/ Faint(d[n], c)
                               \/ /\ d[n].kind = kind /\ d[n].shows = shows
                                  /\ d[n].front /\ ~d[n].main
    BY SentIs
  <1> HIDE DEF d
  <1>2. ASSUME NEW n \in DOMAIN d
        PROVE  Fits(f, d[n])
    <2>1. d[n] \in Messages
      BY <1>1, ChatDomain
    <2>2. CASE Faint(d[n], c)
      BY <2>1, <2>2, FaintFits
    <2>3. CASE d[n].kind = kind /\ d[n].shows = shows /\ d[n].front /\ ~d[n].main
      BY <2>3 DEF Fits, Own
    <2> QED
      BY <1>1, <2>2, <2>3
  <1> QED
    BY <1>1, <1>2 DEF Fitting, d

LEMMA DrawnFits ==
    ASSUME NEW f, NEW c \in Chats, Decent(c), NEW i \in DOMAIN c, NEW kind \in Kinds,
           NEW shows \in Shown, Own(f, kind, shows),
           \A n \in DOMAIN c : c[n].main => Stays(f, c[n].kind, c[n].shows),
           c[i].main => Stays(f, kind, shows)
    PROVE  Drawn(c, i, kind, shows) \in Chats /\ Fitting(f, Drawn(c, i, kind, shows))
  <1> DEFINE d == Drawn(c, i, kind, shows)
  <1>1. /\ d \in Chats /\ DOMAIN d = DOMAIN c
        /\ \A n \in DOMAIN c \ {i} : Faint(d[n], c)
        /\ d[i].kind = kind /\ d[i].shows = shows /\ d[i].front /\ d[i].main = c[i].main
    BY DrawnIs
  <1> HIDE DEF d
  <1>2. ASSUME NEW n \in DOMAIN d
        PROVE  Fits(f, d[n])
    <2>1. d[n] \in Messages
      BY <1>1, ChatDomain
    <2>2. CASE n # i
      BY <1>1, <1>2, <2>1, <2>2, FaintFits
    <2>3. CASE n = i
      BY <1>1, <2>3 DEF Fits, Own
    <2> QED
      BY <2>2, <2>3
  <1> QED
    BY <1>1, <1>2 DEF Fitting, d

LEMMA DrawnDecent ==
    ASSUME NEW c \in Chats, Decent(c), NEW i \in DOMAIN c, NEW kind \in Kinds,
           NEW shows \in Shown, Person(kind, shows)
    PROVE  Drawn(c, i, kind, shows) \in Chats /\ Decent(Drawn(c, i, kind, shows))
  <1> DEFINE d == Drawn(c, i, kind, shows)
  <1>1. /\ d \in Chats /\ DOMAIN d = DOMAIN c
        /\ \A n \in DOMAIN c \ {i} : Faint(d[n], c)
        /\ d[i].kind = kind /\ d[i].shows = shows
    BY DrawnIs
  <1> HIDE DEF d
  <1>2. ASSUME NEW n \in DOMAIN c \ {i}
        PROVE  Person(d[n].kind, d[n].shows)
    <2>1. PICK j \in DOMAIN c : Weaker(d[n], c[j])
      BY <1>1 DEF Faint
    <2> QED
      BY <2>1 DEF Decent, Weaker, Person
  <1> QED
    BY <1>1, <1>2 DEF Decent, d

LEMMA InFrontFits ==
    ASSUME NEW f, NEW c \in Chats, Decent(c), NEW i \in DOMAIN c,
           Own(f, c[i].kind, c[i].shows),
           \A n \in DOMAIN c : c[n].main => Stays(f, c[n].kind, c[n].shows)
    PROVE  InFront(c, i) \in Chats /\ Fitting(f, InFront(c, i))
  <1> DEFINE d == InFront(c, i)
  <1>1. /\ d \in Chats /\ DOMAIN d = DOMAIN c
        /\ \A n \in DOMAIN c \ {i} : Faint(d[n], c)
        /\ d[i] = [c[i] EXCEPT !.front = TRUE]
    BY InFrontIs
  <1> HIDE DEF d
  <1>2. ASSUME NEW n \in DOMAIN d
        PROVE  Fits(f, d[n])
    <2>1. d[n] \in Messages /\ c[i] \in Messages
      BY <1>1, ChatDomain
    <2>2. CASE n # i
      BY <1>1, <1>2, <2>1, <2>2, FaintFits
    <2>3. CASE n = i
      <3>1. d[n].kind = c[i].kind /\ d[n].shows = c[i].shows /\ d[n].main = c[i].main
        BY <1>1, <2>1, <2>3 DEF Messages
      <3> QED
        BY <3>1 DEF Fits, Own
    <2> QED
      BY <2>2, <2>3
  <1> QED
    BY <1>1, <1>2 DEF Fitting, d

LEMMA FadedFits ==
    ASSUME NEW f, NEW c \in Chats, Decent(c),
           \A n \in DOMAIN c : c[n].main => Stays(f, c[n].kind, c[n].shows)
    PROVE  Faded(c) \in Chats /\ Fitting(f, Faded(c)) /\ DOMAIN Faded(c) = DOMAIN c
  <1> DEFINE d == Faded(c)
  <1>1. /\ d \in Chats /\ DOMAIN d = DOMAIN c /\ \A n \in DOMAIN c : Faint(d[n], c)
    BY FadedIs
  <1> HIDE DEF d
  <1>2. ASSUME NEW n \in DOMAIN d
        PROVE  Fits(f, d[n])
    BY <1>1, ChatDomain, FaintFits
  <1> QED
    BY <1>1, <1>2 DEF Fitting, d

LEMMA TurnedFits ==
    ASSUME NEW f, NEW c \in Chats, Fitting(f, c), NEW i \in DOMAIN c, NEW kind \in Kinds,
           NEW shows \in Shown, Person(kind, shows), c[i].front => Own(f, kind, shows),
           c[i].main => Stays(f, kind, shows)
    PROVE  Turned(c, i, kind, shows) \in Chats /\ Fitting(f, Turned(c, i, kind, shows))
  <1> DEFINE d == Turned(c, i, kind, shows)
  <1>1. /\ d \in Chats /\ DOMAIN d = DOMAIN c
        /\ \A n \in DOMAIN c \ {i} : d[n] = c[n]
        /\ d[i].kind = kind /\ d[i].shows = shows
        /\ d[i].front = c[i].front /\ d[i].main = c[i].main
    BY TurnedIs
  <1> HIDE DEF d
  <1> QED
    BY <1>1 DEF Fitting, Fits, d

-----------------------------------------------------------------------------
(* The ways a handler ends, once the data it writes and the message it     *)
(* draws are right.                                                        *)

LEMMA CutShortEnds ==
    ASSUME NEW f \in Fsms, NEW c \in Chats, Fitting(CutOff(f), c), NEW k,
           CutShort(f), chat' = c
    PROVE  Coherent(fsm', chat', k)
  BY CutOffIs DEF CutShort, CutOff, Coherent, Data

LEMMA BlankEnds ==
    ASSUME NEW c \in Chats, Idle(c), NEW k, fsm' = Blank, chat' = c
    PROVE  Coherent(fsm', chat', k)
  BY BlankIs, BlankData, IdleFits DEF Coherent

LEMMA ForgetEnds ==
    ASSUME IInv, NEW k, Forget
    PROVE  Coherent(fsm', chat', k)
  <1>1. Cleared(chat) \in Chats /\ Idle(Cleared(chat))
    BY ClearedIdle, FittingDecent DEF IInv, Coherent
  <1> QED
    BY <1>1, BlankEnds DEF Forget

LEMMA ResetEnds ==
    ASSUME IInv, NEW C, \A c \in C : c \in Chats /\ Fitting(CutOff(fsm), c), NEW bucket, NEW k,
           Reset(C, bucket)
    PROVE  Coherent(fsm', chat', k)
  <1>1. \A c \in C : c \in Chats /\ Decent(c)
    BY FittingDecent
  <1>2. fsm \in Fsms
    BY DEF IInv, Coherent
  <1>3. CASE fsm' = Blank /\ chat' \in Fresh(C, bucket)
    <2>1. PICK c \in Fresh(C, bucket) : chat' = c
      BY <1>3
    <2>2. c \in Chats /\ Idle(c)
      BY <1>1, <2>1, FreshIdle
    <2> QED
      BY <1>3, <2>1, <2>2, BlankEnds
  <1>4. CASE CutShort(fsm) /\ chat' \in C \cup Swept(C, {bucket})
    <2>1. PICK c \in C \cup Swept(C, {bucket}) : chat' = c
      BY <1>4
    <2>2. c \in Chats /\ Fitting(CutOff(fsm), c)
      BY <2>1, SweptFits
    <2> QED
      BY <1>2, <1>4, <2>1, <2>2, CutShortEnds
  <1> QED
    BY <1>3, <1>4 DEF Reset

LEMMA SendEnds ==
    ASSUME NEW f \in Fsms, NEW state \in States, state \notin EditingStates,
           NEW k, f.halted \/ Carries(f, state, k),
           NEW C, \A c \in C : c \in Chats /\ Fitting(CutOff(f), c),
           NEW kind \in Kinds, NEW shows \in Shown,
           Own(To(f, state), kind, shows), Own(CutOff(f), kind, shows),
           Send(C, f, state, kind, shows)
    PROVE  Coherent(fsm', chat', k)
  <1>1. \A c \in C : c \in Chats /\ Decent(c)
    BY FittingDecent
  <1>2. To(f, state) \in Fsms /\ To(f, state).state = state
    BY ToIs
  <1>3. Data(To(f, state), k)
    BY DataWritten
  <1>4. CASE fsm' = To(f, state) /\ chat' \in {Sent(c, kind, shows) : c \in C}
    <2>1. PICK c \in C : chat' = Sent(c, kind, shows)
      BY <1>4
    <2>2. c \in Chats /\ Decent(c)
      BY <1>1, <2>1
    <2>3. \A n \in DOMAIN c : c[n].main => Stays(To(f, state), c[n].kind, c[n].shows)
      BY <1>2, CalmStays
    <2>4. Sent(c, kind, shows) \in Chats /\ Fitting(To(f, state), Sent(c, kind, shows))
      BY <2>2, <2>3, SentFits
    <2> QED
      BY <1>2, <1>3, <1>4, <2>1, <2>4 DEF Coherent
  <1>5. CASE CutShort(f) /\ chat' \in C
    <2>1. PICK c \in C : chat' = c
      BY <1>5
    <2> QED
      BY <1>5, <2>1, CutShortEnds
  <1>6. CASE CutShort(f) /\ chat' \in {Sent(c, kind, shows) : c \in C}
    <2>1. PICK c \in C : chat' = Sent(c, kind, shows)
      BY <1>6
    <2>2. c \in Chats /\ Decent(c)
      BY <1>1, <2>1
    <2>3. \A n \in DOMAIN c : c[n].main => Stays(CutOff(f), c[n].kind, c[n].shows)
      BY CutOffIs, CalmStays
    <2>4. Sent(c, kind, shows) \in Chats /\ Fitting(CutOff(f), Sent(c, kind, shows))
      BY <2>2, <2>3, SentFits
    <2> QED
      BY <1>6, <2>1, <2>4, CutShortEnds
  <1> QED
    BY <1>4, <1>5, <1>6 DEF Send

LEMMA RedrawEnds ==
    ASSUME NEW f \in Fsms, NEW state \in States, NEW k, f.halted \/ Carries(f, state, k),
           NEW c \in Chats, Fitting(CutOff(f), c), NEW i \in DOMAIN c,
           NEW kind \in Kinds, NEW shows \in Shown,
           Own(To(f, state), kind, shows), Own(CutOff(f), kind, shows),
           Own(Lost(To(f, state)), c[i].kind, c[i].shows),
           c[i].main => Stays(To(f, state), kind, shows),
           \A n \in DOMAIN c : c[n].main => Stays(To(f, state), c[n].kind, c[n].shows),
           Redraw(c, i, f, state, kind, shows)
    PROVE  Coherent(fsm', chat', k)
  <1>1. Decent(c)
    BY FittingDecent
  <1>2. To(f, state) \in Fsms /\ Lost(To(f, state)) \in Fsms
    BY ToIs, LostIs
  <1>3. Data(To(f, state), k) /\ Data(Lost(To(f, state)), k)
    BY DataWritten
  <1>4. CASE fsm' = To(f, state) /\ chat' = Drawn(c, i, kind, shows)
    <2>1. Drawn(c, i, kind, shows) \in Chats /\ Fitting(To(f, state), Drawn(c, i, kind, shows))
      BY <1>1, DrawnFits
    <2> QED
      BY <1>2, <1>3, <1>4, <2>1 DEF Coherent
  <1>5. CASE fsm' = [To(f, state) EXCEPT !.lost = TRUE] /\ chat' = InFront(c, i)
    <2>1. \A n \in DOMAIN c : c[n].main => Stays(Lost(To(f, state)), c[n].kind, c[n].shows)
      <3>1. /\ Lost(To(f, state)).halted = To(f, state).halted
            /\ Lost(To(f, state)).state = To(f, state).state
            /\ Lost(To(f, state)).day = To(f, state).day
            /\ Lost(To(f, state)).who = To(f, state).who
        BY <1>2, ToIs, LostIs
      <3> QED
        BY <3>1 DEF Stays, Edits
    <2>2. InFront(c, i) \in Chats /\ Fitting(Lost(To(f, state)), InFront(c, i))
      BY <1>1, <2>1, InFrontFits
    <2>3. fsm' = Lost(To(f, state))
      BY <1>5 DEF Lost
    <2> QED
      BY <1>2, <1>3, <1>5, <2>2, <2>3 DEF Coherent
  <1>6. CASE CutShort(f) /\ chat' = c
    BY <1>6, CutShortEnds
  <1>7. CASE CutShort(f) /\ chat' = Drawn(c, i, kind, shows)
    <2>1. /\ \A n \in DOMAIN c : c[n].main => Stays(CutOff(f), c[n].kind, c[n].shows)
          /\ Stays(CutOff(f), kind, shows)
      BY CutOffIs, CalmStays
    <2>2. Drawn(c, i, kind, shows) \in Chats /\ Fitting(CutOff(f), Drawn(c, i, kind, shows))
      BY <1>1, <2>1, DrawnFits
    <2> QED
      BY <1>7, <2>2, CutShortEnds
  <1> QED
    BY <1>4, <1>5, <1>6, <1>7 DEF Redraw

\* ... when no main message is at odds with the state
LEMMA RedrawEndsCalm ==
    ASSUME NEW f \in Fsms, NEW state \in States, state \notin EditingStates,
           NEW k, f.halted \/ Carries(f, state, k),
           NEW c \in Chats, Fitting(CutOff(f), c), NEW i \in DOMAIN c,
           NEW kind \in Kinds, NEW shows \in Shown,
           Own(To(f, state), kind, shows), Own(CutOff(f), kind, shows),
           Own(Lost(To(f, state)), c[i].kind, c[i].shows),
           Redraw(c, i, f, state, kind, shows)
    PROVE  Coherent(fsm', chat', k)
  <1>1. To(f, state).state = state
    BY ToIs
  <1>2. /\ Stays(To(f, state), kind, shows)
        /\ \A n \in DOMAIN c : Stays(To(f, state), c[n].kind, c[n].shows)
    BY <1>1, CalmStays
  <1> QED
    BY <1>2, RedrawEnds

LEMMA RedrawOrSendEnds ==
    ASSUME NEW f \in Fsms, NEW state \in States, state \notin EditingStates,
           NEW k, f.halted \/ Carries(f, state, k),
           NEW c \in Chats, Fitting(CutOff(f), c), NEW i \in DOMAIN c,
           NEW kind \in Kinds, NEW shows \in Shown,
           Own(To(f, state), kind, shows), Own(CutOff(f), kind, shows),
           RedrawOrSend(c, i, f, state, kind, shows)
    PROVE  Coherent(fsm', chat', k)
  <1>1. Decent(c)
    BY FittingDecent
  <1>2. To(f, state) \in Fsms /\ To(f, state).state = state
    BY ToIs
  <1>3. Data(To(f, state), k)
    BY DataWritten
  <1>4. /\ \A n \in DOMAIN c : Stays(To(f, state), c[n].kind, c[n].shows)
        /\ Stays(To(f, state), kind, shows)
        /\ \A n \in DOMAIN c : Stays(CutOff(f), c[n].kind, c[n].shows)
        /\ Stays(CutOff(f), kind, shows)
    BY <1>2, CutOffIs, CalmStays
  <1>5. /\ Drawn(c, i, kind, shows) \in Chats /\ Fitting(To(f, state), Drawn(c, i, kind, shows))
        /\ Sent(c, kind, shows) \in Chats /\ Fitting(To(f, state), Sent(c, kind, shows))
    BY <1>1, <1>4, DrawnFits, SentFits
  <1>6. /\ Fitting(CutOff(f), Drawn(c, i, kind, shows))
        /\ Fitting(CutOff(f), Sent(c, kind, shows))
    BY <1>1, <1>4, DrawnFits, SentFits
  <1>7. CASE fsm' = To(f, state) /\ chat' \in {Drawn(c, i, kind, shows), Sent(c, kind, shows)}
    BY <1>2, <1>3, <1>5, <1>7 DEF Coherent
  <1>8. CASE /\ CutShort(f)
             /\ chat' \in {c} \cup {Drawn(c, i, kind, shows), Sent(c, kind, shows)}
    <2>1. chat' \in Chats /\ Fitting(CutOff(f), chat')
      BY <1>5, <1>6, <1>8
    <2> QED
      BY <1>8, <2>1, CutShortEnds
  <1> QED
    BY <1>7, <1>8 DEF RedrawOrSend

\* The data is left alone
LEMMA RefuseEnds ==
    ASSUME IInv, NEW c \in Chats, Fitting(fsm, c), NEW k, consent => k, Refuse(c)
    PROVE  Coherent(fsm', chat', k)
  BY DEF IInv, Coherent, Refuse, Data, Carries

LEMMA RefreshEnds ==
    ASSUME IInv, NEW c \in Chats, Fitting(fsm, c), NEW i \in DOMAIN c, NEW kind \in Kinds,
           Own(fsm, kind, NoDay), Stays(fsm, kind, NoDay), NEW k, consent => k,
           Refresh(c, i, kind)
    PROVE  Coherent(fsm', chat', k)
  <1>1. NoDay \in Shown
    BY DEF Shown
  <1>2. Decent(c) /\ \A n \in DOMAIN c : c[n].main => Stays(fsm, c[n].kind, c[n].shows)
    BY FittingDecent DEF Fitting, Fits
  <1>3. Drawn(c, i, kind, NoDay) \in Chats /\ Fitting(fsm, Drawn(c, i, kind, NoDay))
    BY <1>1, <1>2, DrawnFits
  <1>4. chat' \in Chats /\ Fitting(fsm, chat') /\ fsm' = fsm
    BY <1>3 DEF Refresh
  <1> QED
    BY <1>4 DEF IInv, Coherent, Data, Carries

\* The tapped message is tracked first
LEMMA TrackFits ==
    ASSUME IInv, NEW i \in DOMAIN chat
    PROVE  /\ Track(i) \in Chats /\ DOMAIN Track(i) = DOMAIN chat
           /\ Fitting(fsm, Track(i))
           /\ Track(i)[i].kind = chat[i].kind /\ Track(i)[i].shows = chat[i].shows
  <1>1. chat \in Chats /\ Fitting(fsm, chat)
    BY DEF IInv, Coherent
  <1>2. /\ Track(i) \in Chats /\ Below(Track(i), chat) /\ DOMAIN Track(i) = DOMAIN chat
        /\ Track(i)[i].kind = chat[i].kind /\ Track(i)[i].shows = chat[i].shows
    BY <1>1, TrackedIs DEF Track
  <1> QED
    BY <1>1, <1>2, BelowFits

\* ... and its buttons removed, perhaps
LEMMA TakenFits ==
    ASSUME IInv, NEW f, NEW c \in Chats, Fitting(f, c), NEW i \in DOMAIN c
    PROVE  Bare(c, i) \in Chats /\ Fitting(f, Bare(c, i)) /\ DOMAIN Bare(c, i) = DOMAIN c
  BY BareIs, BelowFits

-----------------------------------------------------------------------------
(* Taps.                                                                   *)

LEMMA Tapped ==
    ASSUME IInv, NEW i \in DOMAIN chat, NEW b, On(i, b)
    PROVE  <<chat[i].kind, b>> \in Keyboards /\ Heard(b, fsm.state)
  <1>1. chat[i] \in Messages
    BY ChatDomain DEF IInv, Coherent
  <1>2. chat[i].kind \in Kinds
    BY <1>1 DEF Messages
  <1> QED
    BY <1>2, KeyboardRows, FilterRows DEF On

-----------------------------------------------------------------------------
(* Which messages are right in which states.                               *)

LEMMA AnswersAtHome ==
    ASSUME NEW f, NEW kind, Home(kind, f.state), \E b : <<kind, b>> \in Keyboards,
           f.state \notin {"Settings.edit", "Masters.edit_alias"} \/ Free(kind)
    PROVE  Answers(f, kind)
  BY DEF Answers, Works, Away, Home

LEMMA OwnAtHome ==
    ASSUME NEW f, NEW kind, Home(kind, f.state), \E b : <<kind, b>> \in Keyboards,
           f.state \notin {"Settings.edit", "Masters.edit_alias"} \/ Free(kind),
           kind \notin Confirms, kind # "day.menu",
           kind \notin {"edit.view", "edit.menu", "edit.input"}, NEW shows
    PROVE  Own(f, kind, shows)
  BY AnswersAtHome DEF Own, Person, Asks, Edits, Confirms

\* A message that asks for no state is right in every one
LEMMA FreeOwn ==
    ASSUME NEW f, NEW shows
    PROVE  /\ Own(f, "settings", shows) /\ Own(f, "settings.prompt", shows)
           /\ Own(f, "schedule", shows) /\ Own(f, "client card", shows)
           /\ Own(f, "master card", shows) /\ Own(f, "alias.prompt", shows)
  <1>1. \A kind : Free(kind) => Home(kind, f.state)
    BY DEF Free, Home, Heard
  <1>2. /\ Free("settings") /\ Free("settings.prompt") /\ Free("schedule")
        /\ Free("client card") /\ Free("master card") /\ Free("alias.prompt")
    BY FreeKinds
  <1>3. /\ \E b : <<"settings", b>> \in Keyboards
        /\ \E b : <<"settings.prompt", b>> \in Keyboards
        /\ \E b : <<"schedule", b>> \in Keyboards
        /\ \E b : <<"client card", b>> \in Keyboards
        /\ \E b : <<"master card", b>> \in Keyboards
        /\ \E b : <<"alias.prompt", b>> \in Keyboards
    BY SettingsKeys, OtherKeys
  <1> QED
    BY <1>1, <1>2, <1>3, OwnAtHome DEF Confirms

\* The message that could not be replaced
LEMMA OwnIfLost ==
    ASSUME NEW f, f.lost, NEW kind, NEW shows,
           Person(kind, shows), Asks(f, kind, shows), Edits(f, kind, shows),
           f.state \notin {"Settings.edit", "Masters.edit_alias"},
           Away(kind, f.state) \/ kind \in Stuck \cup {"paywall", "bare"}
    PROVE  Own(f, kind, shows)
  BY DEF Own, Answers, Stuck

LEMMA ClientBookingOwn ==
    ASSUME NEW f, NEW shows
    PROVE  /\ f.state = "ClientBooking.selecting_master" => Own(f, "book.masters", shows)
           /\ f.state = "ClientBooking.selecting_date" => Own(f, "book.calendar", shows)
           /\ f.state = "ClientBooking.selecting_slot" => Own(f, "book.slots", shows)
  <1>1. /\ \E b : <<"book.masters", b>> \in Keyboards
        /\ \E b : <<"book.calendar", b>> \in Keyboards
        /\ \E b : <<"book.slots", b>> \in Keyboards
    BY ClientBookingKeys
  <1> QED
    BY <1>1, ClientBookingHome, OwnAtHome DEF Confirms

LEMMA AddBookingOwn ==
    ASSUME NEW f, NEW shows
    PROVE  /\ f.state = "AddBooking.no_clients" => Own(f, "add.noclients", shows)
           /\ f.state = "AddBooking.search_client" => Own(f, "add.prompt", shows)
           /\ f.state = "AddBooking.search_client" => Own(f, "add.clients", shows)
           /\ f.state = "AddBooking.selecting_date" => Own(f, "add.calendar", shows)
           /\ f.state = "AddBooking.selecting_date" => Own(f, "add.paywall", shows)
           /\ f.state = "AddBooking.selecting_slot" => Own(f, "add.slots", shows)
  <1>1. /\ \E b : <<"add.noclients", b>> \in Keyboards
        /\ \E b : <<"add.prompt", b>> \in Keyboards
        /\ \E b : <<"add.clients", b>> \in Keyboards
        /\ \E b : <<"add.calendar", b>> \in Keyboards
        /\ \E b : <<"add.paywall", b>> \in Keyboards
        /\ \E b : <<"add.slots", b>> \in Keyboards
    BY AddBookingKeys
  <1> QED
    BY <1>1, AddBookingHome, OwnAtHome DEF Confirms

LEMMA RescheduleOwn ==
    ASSUME NEW f, NEW shows
    PROVE  /\ f.state = "Reschedule.selecting_date" => Own(f, "move.calendar", shows)
           /\ f.state = "Reschedule.selecting_date" => Own(f, "move.paywall", shows)
           /\ f.state = "Reschedule.selecting_slot" => Own(f, "move.slots", shows)
  <1>1. /\ \E b : <<"move.calendar", b>> \in Keyboards
        /\ \E b : <<"move.paywall", b>> \in Keyboards
        /\ \E b : <<"move.slots", b>> \in Keyboards
    BY RescheduleKeys
  <1> QED
    BY <1>1, RescheduleHome, OwnAtHome DEF Confirms

LEMMA WorkdayOwn ==
    ASSUME NEW f, NEW shows
    PROVE  /\ f.state = "Workday.picking_date" => Own(f, "day.calendar", shows)
           /\ f.state = "Workday.choosing_action" => Own(f, "day.back", shows)
           /\ f.state = "Workday.setting_start" => Own(f, "day.back", shows)
           /\ f.state = "Workday.setting_end" => Own(f, "day.back", shows)
  <1>1. /\ \E b : <<"day.calendar", b>> \in Keyboards
        /\ \E b : <<"day.back", b>> \in Keyboards
    BY WorkdayKeys
  <1> QED
    BY <1>1, WorkdayHome, OwnAtHome DEF Confirms

LEMMA MasterRegistrationOwn ==
    ASSUME NEW f, NEW shows
    PROVE  /\ f.state = "MasterRegistration.consent" => Own(f, "mreg.consent", shows)
           /\ f.state = "MasterRegistration.consent_declined" => Own(f, "mreg.declined", shows)
           /\ f.state = "MasterRegistration.name" => Own(f, "mreg.cancel", shows)
           /\ f.state = "MasterRegistration.phone" => Own(f, "mreg.cancel", shows)
           /\ f.state = "MasterRegistration.work_days" => Own(f, "mreg.cancel", shows)
           /\ f.state = "MasterRegistration.work_time" => Own(f, "mreg.cancel", shows)
           /\ f.state = "MasterRegistration.slot_size" => Own(f, "mreg.cancel", shows)
           /\ f.state = "MasterRegistration.confirm" => Own(f, "mreg.confirm", shows)
  <1>1. /\ \E b : <<"mreg.consent", b>> \in Keyboards
        /\ \E b : <<"mreg.declined", b>> \in Keyboards
        /\ \E b : <<"mreg.cancel", b>> \in Keyboards
        /\ \E b : <<"mreg.confirm", b>> \in Keyboards
    BY MasterRegistrationKeys
  <1> QED
    BY <1>1, MasterRegistrationHome, OwnAtHome DEF Confirms

LEMMA ClientRegistrationOwn ==
    ASSUME NEW f, NEW shows
    PROVE  /\ f.state = "ClientRegistration.name" => Own(f, "creg.cancel", shows)
           /\ f.state = "ClientRegistration.phone" => Own(f, "creg.cancel", shows)
           /\ f.state = "ClientRegistration.confirm" => Own(f, "creg.confirm", shows)
  <1>1. /\ \E b : <<"creg.cancel", b>> \in Keyboards
        /\ \E b : <<"creg.confirm", b>> \in Keyboards
    BY ClientRegistrationKeys
  <1> QED
    BY <1>1, ClientRegistrationHome, OwnAtHome DEF Confirms

LEMMA AddClientOwn ==
    ASSUME NEW f, NEW shows
    PROVE  /\ f.state = "AddClient.name" => Own(f, "client.cancel", shows)
           /\ f.state = "AddClient.phone" => Own(f, "client.cancel", shows)
           /\ f.state = "AddClient.confirm" => Own(f, "client.confirm", shows)
  <1>1. /\ \E b : <<"client.cancel", b>> \in Keyboards
        /\ \E b : <<"client.confirm", b>> \in Keyboards
    BY AddClientKeys
  <1> QED
    BY <1>1, AddClientHome, OwnAtHome DEF Confirms

LEMMA EditClientOwn ==
    ASSUME NEW f, NEW shows
    PROVE  /\ f.state = "EditClient.query" => Own(f, "edit.prompt", shows)
           /\ f.state = "EditClient.choosing" => Own(f, "edit.results", shows)
           /\ f.state = "EditClient.choosing" => Own(f, "edit.picked", shows)
  <1>1. /\ \E b : <<"edit.prompt", b>> \in Keyboards
        /\ \E b : <<"edit.results", b>> \in Keyboards
        /\ \E b : <<"edit.picked", b>> \in Keyboards
    BY EditClientKeys
  <1> QED
    BY <1>1, EditClientHome, OwnAtHome DEF Confirms

LEMMA ConfirmOwn ==
    ASSUME NEW f, NEW shows
    PROVE  /\ f.state = "ClientBooking.confirm" /\ shows = f.day => Own(f, "book.confirm", shows)
           /\ f.state = "AddBooking.confirm" /\ shows = f.picked => Own(f, "add.confirm", shows)
           /\ f.state = "Reschedule.confirm" /\ shows = f.picked => Own(f, "move.confirm", shows)
  <1>1. /\ \E b : <<"book.confirm", b>> \in Keyboards
        /\ \E b : <<"add.confirm", b>> \in Keyboards
        /\ \E b : <<"move.confirm", b>> \in Keyboards
    BY ClientBookingKeys, AddBookingKeys, RescheduleKeys
  <1>2. /\ Home("book.confirm", "ClientBooking.confirm")
        /\ Home("add.confirm", "AddBooking.confirm")
        /\ Home("move.confirm", "Reschedule.confirm")
    BY ClientBookingHome, AddBookingHome, RescheduleHome
  <1>3. /\ f.state = "ClientBooking.confirm" => Answers(f, "book.confirm")
        /\ f.state = "AddBooking.confirm" => Answers(f, "add.confirm")
        /\ f.state = "Reschedule.confirm" => Answers(f, "move.confirm")
    BY <1>1, <1>2, AnswersAtHome
  <1> QED
    BY <1>3 DEF Own, Person, Asks, Edits

LEMMA DayMenuOwn ==
    ASSUME NEW f, NEW shows, f.state = "Workday.choosing_action", shows = f.day
    PROVE  Own(f, "day.menu", shows)
  <1>1. \E b : <<"day.menu", b>> \in Keyboards
    BY WorkdayKeys
  <1>2. Answers(f, "day.menu")
    BY <1>1, WorkdayHome, AnswersAtHome
  <1> QED
    BY <1>2 DEF Own, Person, Asks, Edits

LEMMA ConsentOwn ==
    ASSUME NEW f, NEW shows
    PROVE  /\ f.state = "ClientRegistration.consent" => Own(f, "creg.consent", shows)
           /\ f.state = "ClientRegistration.consent_declined" => Own(f, "creg.declined", shows)
  <1>1. /\ <<"creg.consent", "c:pd:agree">> \in Keyboards
        /\ <<"creg.declined", "c:pd:back">> \in Keyboards
    BY ClientRegistrationKeys
  <1>2. /\ Heard("c:pd:agree", "ClientRegistration.consent")
        /\ Heard("c:pd:disagree", "ClientRegistration.consent")
        /\ Heard("c:pd:policy", "ClientRegistration.consent")
        /\ Heard("c:pd:understood", "ClientRegistration.consent_declined")
        /\ Heard("c:pd:back", "ClientRegistration.consent_declined")
    BY DEF Heard, Filters, ClientRegistrationFilters
  <1>3. /\ Works("creg.consent", "ClientRegistration.consent")
        /\ Works("creg.declined", "ClientRegistration.consent_declined")
    BY <1>2, ClientRegistrationKeys DEF Works
  <1>4. /\ Away("creg.consent", "ClientRegistration.consent")
        /\ Away("creg.declined", "ClientRegistration.consent_declined")
    BY <1>1, <1>2 DEF Away
  <1> QED
    BY <1>3, <1>4 DEF Own, Person, Asks, Edits, Answers

LEMMA EditOwn ==
    ASSUME NEW f, NEW p \in People
    PROVE  /\ f.state = "EditClient.action" => Own(f, "edit.view", p) /\ Own(f, "edit.menu", p)
           /\ f.state \in Asked /\ p = f.who => Own(f, "edit.input", p)
  <1>1. /\ \E b : <<"edit.view", b>> \in Keyboards
        /\ \E b : <<"edit.menu", b>> \in Keyboards
        /\ \E b : <<"edit.input", b>> \in Keyboards
    BY EditClientKeys
  <1>2. Home("edit.input", f.state)
    BY FreeKinds DEF Free, Home, Heard
  <1>3. /\ f.state = "EditClient.action" => Answers(f, "edit.view") /\ Answers(f, "edit.menu")
        /\ Answers(f, "edit.input")
    BY <1>1, <1>2, EditClientHome, FreeKinds, AnswersAtHome
  <1> QED
    BY <1>3 DEF Own, Person, Asks, Edits, Asked

\* Messages with a button that is heard in every state
LEMMA AlwaysAway ==
    ASSUME NEW state
    PROVE  /\ Away("day.calendar", state) /\ Away("day.menu", state) /\ Away("day.back", state)
           /\ Away("schedule", state) /\ Away("client card", state)
           /\ Away("master card", state) /\ Away("mreg.declined", state)
           /\ Away("edit.view", state) /\ Away("edit.menu", state) /\ Away("edit.input", state)
  <1>1. /\ Heard("m:close", state) /\ Heard("m:b:reschedule", state)
        /\ Heard("m:clients:book", state) /\ Heard("masters:book", state)
        /\ Heard("m:edit_client:book", state) /\ Heard("m:edit_client:view", state)
        /\ Heard("m:edit_client:edit_menu", state)
    BY Unfiltered DEF Heard
  <1>2. /\ <<"day.calendar", "m:close">> \in Keyboards
        /\ <<"day.menu", "m:close">> \in Keyboards
        /\ <<"day.back", "m:close">> \in Keyboards
        /\ <<"mreg.declined", "m:close">> \in Keyboards
    BY WorkdayKeys, MasterRegistrationKeys
  <1>3. /\ <<"schedule", "m:b:reschedule">> \in Keyboards
        /\ <<"client card", "m:clients:book">> \in Keyboards
        /\ <<"master card", "masters:book">> \in Keyboards
    BY OtherKeys
  <1>4. /\ <<"edit.view", "m:edit_client:book">> \in Keyboards
        /\ <<"edit.menu", "m:edit_client:view">> \in Keyboards
        /\ <<"edit.input", "m:edit_client:edit_menu">> \in Keyboards
    BY EditClientKeys
  <1> QED
    BY <1>1, <1>2, <1>3, <1>4 DEF Away

\* The message tapped, in the state its button leads to
LEMMA BookingLost ==
    ASSUME NEW f, f.lost, NEW shows
    PROVE  /\ f.state = "ClientBooking.selecting_slot" =>
                 Own(f, "book.calendar", shows) /\ Own(f, "book.confirm", shows)
           /\ f.state = "ClientBooking.selecting_date" =>
                 Own(f, "book.slots", shows) /\ Own(f, "book.confirm", shows)
           /\ f.state = "ClientBooking.confirm" => Own(f, "book.slots", shows)
  <1>1. \A s \in {"ClientBooking.selecting_date", "ClientBooking.selecting_slot",
                  "ClientBooking.confirm"} : Heard("book:cancel_flow", s)
    BY DEF Heard, Filters, ClientBookingFilters
  <1>2. /\ <<"book.calendar", "book:cancel_flow">> \in Keyboards
        /\ <<"book.slots", "book:cancel_flow">> \in Keyboards
    BY ClientBookingKeys
  <1>3. \A s \in {"ClientBooking.selecting_date", "ClientBooking.selecting_slot",
                  "ClientBooking.confirm"} : Away("book.calendar", s) /\ Away("book.slots", s)
    BY <1>1, <1>2 DEF Away
  <1> QED
    BY <1>3, OwnIfLost DEF Person, Asks, Edits, Stuck

LEMMA RegistrationLost ==
    ASSUME NEW f, f.lost, NEW shows,
           f.state \in {"MasterRegistration.consent", "MasterRegistration.consent_declined",
                        "MasterRegistration.name", "ClientRegistration.consent",
                        "ClientRegistration.consent_declined", "ClientRegistration.name"}
    PROVE  /\ Own(f, "mreg.consent", shows) /\ Own(f, "mreg.declined", shows)
           /\ Own(f, "creg.consent", shows) /\ Own(f, "creg.declined", shows)
  BY AlwaysAway, OwnIfLost DEF Person, Asks, Edits, Stuck

\* A card, and the dialog that is started from it
LEMMA CardLost ==
    ASSUME NEW f, f.lost, NEW kind, NEW shows, Person(kind, shows),
           kind = "client card" \/ kind = "edit.view",
           f.state # "Settings.edit" /\ f.state # "Masters.edit_alias"
    PROVE  Own(f, kind, shows)
  <1>1. CASE kind = "client card"
    BY <1>1, FreeOwn
  <1>2. CASE kind = "edit.view"
    <2>1. Away("edit.view", f.state)
      BY AlwaysAway
    <2>2. Asks(f, "edit.view", shows) /\ Edits(f, "edit.view", shows)
      BY DEF Asks, Edits
    <2> QED
      BY <1>2, <2>1, <2>2, OwnIfLost
  <1> QED
    BY <1>1, <1>2

\* The main message of a day's hours, when it cannot be edited
LEMMA DayLost ==
    ASSUME NEW f, f.lost, NEW kind \in Overrides, NEW shows, f.state \in DayStates,
           Stays(f, kind, shows)
    PROVE  Own(f, kind, shows)
  <1>1. kind \in {"day.calendar", "day.menu", "day.back", "schedule", "paywall"}
    BY WorkdayKinds DEF Overrides
  <1> QED
    BY <1>1, AlwaysAway, OwnIfLost DEF Person, Asks, Stays, DayStates, Stuck

\* ... and that of a client's editing
LEMMA EditLost ==
    ASSUME NEW f, f.lost, NEW kind \in EditClient, NEW shows, Person(kind, shows),
           f.state \in Asked \cup {"EditClient.action"}, Edits(f, kind, shows)
    PROVE  Own(f, kind, shows)
  <1>1. kind \in {"edit.prompt", "edit.results", "edit.picked", "edit.view", "edit.menu",
                  "edit.input", "client card"}
    BY EditClientKinds DEF EditClient
  <1>2. /\ Heard("m:edit_client:back", f.state) /\ Heard("m:edit_client:cancel", f.state)
    BY DEF Heard, Filters, EditClientFilters, EditClientOpen, Asked
  <1>3. /\ <<"edit.prompt", "m:edit_client:cancel">> \in Keyboards
        /\ <<"edit.results", "m:edit_client:back">> \in Keyboards
        /\ <<"edit.picked", "m:edit_client:back">> \in Keyboards
    BY EditClientKeys
  <1>4. /\ Away("edit.prompt", f.state) /\ Away("edit.results", f.state)
        /\ Away("edit.picked", f.state)
    BY <1>2, <1>3 DEF Away
  <1> QED
    BY <1>1, <1>4, AlwaysAway, OwnIfLost DEF Asks, Asked

-----------------------------------------------------------------------------
(* The same, for a handler that goes on with the dialog's data: c is the   *)
(* chat, or what tracking and removing buttons has made of it.             *)

LEMMA TapBasis ==
    ASSUME IInv
    PROVE  /\ fsm \in Fsms /\ chat \in Chats /\ Fitting(fsm, chat) /\ Decent(chat)
           /\ Data(fsm, consent)
           /\ Cleared(chat) \in Chats /\ Idle(Cleared(chat)) /\ DOMAIN Cleared(chat) = DOMAIN chat
  BY FittingDecent, ClearedIdle DEF IInv, Coherent

LEMMA AgreesItself ==
    ASSUME NEW c, Fitting(fsm, c), IInv
    PROVE  Fitting(CutOff(fsm), c)
  BY CutOffFits, TapBasis DEF Agrees

LEMMA ResetInDialog ==
    ASSUME IInv, NEW C, \A c \in C : c \in Chats /\ Fitting(fsm, c), NEW bucket, NEW k,
           Reset(C, bucket)
    PROVE  Coherent(fsm', chat', k)
  BY AgreesItself, ResetEnds

LEMMA SendInDialog ==
    ASSUME IInv, NEW f \in Fsms, Agrees(f, fsm),
           NEW state \in States, state \notin EditingStates,
           NEW k, f.halted \/ Carries(f, state, k),
           NEW C, \A c \in C : c \in Chats /\ Fitting(fsm, c),
           NEW kind \in Kinds, NEW shows \in Shown, kind \notin Confirms, Person(kind, shows),
           Own(To(f, state), kind, shows),
           Send(C, f, state, kind, shows)
    PROVE  Coherent(fsm', chat', k)
  <1>1. \A c \in C : c \in Chats /\ Fitting(CutOff(f), c)
    BY CutOffFits
  <1>2. Own(CutOff(f), kind, shows)
    BY CutOffOwn
  <1> QED
    BY <1>1, <1>2, SendEnds

LEMMA RedrawInDialog ==
    ASSUME IInv, NEW f \in Fsms, Agrees(f, fsm),
           NEW state \in States, state \notin EditingStates,
           NEW k, f.halted \/ Carries(f, state, k),
           NEW c \in Chats, Fitting(fsm, c), NEW i \in DOMAIN c,
           NEW kind \in Kinds, NEW shows \in Shown, Person(kind, shows),
           \/ kind \notin Confirms
           \/ fsm.state \notin {"ClientBooking.confirm", "AddBooking.confirm",
                  "Reschedule.confirm"},
           Own(To(f, state), kind, shows),
           Own(Lost(To(f, state)), c[i].kind, c[i].shows),
           Redraw(c, i, f, state, kind, shows)
    PROVE  Coherent(fsm', chat', k)
  <1>1. Fitting(CutOff(f), c)
    BY CutOffFits
  <1>2. Own(CutOff(f), kind, shows)
    BY CutOffOwn DEF Agrees
  <1> QED
    BY <1>1, <1>2, RedrawEndsCalm

LEMMA RedrawOrSendInDialog ==
    ASSUME IInv, NEW f \in Fsms, Agrees(f, fsm),
           NEW state \in States, state \notin EditingStates,
           NEW k, f.halted \/ Carries(f, state, k),
           NEW c \in Chats, Fitting(fsm, c), NEW i \in DOMAIN c,
           NEW kind \in Kinds, NEW shows \in Shown, Person(kind, shows),
           \/ kind \notin Confirms
           \/ fsm.state \notin {"ClientBooking.confirm", "AddBooking.confirm",
                  "Reschedule.confirm"},
           Own(To(f, state), kind, shows),
           RedrawOrSend(c, i, f, state, kind, shows)
    PROVE  Coherent(fsm', chat', k)
  <1>1. Fitting(CutOff(f), c)
    BY CutOffFits
  <1>2. Own(CutOff(f), kind, shows)
    BY CutOffOwn DEF Agrees
  <1> QED
    BY <1>1, <1>2, RedrawOrSendEnds

\* What a handler that has written f goes on with
LEMMA WrittenIs ==
    ASSUME NEW f \in Fsms, NEW state \in States
    PROVE  /\ To(f, state) \in Fsms /\ To(f, state).state = state
           /\ To(f, state).day = f.day /\ To(f, state).picked = f.picked
           /\ To(f, state).who = f.who /\ To(f, state).halted = f.halted
           /\ Lost(To(f, state)).lost = TRUE /\ Lost(To(f, state)).state = state
           /\ Lost(To(f, state)).day = f.day /\ Lost(To(f, state)).who = f.who
           /\ Lost(To(f, state)).picked = f.picked
           /\ Lost(To(f, state)).halted = f.halted
  <1>1. /\ To(f, state) \in Fsms /\ To(f, state).state = state
        /\ To(f, state).day = f.day /\ To(f, state).picked = f.picked
        /\ To(f, state).who = f.who /\ To(f, state).halted = f.halted
    BY ToIs
  <1> QED
    BY <1>1, LostIs

\* A confirmation's chats: tracked, and without buttons perhaps
LEMMA TakenChats ==
    ASSUME IInv, NEW i \in DOMAIN chat
    PROVE  /\ \A c \in {Track(i), Bare(Track(i), i)} :
                 c \in Chats /\ Fitting(fsm, c) /\ DOMAIN c = DOMAIN chat
           /\ \A c \in {chat, Bare(chat, i)} :
                 c \in Chats /\ Fitting(fsm, c) /\ DOMAIN c = DOMAIN chat
  BY TapBasis, TrackFits, TakenFits

\* Another page of what the dialog shows
LEMMA RefreshInDialog ==
    ASSUME IInv, NEW c \in Chats, Fitting(fsm, c), NEW i \in DOMAIN c, NEW kind \in Kinds,
           kind # "day.menu", kind # "edit.input",
           Own(fsm, kind, NoDay), Refresh(c, i, kind)
    PROVE  Coherent(fsm', chat', consent)
  <1>1. Stays(fsm, kind, NoDay)
    BY DEF Stays, Edits
  <1> QED
    BY <1>1, RefreshEnds

\* The names of a dialog's states and messages
LEMMA ClientBookingNames ==
    /\ {"ClientBooking.selecting_master", "ClientBooking.selecting_date",
        "ClientBooking.selecting_slot", "ClientBooking.confirm"}
        \subseteq States \ EditingStates
    /\ {"book.masters", "book.calendar", "book.slots"} \subseteq Kinds \ Confirms
    /\ "book.confirm" \in Kinds
    /\ \A shows : /\ Person("book.masters", shows)
                  /\ Person("book.calendar", shows)
                  /\ Person("book.slots", shows)
                  /\ Person("book.confirm", shows)
  BY StateNames, KindNames DEF EditingStates, DayStates, Asked, Confirms, Person

LEMMA AddBookingNames ==
    /\ {"AddBooking.no_clients", "AddBooking.search_client", "AddBooking.selecting_date",
        "AddBooking.selecting_slot", "AddBooking.confirm"} \subseteq States \ EditingStates
    /\ {"add.noclients", "add.prompt", "add.clients", "add.calendar", "add.paywall",
        "add.slots"} \subseteq Kinds \ Confirms
    /\ "add.confirm" \in Kinds
    /\ \A shows : /\ Person("add.noclients", shows)
                  /\ Person("add.prompt", shows)
                  /\ Person("add.clients", shows)
                  /\ Person("add.calendar", shows)
                  /\ Person("add.paywall", shows)
                  /\ Person("add.slots", shows)
                  /\ Person("add.confirm", shows)
  BY StateNames, KindNames DEF EditingStates, DayStates, Asked, Confirms, Person

LEMMA RescheduleNames ==
    /\ {"Reschedule.selecting_date", "Reschedule.selecting_slot", "Reschedule.confirm"}
        \subseteq States \ EditingStates
    /\ {"move.calendar", "move.paywall", "move.slots", "paywall", "schedule"}
        \subseteq Kinds \ Confirms
    /\ "move.confirm" \in Kinds
    /\ \A shows : /\ Person("move.calendar", shows)
                  /\ Person("move.paywall", shows)
                  /\ Person("move.slots", shows)
                  /\ Person("paywall", shows)
                  /\ Person("schedule", shows)
                  /\ Person("move.confirm", shows)
  BY StateNames, KindNames DEF EditingStates, DayStates, Asked, Confirms, Person

LEMMA WorkdayNames ==
    /\ {"Workday.picking_date", "Workday.choosing_action", "Workday.setting_start",
        "Workday.setting_end"} \subseteq States
    /\ {"day.calendar", "day.menu", "day.back", "schedule"} \subseteq Kinds \ Confirms
    /\ \A shows : /\ Person("day.calendar", shows)
                  /\ Person("day.menu", shows)
                  /\ Person("day.back", shows)
                  /\ Person("schedule", shows)
  BY StateNames, KindNames DEF EditingStates, DayStates, Asked, Confirms, Person

LEMMA MasterRegistrationNames ==
    /\ {"MasterRegistration.consent", "MasterRegistration.consent_declined",
        "MasterRegistration.name", "MasterRegistration.phone", "MasterRegistration.work_days",
        "MasterRegistration.work_time", "MasterRegistration.slot_size",
        "MasterRegistration.confirm"} \subseteq States \ EditingStates
    /\ {"mreg.consent", "mreg.declined", "mreg.cancel", "mreg.confirm"}
        \subseteq Kinds \ Confirms
    /\ \A shows : /\ Person("mreg.consent", shows)
                  /\ Person("mreg.declined", shows)
                  /\ Person("mreg.cancel", shows)
                  /\ Person("mreg.confirm", shows)
  BY StateNames, KindNames DEF EditingStates, DayStates, Asked, Confirms, Person

LEMMA ClientRegistrationNames ==
    /\ {"ClientRegistration.consent", "ClientRegistration.consent_declined",
        "ClientRegistration.name", "ClientRegistration.phone", "ClientRegistration.confirm"}
        \subseteq States \ EditingStates
    /\ {"creg.consent", "creg.declined", "creg.cancel", "creg.confirm"}
        \subseteq Kinds \ Confirms
    /\ \A shows : /\ Person("creg.consent", shows)
                  /\ Person("creg.declined", shows)
                  /\ Person("creg.cancel", shows)
                  /\ Person("creg.confirm", shows)
  BY StateNames, KindNames DEF EditingStates, DayStates, Asked, Confirms, Person

LEMMA AddClientNames ==
    /\ {"AddClient.name", "AddClient.phone", "AddClient.confirm"}
        \subseteq States \ EditingStates
    /\ {"client.cancel", "client.confirm", "paywall"} \subseteq Kinds \ Confirms
    /\ \A shows : /\ Person("client.cancel", shows)
                  /\ Person("client.confirm", shows)
                  /\ Person("paywall", shows)
  BY StateNames, KindNames DEF EditingStates, DayStates, Asked, Confirms, Person

LEMMA EditClientNames ==
    /\ {"EditClient.query", "EditClient.choosing", "EditClient.action"}
        \subseteq States \ EditingStates
    /\ {"EditClient.edit_name", "EditClient.edit_phone"} \subseteq States
    /\ {"edit.prompt", "edit.results", "edit.picked", "edit.view", "edit.menu", "edit.input",
        "client card"} \subseteq Kinds \ Confirms
    /\ \A shows : /\ Person("edit.prompt", shows)
                  /\ Person("edit.results", shows)
                  /\ Person("edit.picked", shows)
                  /\ Person("client card", shows)
  BY StateNames, KindNames DEF EditingStates, DayStates, Asked, Confirms, Person

LEMMA OtherNames ==
    /\ {"none", "Settings.edit", "Masters.edit_alias"} \subseteq States \ EditingStates
    /\ {"settings", "settings.prompt", "schedule", "client card", "master card",
        "alias.prompt", "paywall"} \subseteq Kinds \ Confirms
    /\ \A shows : /\ Person("settings", shows)
                  /\ Person("settings.prompt", shows)
                  /\ Person("schedule", shows)
                  /\ Person("client card", shows)
                  /\ Person("master card", shows)
                  /\ Person("alias.prompt", shows)
                  /\ Person("paywall", shows)
  BY StateNames, KindNames DEF EditingStates, DayStates, Asked, Confirms, Person

-----------------------------------------------------------------------------
(* The same, for a handler that starts from nothing: no message is the     *)
(* dialog's own yet.                                                       *)

LEMMA FreshChats ==
    ASSUME NEW C, \A c \in C : c \in Chats /\ Decent(c), NEW bucket
    PROVE  \A c \in Fresh(C, bucket) : c \in Chats /\ Idle(c)
  BY FreshIdle

LEMMA ResetAnew ==
    ASSUME IInv, NEW C, \A c \in C : c \in Chats /\ Idle(c), NEW bucket, NEW k, Reset(C, bucket)
    PROVE  Coherent(fsm', chat', k)
  BY IdleFits, ResetEnds

LEMMA SendAnew ==
    ASSUME NEW f \in Fsms, f.state = "none",
           NEW state \in States, state \notin EditingStates,
           NEW k, f.halted \/ Carries(f, state, k),
           NEW C, \A c \in C : c \in Chats /\ Idle(c),
           NEW kind \in Kinds, NEW shows \in Shown, Person(kind, shows),
           Own(To(f, state), kind, shows),
           Send(C, f, state, kind, shows)
    PROVE  Coherent(fsm', chat', k)
  <1>1. \A c \in C : c \in Chats /\ Fitting(CutOff(f), c)
    BY IdleFits
  <1>2. Own(CutOff(f), kind, shows)
    BY CutOffOwn
  <1> QED
    BY <1>1, <1>2, SendEnds

LEMMA RedrawAnew ==
    ASSUME NEW f \in Fsms, f.state = "none", NEW state \in States,
           NEW k, f.halted \/ Carries(f, state, k),
           NEW c \in Chats, Idle(c), NEW i \in DOMAIN c,
           NEW kind \in Kinds, NEW shows \in Shown, Person(kind, shows),
           Own(To(f, state), kind, shows),
           Own(Lost(To(f, state)), c[i].kind, c[i].shows),
           Redraw(c, i, f, state, kind, shows)
    PROVE  Coherent(fsm', chat', k)
  <1>1. Fitting(CutOff(f), c)
    BY IdleFits
  <1>2. Own(CutOff(f), kind, shows)
    BY CutOffOwn
  <1>3. \A n \in DOMAIN c : ~c[n].main
    BY DEF Idle
  <1> QED
    BY <1>1, <1>2, <1>3, RedrawEnds

LEMMA RedrawOrSendAnew ==
    ASSUME NEW f \in Fsms, f.state = "none",
           NEW state \in States, state \notin EditingStates,
           NEW k, f.halted \/ Carries(f, state, k),
           NEW c \in Chats, Idle(c), NEW i \in DOMAIN c,
           NEW kind \in Kinds, NEW shows \in Shown, Person(kind, shows),
           Own(To(f, state), kind, shows),
           RedrawOrSend(c, i, f, state, kind, shows)
    PROVE  Coherent(fsm', chat', k)
  <1>1. Fitting(CutOff(f), c)
    BY IdleFits
  <1>2. Own(CutOff(f), kind, shows)
    BY CutOffOwn
  <1> QED
    BY <1>1, <1>2, RedrawOrSendEnds

-----------------------------------------------------------------------------
(* And for one that ends the dialog, or is cut short.                      *)

LEMMA FreshEnds ==
    ASSUME NEW C, \A c \in C : c \in Chats /\ Decent(c), NEW bucket, NEW k,
           fsm' = Blank, chat' \in Fresh(C, bucket)
    PROVE  Coherent(fsm', chat', k)
  <1>1. PICK c \in Fresh(C, bucket) : chat' = c
    OBVIOUS
  <1> QED
    BY <1>1, FreshChats, BlankEnds

LEMMA ClearedEnds ==
    ASSUME NEW C, \A c \in C : c \in Chats /\ Decent(c), NEW k,
           fsm' = Blank, chat' \in {Cleared(c) : c \in C}
    PROVE  Coherent(fsm', chat', k)
  <1>1. PICK c \in C : chat' = Cleared(c)
    OBVIOUS
  <1>2. Cleared(c) \in Chats /\ Idle(Cleared(c))
    BY <1>1, ClearedIdle
  <1> QED
    BY <1>1, <1>2, BlankEnds

LEMMA ClearedDrawnEnds ==
    ASSUME NEW C, NEW i, \A c \in C : c \in Chats /\ Decent(c) /\ i \in DOMAIN c,
           NEW kind \in Kinds, Person(kind, NoDay), NEW k,
           fsm' = Blank, \E c \in C : chat' = Cleared(Drawn(c, i, kind, NoDay))
    PROVE  Coherent(fsm', chat', k)
  <1>1. PICK c \in C : chat' = Cleared(Drawn(c, i, kind, NoDay))
    OBVIOUS
  <1>2. Drawn(c, i, kind, NoDay) \in Chats /\ Decent(Drawn(c, i, kind, NoDay))
    BY <1>1, DrawnDecent DEF Shown
  <1>3. Cleared(Drawn(c, i, kind, NoDay)) \in Chats /\ Idle(Cleared(Drawn(c, i, kind, NoDay)))
    BY <1>2, ClearedIdle
  <1> QED
    BY <1>1, <1>3, BlankEnds

LEMMA CutShortIn ==
    ASSUME IInv, NEW f \in Fsms, Agrees(f, fsm), NEW C,
           \A c \in C : c \in Chats /\ Fitting(fsm, c), NEW k,
           CutShort(f), chat' \in C
    PROVE  Coherent(fsm', chat', k)
  <1>1. PICK c \in C : chat' = c
    OBVIOUS
  <1>2. c \in Chats /\ Fitting(CutOff(f), c)
    BY <1>1, CutOffFits
  <1> QED
    BY <1>1, <1>2, CutShortEnds

LEMMA CutShortSwept ==
    ASSUME IInv, NEW C, \A c \in C : c \in Chats /\ Fitting(fsm, c), NEW buckets, NEW k,
           CutShort(fsm), chat' \in Swept(C, buckets)
    PROVE  Coherent(fsm', chat', k)
  <1>1. PICK c \in Swept(C, buckets) : chat' = c
    OBVIOUS
  <1>2. \A d \in C : d \in Chats /\ Fitting(CutOff(fsm), d)
    BY AgreesItself
  <1>3. c \in Chats /\ Fitting(CutOff(fsm), c)
    BY <1>1, <1>2, SweptFits
  <1> QED
    BY <1>1, <1>3, TapBasis, CutShortEnds

\* What was drawn or sent by one that was cut short
LEMMA DrawnCutOff ==
    ASSUME NEW f \in Fsms, NEW c \in Chats, Decent(c), NEW kind \in Kinds, kind \notin Confirms,
           NEW shows \in Shown, Person(kind, shows)
    PROVE  /\ Sent(c, kind, shows) \in Chats /\ Fitting(CutOff(f), Sent(c, kind, shows))
           /\ \A i \in DOMAIN c : /\ Drawn(c, i, kind, shows) \in Chats
                                  /\ Fitting(CutOff(f), Drawn(c, i, kind, shows))
  <1>1. Own(CutOff(f), kind, shows)
    BY CutOffOwn
  <1>2. /\ \A n \in DOMAIN c : Stays(CutOff(f), c[n].kind, c[n].shows)
        /\ Stays(CutOff(f), kind, shows)
    BY CutOffIs, CalmStays
  <1> QED
    BY <1>1, <1>2, SentFits, DrawnFits

\* Only a message is sent
LEMMA SentInDialog ==
    ASSUME IInv, NEW c \in Chats, Fitting(fsm, c), NEW kind \in Kinds, NEW shows \in Shown,
           Own(fsm, kind, shows), chat' = Sent(c, kind, shows), UNCHANGED fsm
    PROVE  Coherent(fsm', chat', consent)
  <1>1. Decent(c) /\ \A n \in DOMAIN c : c[n].main => Stays(fsm, c[n].kind, c[n].shows)
    BY FittingDecent DEF Fitting, Fits
  <1>2. Sent(c, kind, shows) \in Chats /\ Fitting(fsm, Sent(c, kind, shows))
    BY <1>1, SentFits
  <1> QED
    BY <1>2, TapBasis DEF Coherent

LEMMA UnconfirmedIs ==
    ASSUME IInv
    PROVE  /\ Unconfirmed \in Fsms /\ Unconfirmed.state = fsm.state
           /\ Unconfirmed.keys = fsm.keys \ {"confirm_in_progress"}
           /\ Unconfirmed.day = fsm.day /\ Unconfirmed.picked = NoDay
           /\ Unconfirmed.who = fsm.who /\ Unconfirmed.halted = fsm.halted
  <1> DEFINE g == Picked(fsm, NoDay)
  <1>1. /\ g \in Fsms /\ g.state = fsm.state /\ g.keys = fsm.keys /\ g.day = fsm.day
        /\ g.picked = NoDay /\ g.who = fsm.who /\ g.halted = fsm.halted
    BY TapBasis, PickedIs
  <1>2. Unconfirmed = Drop(g, {"confirm_in_progress"})
    BY DEF Unconfirmed
  <1> HIDE DEF g
  <1> QED
    BY <1>1, <1>2, DropIs

LEMMA MarkedIs ==
    ASSUME IInv
    PROVE  /\ Marked \in Fsms /\ Marked.state = fsm.state
           /\ Marked.keys = fsm.keys \cup {"confirm_in_progress"}
           /\ Marked.day = fsm.day /\ Marked.picked = fsm.picked
           /\ Marked.who = fsm.who /\ Marked.halted = fsm.halted
           /\ Agrees(Marked, fsm)
  <1>1. {"confirm_in_progress"} \in SUBSET Keys
    BY DEF Keys
  <1> QED
    BY <1>1, TapBasis, PutIs DEF Marked, Agrees

-----------------------------------------------------------------------------
(* More of the same: the dialog's own data, a form, and a main message.    *)

LEMMA SameAgrees == Agrees(fsm, fsm)
  BY DEF Agrees

LEMMA SweptIn ==
    ASSUME IInv, NEW f \in Fsms, Agrees(f, fsm), NEW C,
           \A c \in C : c \in Chats /\ Fitting(fsm, c), NEW buckets, NEW k,
           CutShort(f), chat' \in Swept(C, buckets)
    PROVE  Coherent(fsm', chat', k)
  <1>1. PICK c \in Swept(C, buckets) : chat' = c
    OBVIOUS
  <1>2. \A d \in C : d \in Chats /\ Fitting(CutOff(f), d)
    BY CutOffFits
  <1>3. c \in Chats /\ Fitting(CutOff(f), c)
    BY <1>1, <1>2, SweptFits
  <1> QED
    BY <1>1, <1>3, CutShortEnds

\* A question of a form is answered, or asked again
LEMMA AnswerKeeps ==
    ASSUME IInv, NEW state \in States, state \notin EditingStates, fsm.state = state,
           NEW next \in States, next \notin EditingStates,
           next \in FormStates => state \in FormStates,
           NEW key \in Keys, key # "clients", key # "confirm_in_progress",
           Ready(fsm, state) => Ready(Put(fsm, {key}), next),
           NEW cancel \in Kinds, cancel \notin Confirms, Person(cancel, NoDay),
           NEW kind \in Kinds, kind \notin Confirms, Person(kind, NoDay),
           \A g : g.state = state => Own(g, cancel, NoDay),
           \A g : g.state = next => Own(g, kind, NoDay),
           \/ Send({chat}, fsm, fsm.state, cancel, NoDay)
           \/ Send({chat}, Put(fsm, {key}), next, kind, NoDay)
    PROVE  Coherent(fsm', chat', consent)
  <1>1. /\ fsm \in Fsms /\ chat \in Chats /\ Fitting(fsm, chat) /\ NoDay \in Shown
        /\ fsm.halted \/ Carries(fsm, state, consent)
    BY TapBasis DEF Data, Shown
  <1>2. CASE Send({chat}, fsm, fsm.state, cancel, NoDay)
    <2>1. To(fsm, state).state = state
      BY <1>1, WrittenIs
    <2>2. Own(To(fsm, state), cancel, NoDay)
      BY <2>1
    <2> QED
      BY <1>1, <1>2, <2>2, SameAgrees, SendInDialog
  <1>3. CASE Send({chat}, Put(fsm, {key}), next, kind, NoDay)
    <2> DEFINE f == Put(fsm, {key})
    <2>1. {key} \in SUBSET Keys
      OBVIOUS
    <2>2. /\ f \in Fsms /\ f.state = fsm.state /\ f.keys = fsm.keys \cup {key}
          /\ f.day = fsm.day /\ f.picked = fsm.picked /\ f.halted = fsm.halted
      BY <1>1, <2>1, PutIs
    <2>3. Ready(fsm, state) => Ready(f, next)
      OBVIOUS
    <2>4. Send({chat}, f, next, kind, NoDay)
      BY <1>3
    <2> HIDE DEF f
    <2>5. f.halted \/ Carries(f, next, consent)
      BY <1>1, <2>2, <2>3 DEF Carries
    <2>6. To(f, next).state = next
      BY <2>2, WrittenIs
    <2>7. Own(To(f, next), kind, NoDay)
      BY <2>6
    <2>8. Agrees(f, fsm)
      BY <2>2 DEF Agrees
    <2> QED
      BY <1>1, <2>2, <2>4, <2>5, <2>7, <2>8, SendInDialog
  <1> QED
    BY <1>2, <1>3

\* The main message is edited
LEMMA EditMainEnds ==
    ASSUME NEW f \in Fsms, NEW state \in States, NEW k, f.halted \/ Carries(f, state, k),
           NEW c \in Chats, Fitting(CutOff(f), c), NEW kinds,
           NEW kind \in Kinds, NEW shows \in Shown,
           Own(To(f, state), kind, shows), Own(CutOff(f), kind, shows),
           Stays(To(f, state), kind, shows),
           \A n \in DOMAIN c : c[n].main => Stays(To(f, state), c[n].kind, c[n].shows),
           \A n \in Main(c, kinds) : Own(Lost(To(f, state)), c[n].kind, c[n].shows),
           EditMain(c, kinds, f, state, kind, shows)
    PROVE  Coherent(fsm', chat', k)
  <1>1. CASE \E i \in Main(c, kinds) : Redraw(c, i, f, state, kind, shows)
    <2>1. PICK i \in Main(c, kinds) : Redraw(c, i, f, state, kind, shows)
      BY <1>1
    <2>2. i \in DOMAIN c
      BY <2>1 DEF Main
    <2> QED
      BY <2>1, <2>2, RedrawEnds
  <1>2. CASE fsm' = To(f, state) /\ chat' = Faded(c)
    <2>1. Faded(c) \in Chats /\ Fitting(To(f, state), Faded(c))
      BY FittingDecent, FadedFits
    <2>2. To(f, state) \in Fsms /\ Data(To(f, state), k)
      BY ToIs, DataWritten
    <2> QED
      BY <1>2, <2>1, <2>2 DEF Coherent
  <1> QED
    BY <1>1, <1>2 DEF EditMain

\* ... that of a day's hours: what it may have become agrees with the day the data has
LEMMA EditDayEnds ==
    ASSUME IInv, NEW f \in Fsms, f.state = fsm.state, f.halted = fsm.halted,
           NEW state \in States, state \in DayStates, f.halted \/ Carries(f, state, consent),
           fsm.state = "Workday.picking_date" \/ (fsm.state \in DayStates /\ f.day = fsm.day),
           NEW kind \in Kinds, kind \notin Confirms, NEW shows \in Shown, Person(kind, shows),
           Own(To(f, state), kind, shows), Stays(To(f, state), kind, shows),
           EditDay(f, state, kind, shows)
    PROVE  Coherent(fsm', chat', consent)
  <1>1. chat \in Chats /\ Fitting(fsm, chat)
    BY TapBasis
  <1>2. /\ To(f, state) \in Fsms /\ To(f, state).state = state /\ To(f, state).day = f.day
        /\ To(f, state).halted = f.halted /\ To(f, state).who = f.who
        /\ Lost(To(f, state)).lost = TRUE /\ Lost(To(f, state)).state = state
        /\ Lost(To(f, state)).day = f.day /\ Lost(To(f, state)).who = f.who
        /\ Lost(To(f, state)).halted = f.halted
    BY WrittenIs
  <1>3. ASSUME NEW n \in DOMAIN chat, chat[n].main
        PROVE  /\ Stays(To(f, state), chat[n].kind, chat[n].shows)
               /\ Stays(Lost(To(f, state)), chat[n].kind, chat[n].shows)
    <2>1. Stays(fsm, chat[n].kind, chat[n].shows)
      BY <1>1, <1>3 DEF Fitting, Fits
    <2> QED
      BY <1>2, <2>1 DEF Stays, Edits, DayStates, Asked
  <1>4. Agrees(f, fsm)
    BY DEF Agrees, DayStates
  <1>5. Fitting(CutOff(f), chat)
    BY <1>1, <1>4, CutOffFits
  <1>6. Own(CutOff(f), kind, shows)
    BY CutOffOwn
  <1>7. ASSUME NEW n \in Main(chat, Overrides)
        PROVE  Own(Lost(To(f, state)), chat[n].kind, chat[n].shows)
    <2>1. n \in DOMAIN chat /\ chat[n].main /\ chat[n].kind \in Overrides
      BY <1>7 DEF Main
    <2>2. Stays(Lost(To(f, state)), chat[n].kind, chat[n].shows)
      BY <1>3, <2>1
    <2> QED
      BY <1>2, <2>1, <2>2, DayLost
  <1>8. EditMain(chat, Overrides, f, state, kind, shows)
    BY DEF EditDay
  <1>9. \A n \in DOMAIN chat : chat[n].main => Stays(To(f, state), chat[n].kind, chat[n].shows)
    BY <1>3
  <1> QED
    BY <1>1, <1>5, <1>6, <1>7, <1>8, <1>9, EditMainEnds

\* A dialog that begins with some data
LEMMA BegunIs ==
    ASSUME NEW keys \in SUBSET Keys
    PROVE  /\ Put(Blank, keys) \in Fsms /\ Put(Blank, keys).state = "none"
           /\ Put(Blank, keys).keys = keys /\ Put(Blank, keys).halted = FALSE
           /\ Put(Blank, keys).day = NoDay /\ Put(Blank, keys).picked = NoDay
           /\ Put(Blank, keys).who = NoDay
  <1>1. {} \cup keys = keys
    OBVIOUS
  <1> QED
    BY <1>1, BlankIs, PutIs

LEMMA BeginKeeps ==
    ASSUME NEW keys \in SUBSET Keys, "clients" \notin keys, "confirm_in_progress" \notin keys,
           NEW k, NEW state \in States, state \notin EditingStates,
           Ready(Put(Blank, keys), state), state \in FormStates => k,
           NEW C, \A c \in C : c \in Chats /\ Idle(c),
           NEW kind \in Kinds, Person(kind, NoDay), \A g : g.state = state => Own(g, kind, NoDay),
           Send(C, Put(Blank, keys), state, kind, NoDay)
    PROVE  Coherent(fsm', chat', k)
  <1> DEFINE f == Put(Blank, keys)
  <1>1. f \in Fsms /\ f.state = "none" /\ f.keys = keys
    BY BegunIs
  <1>2. Ready(f, state) /\ Send(C, f, state, kind, NoDay)
    OBVIOUS
  <1> HIDE DEF f
  <1>3. Carries(f, state, k)
    BY <1>1, <1>2 DEF Carries
  <1>4. To(f, state).state = state
    BY <1>1, WrittenIs
  <1>5. Own(To(f, state), kind, NoDay) /\ NoDay \in Shown
    BY <1>4 DEF Shown
  <1> QED
    BY <1>1, <1>2, <1>3, <1>5, SendAnew

-----------------------------------------------------------------------------
(* A client books.                                                         *)

LEMMA StartForMasterKeeps ==
    ASSUME IInv, NEW C, \A c \in C : c \in Chats /\ Fitting(fsm, c),
           NEW f \in Fsms, f.state = fsm.state, f.halted = fsm.halted,
           f.day = fsm.day, f.picked = fsm.picked,
           f.keys = fsm.keys \/ f.keys = fsm.keys \cup {"client_id"},
           f.halted \/ "client_id" \in f.keys,
           StartForMaster(C, f)
    PROVE  Coherent(fsm', chat', consent)
  <1> DEFINE g == Put(f, {"master_id"})
  <1>1. CASE Reset(C, "client_booking")
    BY <1>1, ResetInDialog
  <1>2. CASE Send(C, g, "ClientBooking.selecting_date", "book.calendar", NoDay)
    <2>1. {"master_id"} \in SUBSET Keys /\ "client_id" \in Keys
      BY DEF Keys
    <2>2. /\ g \in Fsms /\ g.state = f.state /\ g.keys = f.keys \cup {"master_id"}
          /\ g.day = f.day /\ g.picked = f.picked /\ g.halted = f.halted
      BY <2>1, PutIs
    <2> HIDE DEF g
    <2>3. g.halted \/ Carries(g, "ClientBooking.selecting_date", consent)
      BY <2>2, TapBasis, BookingReadiness DEF Data, Carries, FormStates
    <2>4. Own(To(g, "ClientBooking.selecting_date"), "book.calendar", NoDay)
      BY <2>2, ToIs, ClientBookingOwn, ClientBookingNames
    <2>5. Agrees(g, fsm)
      BY <2>2 DEF Agrees
    <2> QED
      BY <1>2, <2>2, <2>3, <2>4, <2>5, SendInDialog, ClientBookingNames DEF Shown
  <1> QED
    BY <1>1, <1>2 DEF StartForMaster

LEMMA StartBookingKeeps ==
    ASSUME IInv, StartBooking
    PROVE  Coherent(fsm', chat', consent)
  <1> DEFINE f == Put(fsm, {"client_id"})
  <1>1. \A c \in {chat} : c \in Chats /\ Fitting(fsm, c)
    BY TapBasis
  <1>2. {"client_id"} \in SUBSET Keys
    BY DEF Keys
  <1>3. /\ f \in Fsms /\ f.state = fsm.state /\ f.keys = fsm.keys \cup {"client_id"}
        /\ f.day = fsm.day /\ f.picked = fsm.picked /\ f.halted = fsm.halted
    BY <1>2, PutIs, TapBasis
  <1>4. \/ Send({chat}, f, "ClientBooking.selecting_master", "book.masters", NoDay)
        \/ StartForMaster({chat}, f)
    BY DEF StartBooking
  <1> HIDE DEF f
  <1>5. CASE Send({chat}, f, "ClientBooking.selecting_master", "book.masters", NoDay)
    <2>1. f.halted \/ Carries(f, "ClientBooking.selecting_master", consent)
      BY <1>3, TapBasis, BookingReadiness DEF Data, Carries, FormStates
    <2>2. Own(To(f, "ClientBooking.selecting_master"), "book.masters", NoDay)
      BY <1>3, ToIs, ClientBookingOwn, ClientBookingNames
    <2>3. Agrees(f, fsm)
      BY <1>3 DEF Agrees
    <2> QED
      BY <1>1, <1>3, <1>5, <2>1, <2>2, <2>3, SendInDialog, ClientBookingNames DEF Shown
  <1>6. CASE StartForMaster({chat}, f)
    BY <1>1, <1>3, <1>6, StartForMasterKeeps
  <1> QED
    BY <1>4, <1>5, <1>6

LEMMA SelectMasterKeeps ==
    ASSUME IInv, NEW i \in DOMAIN chat, SelectMaster(i)
    PROVE  Coherent(fsm', chat', consent)
  <1>1. fsm.state = "ClientBooking.selecting_master"
    BY Tapped, ClientBookingTaps DEF SelectMaster
  <1>2. fsm \in Fsms /\ \A c \in {Track(i)} : c \in Chats /\ Fitting(fsm, c)
    BY TapBasis, TrackFits
  <1>3. fsm.halted \/ "client_id" \in fsm.keys
    BY <1>1, TapBasis, BookingReadiness DEF Data, Carries
  <1> QED
    BY <1>2, <1>3, StartForMasterKeeps DEF SelectMaster

LEMMA BookFromCardKeeps ==
    ASSUME IInv, NEW i \in DOMAIN chat, BookFromCard(i)
    PROVE  Coherent(fsm', chat', consent)
  <1> DEFINE state == "ClientBooking.selecting_date"
             c == Cleared(chat)
             drawn == Drawn(c, i, "book.calendar", NoDay)
             d == [drawn EXCEPT ![i].tracked = TRUE]
             shown == InFront(c, i)
             f == Put(Blank, {"client_id", "master_id"})
  <1>1. chat[i].kind = "master card"
    BY Tapped, OtherTaps DEF BookFromCard
  <1>2. /\ c \in Chats /\ Idle(c) /\ Decent(c) /\ DOMAIN c = DOMAIN chat
        /\ c[i].kind = chat[i].kind
    BY TapBasis, ClearedIs DEF Idle, Decent
  <1>3. {"client_id", "master_id"} \in SUBSET Keys
    BY DEF Keys
  <1>4. /\ f \in Fsms /\ f.state = "none" /\ f.keys = {"client_id", "master_id"}
        /\ f.halted = FALSE
    BY <1>3, BlankIs, PutIs
  <1>5. \/ fsm' = Blank /\ chat' = c
        \/ fsm' = To(f, state) /\ chat' = d
        \/ fsm' = [To(f, state) EXCEPT !.lost = TRUE] /\ chat' = [shown EXCEPT ![i].tracked = TRUE]
        \/ CutShort(f) /\ chat' \in {c, d}
    BY DEF BookFromCard
  <1> HIDE DEF c, f
  <1>6. Data(To(f, state), consent) /\ Data(Lost(To(f, state)), consent)
    <2>1. Carries(f, state, consent)
      BY <1>4, BookingReadiness DEF Carries, FormStates
    <2> QED
      BY <1>4, <2>1, ClientBookingNames, DataWritten
  <1>7. \A g : \A n \in DOMAIN c : c[n].main => Stays(g, c[n].kind, c[n].shows)
    BY <1>2 DEF Idle
  <1>a. To(f, state).state = state
    BY <1>4, WrittenIs, ClientBookingNames
  <1>b. Own(To(f, state), "book.calendar", NoDay)
    BY <1>a, ClientBookingOwn
  <1>c. Own(CutOff(f), "book.calendar", NoDay)
    BY <1>4, CutOffOwn, ClientBookingNames
  <1>8. Own(Lost(To(f, state)), c[i].kind, c[i].shows)
    BY <1>1, <1>2, FreeOwn
  <1>9. /\ drawn \in Chats /\ Fitting(To(f, state), drawn) /\ Fitting(CutOff(f), drawn)
        /\ DOMAIN drawn = DOMAIN c
    BY <1>2, <1>7, <1>b, <1>c, DrawnFits, DrawnIs, ClientBookingNames DEF Shown, Idle
  <1>10. shown \in Chats /\ Fitting(Lost(To(f, state)), shown) /\ DOMAIN shown = DOMAIN c
    BY <1>2, <1>7, <1>8, InFrontFits, InFrontIs
  <1>d. i \in DOMAIN drawn /\ i \in DOMAIN shown
    BY <1>2, <1>9, <1>10
  <1>e. d = [drawn EXCEPT ![i].tracked = TRUE]
    OBVIOUS
  <1> HIDE DEF drawn, shown, d
  <1>11. d \in Chats /\ Fitting(To(f, state), d) /\ Fitting(CutOff(f), d)
    <2>1. d \in Chats /\ Below(d, drawn)
      BY <1>9, <1>d, <1>e, TrackedIs
    <2> QED
      BY <1>9, <2>1, BelowFits
  <1>12. /\ [shown EXCEPT ![i].tracked = TRUE] \in Chats
         /\ Fitting(Lost(To(f, state)), [shown EXCEPT ![i].tracked = TRUE])
    <2> DEFINE e == [shown EXCEPT ![i].tracked = TRUE]
    <2>1. e \in Chats /\ Below(e, shown)
      BY <1>10, <1>d, TrackedIs
    <2> HIDE DEF e
    <2>2. Fitting(Lost(To(f, state)), e)
      BY <1>10, <2>1, BelowFits
    <2> QED
      BY <2>1, <2>2 DEF e
  <1>13. To(f, state) \in Fsms /\ Lost(To(f, state)) \in Fsms
    BY <1>4, ToIs, LostIs, ClientBookingNames
  <1>14. CASE fsm' = Blank /\ chat' = c
    BY <1>2, <1>14, BlankEnds
  <1>15. CASE fsm' = To(f, state) /\ chat' = d
    BY <1>6, <1>11, <1>13, <1>15 DEF Coherent
  <1>16. CASE /\ fsm' = [To(f, state) EXCEPT !.lost = TRUE]
              /\ chat' = [shown EXCEPT ![i].tracked = TRUE]
    BY <1>6, <1>12, <1>13, <1>16 DEF Coherent, Lost
  <1>17. CASE CutShort(f) /\ chat' \in {c, d}
    BY <1>2, <1>4, <1>11, <1>17, IdleFits, CutShortEnds
  <1> QED
    BY <1>5, <1>14, <1>15, <1>16, <1>17

LEMMA TurnCalendarKeeps ==
    ASSUME IInv, NEW i \in DOMAIN chat, TurnCalendar(i)
    PROVE  Coherent(fsm', chat', consent)
  <1>1. fsm.state = "ClientBooking.selecting_date"
    BY Tapped, ClientBookingTaps DEF TurnCalendar
  <1>2. CASE Refresh(Track(i), i, "book.calendar")
    BY <1>2, <1>1, TrackFits, ClientBookingOwn, ClientBookingNames, RefreshInDialog
  <1>3. CASE Refuse(Track(i))
    BY <1>3, TrackFits, RefuseEnds
  <1> QED
    BY <1>2, <1>3 DEF TurnCalendar

LEMMA PickBookingDayKeeps ==
    ASSUME IInv, NEW i \in DOMAIN chat, PickBookingDay(i)
    PROVE  Coherent(fsm', chat', consent)
  <1>1. chat[i].kind = "book.calendar" /\ fsm.state = "ClientBooking.selecting_date"
    BY Tapped, ClientBookingTaps DEF PickBookingDay
  <1>2. CASE Refuse(Track(i))
    BY <1>2, TrackFits, RefuseEnds
  <1>3. CASE Refresh(Track(i), i, "book.calendar")
    BY <1>3, <1>1, TrackFits, ClientBookingOwn, ClientBookingNames, RefreshInDialog
  <1>4. CASE \E d \in Days : Redraw(Track(i), i, Listed(fsm, d), "ClientBooking.selecting_slot",
        "book.slots", d)
    <2>1. PICK d \in Days : Redraw(Track(i), i, Listed(fsm, d), "ClientBooking.selecting_slot",
          "book.slots", d)
      BY <1>4
    <2> DEFINE f == Listed(fsm, d)
    <2>2. Redraw(Track(i), i, f, "ClientBooking.selecting_slot", "book.slots", d)
      BY <1>4, <2>1
    <2>3. /\ f \in Fsms /\ f.state = fsm.state /\ f.keys = fsm.keys
          /\ f.day = d /\ f.picked = fsm.picked /\ f.who = fsm.who /\ f.halted = fsm.halted
      BY <2>1, ListedIs, <1>1, TapBasis DEF Fsms
    <2> HIDE DEF f
    <2>4. f.halted \/ Carries(f, "ClientBooking.selecting_slot", consent)
      BY <1>1, <2>3, TapBasis, BookingReadiness, ChatConstants DEF Data, Carries, FormStates
    <2>5. "ClientBooking.selecting_slot" \in States
      BY ClientBookingNames
    <2>6. /\ To(f, "ClientBooking.selecting_slot").state = "ClientBooking.selecting_slot"
          /\ To(f, "ClientBooking.selecting_slot").day = f.day
          /\ To(f, "ClientBooking.selecting_slot").picked = f.picked
          /\ To(f, "ClientBooking.selecting_slot").who = f.who
          /\ Lost(To(f, "ClientBooking.selecting_slot")).lost
          /\ Lost(To(f, "ClientBooking.selecting_slot")).state = "ClientBooking.selecting_slot"
      BY <2>3, <2>5, WrittenIs
    <2>7. Own(To(f, "ClientBooking.selecting_slot"), "book.slots", d)
      BY <2>1, <2>3, <2>6, ClientBookingOwn
    <2>8. Track(i)[i].kind = "book.calendar"
      BY <1>1, TrackFits
    <2>9. Own(Lost(To(f, "ClientBooking.selecting_slot")), Track(i)[i].kind, Track(i)[i].shows)
      BY <2>6, <2>8, BookingLost
    <2>10. Agrees(f, fsm)
      BY <1>1, <2>3 DEF Agrees
    <2>11. d \in Shown
      BY <2>1, TapBasis DEF Shown, Fsms
    <2> QED
      BY <1>1, <2>2, <2>3, <2>4, <2>7, <2>9, <2>10, <2>11, TrackFits, RedrawInDialog,
            ClientBookingNames DEF Shown
  <1> QED
    BY <1>2, <1>3, <1>4 DEF PickBookingDay

LEMMA SelectSlotKeeps ==
    ASSUME IInv, NEW i \in DOMAIN chat, SelectSlot(i)
    PROVE  Coherent(fsm', chat', consent)
  <1>1. chat[i].kind = "book.slots" /\ fsm.state = "ClientBooking.selecting_slot"
    BY Tapped, ClientBookingTaps DEF SelectSlot
  <1>2. CASE Redraw(Track(i), i, Picked(fsm, fsm.day), "ClientBooking.confirm", "book.confirm",
        fsm.day)
    <2> DEFINE f == Picked(fsm, fsm.day)
    <2>1. Redraw(Track(i), i, f, "ClientBooking.confirm", "book.confirm", fsm.day)
      BY <1>2
    <2>2. /\ f \in Fsms /\ f.state = fsm.state /\ f.keys = fsm.keys
          /\ f.day = fsm.day /\ f.picked = fsm.day /\ f.who = fsm.who /\ f.halted = fsm.halted
      BY PickedIs, <1>1, TapBasis DEF Fsms
    <2> HIDE DEF f
    <2>3. f.halted \/ Carries(f, "ClientBooking.confirm", consent)
      BY <1>1, <2>2, TapBasis, BookingReadiness DEF Data, Carries, FormStates
    <2>4. "ClientBooking.confirm" \in States
      BY ClientBookingNames
    <2>5. /\ To(f, "ClientBooking.confirm").state = "ClientBooking.confirm"
          /\ To(f, "ClientBooking.confirm").day = f.day
          /\ To(f, "ClientBooking.confirm").picked = f.picked
          /\ To(f, "ClientBooking.confirm").who = f.who
          /\ Lost(To(f, "ClientBooking.confirm")).lost
          /\ Lost(To(f, "ClientBooking.confirm")).state = "ClientBooking.confirm"
      BY <2>2, <2>4, WrittenIs
    <2>6. Own(To(f, "ClientBooking.confirm"), "book.confirm", fsm.day)
      BY <2>2, <2>5, ConfirmOwn
    <2>7. Track(i)[i].kind = "book.slots"
      BY <1>1, TrackFits
    <2>8. Own(Lost(To(f, "ClientBooking.confirm")), Track(i)[i].kind, Track(i)[i].shows)
      BY <2>5, <2>7, BookingLost
    <2>9. Agrees(f, fsm)
      BY <1>1, <2>2 DEF Agrees
    <2>10. fsm.day \in Shown
      BY TapBasis DEF Shown, Fsms
    <2> QED
      BY <1>1, <2>1, <2>2, <2>3, <2>6, <2>8, <2>9, <2>10, TrackFits, RedrawInDialog,
            ClientBookingNames DEF Shown
  <1>3. CASE LoseContext({Track(i)}, "client_booking")
    BY <1>3, TrackFits, ResetInDialog DEF LoseContext
  <1> QED
    BY <1>2, <1>3 DEF SelectSlot

LEMMA BookingBackToCalendarKeeps ==
    ASSUME IInv, NEW i \in DOMAIN chat, BookingBackToCalendar(i)
    PROVE  Coherent(fsm', chat', consent)
  <1>1. chat[i].kind = "book.slots" /\ fsm.state = "ClientBooking.selecting_slot"
    BY Tapped, ClientBookingTaps DEF BookingBackToCalendar
  <1>2. CASE Redraw(Track(i), i, Unlisted(fsm), "ClientBooking.selecting_date", "book.calendar",
        NoDay)
    <2> DEFINE f == Unlisted(fsm)
    <2>1. Redraw(Track(i), i, f, "ClientBooking.selecting_date", "book.calendar", NoDay)
      BY <1>2
    <2>2. /\ f \in Fsms /\ f.state = fsm.state /\ f.keys = fsm.keys
          /\ f.day = NoDay /\ f.picked = NoDay /\ f.who = fsm.who /\ f.halted = fsm.halted
      BY UnlistedIs, <1>1, TapBasis DEF Fsms
    <2> HIDE DEF f
    <2>3. f.halted \/ Carries(f, "ClientBooking.selecting_date", consent)
      BY <1>1, <2>2, TapBasis, BookingReadiness DEF Data, Carries, FormStates
    <2>4. "ClientBooking.selecting_date" \in States
      BY ClientBookingNames
    <2>5. /\ To(f, "ClientBooking.selecting_date").state = "ClientBooking.selecting_date"
          /\ To(f, "ClientBooking.selecting_date").day = f.day
          /\ To(f, "ClientBooking.selecting_date").picked = f.picked
          /\ To(f, "ClientBooking.selecting_date").who = f.who
          /\ Lost(To(f, "ClientBooking.selecting_date")).lost
          /\ Lost(To(f, "ClientBooking.selecting_date")).state = "ClientBooking.selecting_date"
      BY <2>2, <2>4, WrittenIs
    <2>6. Own(To(f, "ClientBooking.selecting_date"), "book.calendar", NoDay)
      BY <2>2, <2>5, ClientBookingOwn
    <2>7. Track(i)[i].kind = "book.slots"
      BY <1>1, TrackFits
    <2>8. Own(Lost(To(f, "ClientBooking.selecting_date")), Track(i)[i].kind, Track(i)[i].shows)
      BY <2>5, <2>7, BookingLost
    <2>9. Agrees(f, fsm)
      BY <1>1, <2>2 DEF Agrees
    <2> QED
      BY <1>1, <2>1, <2>2, <2>3, <2>6, <2>8, <2>9, TrackFits, RedrawInDialog,
            ClientBookingNames DEF Shown
  <1> QED
    BY <1>2 DEF BookingBackToCalendar

LEMMA BookingBackToSlotsKeeps ==
    ASSUME IInv, NEW i \in DOMAIN chat, BookingBackToSlots(i)
    PROVE  Coherent(fsm', chat', consent)
  <1>1. chat[i].kind = "book.confirm" /\ fsm.state = "ClientBooking.confirm"
    BY Tapped, ClientBookingTaps DEF BookingBackToSlots
  <1>2. CASE Redraw(Track(i), i, Picked(fsm, NoDay), "ClientBooking.selecting_slot", "book.slots",
        fsm.day)
    <2> DEFINE f == Picked(fsm, NoDay)
    <2>1. Redraw(Track(i), i, f, "ClientBooking.selecting_slot", "book.slots", fsm.day)
      BY <1>2
    <2>2. /\ f \in Fsms /\ f.state = fsm.state /\ f.keys = fsm.keys
          /\ f.day = fsm.day /\ f.picked = NoDay /\ f.who = fsm.who /\ f.halted = fsm.halted
      BY PickedIs, <1>1, TapBasis DEF Fsms
    <2> HIDE DEF f
    <2>3. f.halted \/ Carries(f, "ClientBooking.selecting_slot", consent)
      BY <1>1, <2>2, TapBasis, BookingReadiness DEF Data, Carries, FormStates
    <2>4. "ClientBooking.selecting_slot" \in States
      BY ClientBookingNames
    <2>5. /\ To(f, "ClientBooking.selecting_slot").state = "ClientBooking.selecting_slot"
          /\ To(f, "ClientBooking.selecting_slot").day = f.day
          /\ To(f, "ClientBooking.selecting_slot").picked = f.picked
          /\ To(f, "ClientBooking.selecting_slot").who = f.who
          /\ Lost(To(f, "ClientBooking.selecting_slot")).lost
          /\ Lost(To(f, "ClientBooking.selecting_slot")).state = "ClientBooking.selecting_slot"
      BY <2>2, <2>4, WrittenIs
    <2>6. Own(To(f, "ClientBooking.selecting_slot"), "book.slots", fsm.day)
      BY <2>2, <2>5, ClientBookingOwn
    <2>7. Track(i)[i].kind = "book.confirm"
      BY <1>1, TrackFits
    <2>8. Own(Lost(To(f, "ClientBooking.selecting_slot")), Track(i)[i].kind, Track(i)[i].shows)
      BY <2>5, <2>7, BookingLost
    <2>9. Agrees(f, fsm)
      BY <1>1, <2>2 DEF Agrees
    <2>10. fsm.day \in Shown
      BY TapBasis DEF Shown, Fsms
    <2> QED
      BY <1>1, <2>1, <2>2, <2>3, <2>6, <2>8, <2>9, <2>10, TrackFits, RedrawInDialog,
            ClientBookingNames DEF Shown
  <1>3. CASE LoseContext({Track(i)}, "client_booking")
    BY <1>3, TrackFits, ResetInDialog DEF LoseContext
  <1> QED
    BY <1>2, <1>3 DEF BookingBackToSlots

LEMMA ConfirmRefusedKeeps ==
    ASSUME IInv, NEW i \in DOMAIN chat, ConfirmRefused(i)
    PROVE  Coherent(fsm', chat', consent)
  <1>1. chat[i].kind = "book.confirm" /\ fsm.state = "ClientBooking.confirm"
    BY Tapped, ClientBookingTaps DEF ConfirmRefused
  <1>2. CASE Redraw(Track(i), i, Picked(fsm, NoDay), "ClientBooking.selecting_slot", "book.slots",
        fsm.day)
    <2> DEFINE f == Picked(fsm, NoDay)
    <2>1. Redraw(Track(i), i, f, "ClientBooking.selecting_slot", "book.slots", fsm.day)
      BY <1>2
    <2>2. /\ f \in Fsms /\ f.state = fsm.state /\ f.keys = fsm.keys
          /\ f.day = fsm.day /\ f.picked = NoDay /\ f.who = fsm.who /\ f.halted = fsm.halted
      BY PickedIs, <1>1, TapBasis DEF Fsms
    <2> HIDE DEF f
    <2>3. f.halted \/ Carries(f, "ClientBooking.selecting_slot", consent)
      BY <1>1, <2>2, TapBasis, BookingReadiness DEF Data, Carries, FormStates
    <2>4. "ClientBooking.selecting_slot" \in States
      BY ClientBookingNames
    <2>5. /\ To(f, "ClientBooking.selecting_slot").state = "ClientBooking.selecting_slot"
          /\ To(f, "ClientBooking.selecting_slot").day = f.day
          /\ To(f, "ClientBooking.selecting_slot").picked = f.picked
          /\ To(f, "ClientBooking.selecting_slot").who = f.who
          /\ Lost(To(f, "ClientBooking.selecting_slot")).lost
          /\ Lost(To(f, "ClientBooking.selecting_slot")).state = "ClientBooking.selecting_slot"
      BY <2>2, <2>4, WrittenIs
    <2>6. Own(To(f, "ClientBooking.selecting_slot"), "book.slots", fsm.day)
      BY <2>2, <2>5, ClientBookingOwn
    <2>7. Track(i)[i].kind = "book.confirm"
      BY <1>1, TrackFits
    <2>8. Own(Lost(To(f, "ClientBooking.selecting_slot")), Track(i)[i].kind, Track(i)[i].shows)
      BY <2>5, <2>7, BookingLost
    <2>9. Agrees(f, fsm)
      BY <1>1, <2>2 DEF Agrees
    <2>10. fsm.day \in Shown
      BY TapBasis DEF Shown, Fsms
    <2> QED
      BY <1>1, <2>1, <2>2, <2>3, <2>6, <2>8, <2>9, <2>10, TrackFits, RedrawInDialog,
            ClientBookingNames DEF Shown
  <1>3. CASE Redraw(Track(i), i, fsm, "ClientBooking.selecting_date", "book.calendar", NoDay)
    <2>1. Redraw(Track(i), i, fsm, "ClientBooking.selecting_date", "book.calendar", NoDay)
      BY <1>3
    <2>2. fsm \in Fsms
      BY TapBasis
    <2>3. fsm.halted \/ Carries(fsm, "ClientBooking.selecting_date", consent)
      BY <1>1, <2>2, TapBasis, BookingReadiness DEF Data, Carries, FormStates
    <2>4. "ClientBooking.selecting_date" \in States
      BY ClientBookingNames
    <2>5. /\ To(fsm, "ClientBooking.selecting_date").state = "ClientBooking.selecting_date"
          /\ To(fsm, "ClientBooking.selecting_date").day = fsm.day
          /\ To(fsm, "ClientBooking.selecting_date").picked = fsm.picked
          /\ To(fsm, "ClientBooking.selecting_date").who = fsm.who
          /\ Lost(To(fsm, "ClientBooking.selecting_date")).lost
          /\ Lost(To(fsm, "ClientBooking.selecting_date")).state = "ClientBooking.selecting_date"
      BY <2>2, <2>4, WrittenIs
    <2>6. Own(To(fsm, "ClientBooking.selecting_date"), "book.calendar", NoDay)
      BY <2>2, <2>5, ClientBookingOwn
    <2>7. Track(i)[i].kind = "book.confirm"
      BY <1>1, TrackFits
    <2>8. Own(Lost(To(fsm, "ClientBooking.selecting_date")), Track(i)[i].kind, Track(i)[i].shows)
      BY <2>5, <2>7, BookingLost
    <2>9. Agrees(fsm, fsm)
      BY <1>1, <2>2 DEF Agrees
    <2> QED
      BY <1>1, <2>1, <2>2, <2>3, <2>6, <2>8, <2>9, TrackFits, RedrawInDialog,
            ClientBookingNames DEF Shown
  <1>4. CASE Refuse(Track(i))
    BY <1>4, TrackFits, RefuseEnds
  <1>5. CASE LoseContext({Track(i)}, "client_booking")
    BY <1>5, TrackFits, ResetInDialog DEF LoseContext
  <1> QED
    BY <1>2, <1>3, <1>4, <1>5 DEF ConfirmRefused, RecoverSlots

LEMMA ConfirmBookingKeeps ==
    ASSUME IInv, NEW i \in DOMAIN chat, ConfirmBooking(i) \/ CancelBooking(i)
    PROVE  Coherent(fsm', chat', consent)
  <1>1. CASE Reset({Track(i)}, "client_booking")
    BY <1>1, TrackFits, ResetInDialog
  <1>2. CASE Reset({chat}, "client_booking")
    BY <1>2, TapBasis, ResetInDialog
  <1> QED
    BY <1>1, <1>2 DEF ConfirmBooking, CancelBooking

-----------------------------------------------------------------------------
(* A master books for a client.                                            *)

LEMMA StartAddClientFromKeeps ==
    ASSUME IInv, NEW C, \A c \in C : c \in Chats /\ Idle(c), StartAddClientFrom(C, Blank)
    PROVE  Coherent(fsm', chat', consent)
  <1>1. CASE Reset(C, "master_add_client")
    BY <1>1, ResetAnew
  <1>2. CASE Send(C, Blank, "AddClient.name", "client.cancel", NoDay)
    <2>1. Blank \in Fsms /\ Blank.state = "none" /\ Carries(Blank, "AddClient.name", consent)
      BY BlankIs, ProfileReadiness DEF Carries, FormStates
    <2>2. To(Blank, "AddClient.name").state = "AddClient.name"
      BY BlankIs, ToIs, AddClientNames
    <2>3. Own(To(Blank, "AddClient.name"), "client.cancel", NoDay)
      BY <2>2, AddClientOwn
    <2> QED
      BY <1>2, <2>1, <2>3, SendAnew, AddClientNames DEF Shown
  <1> QED
    BY <1>1, <1>2 DEF StartAddClientFrom

LEMMA NoClientsAddClientKeeps ==
    ASSUME IInv, NEW i \in DOMAIN chat, NoClientsAddClient(i)
    PROVE  Coherent(fsm', chat', consent)
  <1>1. Untrack(i) \in Chats /\ Decent(Untrack(i))
    <2>1. Untrack(i) \in Chats /\ Below(Untrack(i), chat)
      BY TapBasis, TrackedIs DEF Untrack
    <2> QED
      BY <2>1, TapBasis, BelowDecent
  <1>2. \A c \in Fresh({Untrack(i)}, "master_add_booking") : c \in Chats /\ Idle(c)
    BY <1>1, FreshChats
  <1> QED
    BY <1>2, StartAddClientFromKeeps DEF NoClientsAddClient

LEMMA StartAddBookingKeeps ==
    ASSUME IInv, StartAddBooking
    PROVE  Coherent(fsm', chat', consent)
  <1>1. \A c \in Fresh({chat}, "master_add_booking") : c \in Chats /\ Idle(c)
    BY TapBasis, FreshChats
  <1>2. \A c \in {chat} : c \in Chats /\ Fitting(fsm, c)
    BY TapBasis
  <1>3. CASE Reset({chat}, "master_add_booking")
    BY <1>3, <1>2, ResetInDialog
  <1>4. CASE Send(Fresh({chat}, "master_add_booking"), Blank, "AddBooking.no_clients",
        "add.noclients", NoDay)
    <2> DEFINE f == Blank
    <2>1. Send(Fresh({chat}, "master_add_booking"), f, "AddBooking.no_clients", "add.noclients",
          NoDay)
      BY <1>4
    <2>2. /\ f \in Fsms /\ f.state = "none" /\ f.keys = {}
          /\ f.day = NoDay /\ f.picked = NoDay /\ f.who = NoDay /\ ~f.halted
      BY BlankIs
    <2> HIDE DEF f
    <2>3. f.halted \/ Carries(f, "AddBooking.no_clients", consent)
      BY <1>1, <1>2, <2>2, TapBasis, BookingReadiness DEF Data, Carries, FormStates
    <2>4. "AddBooking.no_clients" \in States
      BY AddBookingNames
    <2>5. /\ To(f, "AddBooking.no_clients").state = "AddBooking.no_clients"
          /\ To(f, "AddBooking.no_clients").day = f.day
          /\ To(f, "AddBooking.no_clients").picked = f.picked
          /\ To(f, "AddBooking.no_clients").who = f.who
          /\ Lost(To(f, "AddBooking.no_clients")).lost
          /\ Lost(To(f, "AddBooking.no_clients")).state = "AddBooking.no_clients"
      BY <2>2, <2>4, WrittenIs
    <2>6. Own(To(f, "AddBooking.no_clients"), "add.noclients", NoDay)
      BY <2>2, <2>5, AddBookingOwn
    <2> QED
      BY <1>1, <1>2, <2>1, <2>2, <2>3, <2>6, <1>1, SendAnew, AddBookingNames DEF Shown
  <1>5. CASE Send(Fresh({chat}, "master_add_booking"), Blank, "AddBooking.search_client",
        "add.prompt", NoDay)
    <2> DEFINE f == Blank
    <2>1. Send(Fresh({chat}, "master_add_booking"), f, "AddBooking.search_client", "add.prompt",
          NoDay)
      BY <1>5
    <2>2. /\ f \in Fsms /\ f.state = "none" /\ f.keys = {}
          /\ f.day = NoDay /\ f.picked = NoDay /\ f.who = NoDay /\ ~f.halted
      BY BlankIs
    <2> HIDE DEF f
    <2>3. f.halted \/ Carries(f, "AddBooking.search_client", consent)
      BY <1>1, <1>2, <2>2, TapBasis, BookingReadiness DEF Data, Carries, FormStates
    <2>4. "AddBooking.search_client" \in States
      BY AddBookingNames
    <2>5. /\ To(f, "AddBooking.search_client").state = "AddBooking.search_client"
          /\ To(f, "AddBooking.search_client").day = f.day
          /\ To(f, "AddBooking.search_client").picked = f.picked
          /\ To(f, "AddBooking.search_client").who = f.who
          /\ Lost(To(f, "AddBooking.search_client")).lost
          /\ Lost(To(f, "AddBooking.search_client")).state = "AddBooking.search_client"
      BY <2>2, <2>4, WrittenIs
    <2>6. Own(To(f, "AddBooking.search_client"), "add.prompt", NoDay)
      BY <2>2, <2>5, AddBookingOwn
    <2> QED
      BY <1>1, <1>2, <2>1, <2>2, <2>3, <2>6, <1>1, SendAnew, AddBookingNames DEF Shown
  <1> QED
    BY <1>3, <1>4, <1>5 DEF StartAddBooking

LEMMA SearchClientKeeps ==
    ASSUME IInv, SearchClient
    PROVE  Coherent(fsm', chat', consent)
  <1>1. fsm.state = "AddBooking.search_client"
    BY DEF SearchClient
  <1>2. \A c \in {chat} : c \in Chats /\ Fitting(fsm, c)
    BY TapBasis
  <1>3. {"master_id", "clients"} \in SUBSET Keys
    BY DEF Keys
  <1>4. CASE Reset({chat}, "master_add_booking")
    BY <1>4, <1>2, ResetInDialog
  <1>5. CASE Send({chat}, fsm, "AddBooking.search_client", "add.prompt", NoDay)
    <2>1. Send({chat}, fsm, "AddBooking.search_client", "add.prompt", NoDay)
      BY <1>5
    <2>2. fsm \in Fsms
      BY TapBasis
    <2>3. fsm.halted \/ Carries(fsm, "AddBooking.search_client", consent)
      BY <1>1, <1>2, <1>3, <2>2, TapBasis, BookingReadiness DEF Data, Carries, FormStates
    <2>4. "AddBooking.search_client" \in States
      BY AddBookingNames
    <2>5. /\ To(fsm, "AddBooking.search_client").state = "AddBooking.search_client"
          /\ To(fsm, "AddBooking.search_client").day = fsm.day
          /\ To(fsm, "AddBooking.search_client").picked = fsm.picked
          /\ To(fsm, "AddBooking.search_client").who = fsm.who
          /\ Lost(To(fsm, "AddBooking.search_client")).lost
          /\ Lost(To(fsm, "AddBooking.search_client")).state = "AddBooking.search_client"
      BY <2>2, <2>4, WrittenIs
    <2>6. Own(To(fsm, "AddBooking.search_client"), "add.prompt", NoDay)
      BY <2>2, <2>5, AddBookingOwn
    <2>7. Agrees(fsm, fsm)
      BY <1>1, <1>2, <1>3, <2>2 DEF Agrees
    <2> QED
      BY <1>1, <1>2, <1>3, <2>1, <2>2, <2>3, <2>6, <2>7, TrackFits, SendInDialog,
            AddBookingNames DEF Shown
  <1>6. CASE Send({chat}, Put(fsm, {"master_id", "clients"}), "AddBooking.search_client",
        "add.clients", NoDay)
    <2> DEFINE f == Put(fsm, {"master_id", "clients"})
    <2>1. Send({chat}, f, "AddBooking.search_client", "add.clients", NoDay)
      BY <1>6
    <2>2. /\ f \in Fsms /\ f.state = fsm.state /\ f.keys = fsm.keys \cup {"master_id", "clients"}
          /\ f.day = fsm.day /\ f.picked = fsm.picked /\ f.who = fsm.who /\ f.halted = fsm.halted
      BY PutIs, <1>1, <1>2, <1>3, TapBasis DEF Fsms
    <2> HIDE DEF f
    <2>3. f.halted \/ Carries(f, "AddBooking.search_client", consent)
      BY <1>1, <1>2, <1>3, <2>2, TapBasis, BookingReadiness DEF Data, Carries, FormStates
    <2>4. "AddBooking.search_client" \in States
      BY AddBookingNames
    <2>5. /\ To(f, "AddBooking.search_client").state = "AddBooking.search_client"
          /\ To(f, "AddBooking.search_client").day = f.day
          /\ To(f, "AddBooking.search_client").picked = f.picked
          /\ To(f, "AddBooking.search_client").who = f.who
          /\ Lost(To(f, "AddBooking.search_client")).lost
          /\ Lost(To(f, "AddBooking.search_client")).state = "AddBooking.search_client"
      BY <2>2, <2>4, WrittenIs
    <2>6. Own(To(f, "AddBooking.search_client"), "add.clients", NoDay)
      BY <2>2, <2>5, AddBookingOwn
    <2>7. Agrees(f, fsm)
      BY <1>1, <1>2, <1>3, <2>2 DEF Agrees
    <2> QED
      BY <1>1, <1>2, <1>3, <2>1, <2>2, <2>3, <2>6, <2>7, TrackFits, SendInDialog,
            AddBookingNames DEF Shown
  <1> QED
    BY <1>4, <1>5, <1>6 DEF SearchClient

LEMMA ChooseClientKeeps ==
    ASSUME IInv, NEW i \in DOMAIN chat, ChooseClient(i)
    PROVE  Coherent(fsm', chat', consent)
  <1>1. fsm.state = "AddBooking.search_client"
    BY Tapped, AddBookingTaps DEF ChooseClient
  <1>2. {"client"} \in SUBSET Keys
    BY DEF Keys
  <1>3. CASE Refuse(Track(i))
    BY <1>3, TrackFits, RefuseEnds
  <1>4. CASE /\ "clients" \in fsm.keys
             /\ RedrawOrSend(Track(i), i, Put(fsm, {"client"}), "AddBooking.selecting_date",
                    "add.calendar", NoDay)
    <2> DEFINE f == Put(fsm, {"client"})
    <2>1. RedrawOrSend(Track(i), i, f, "AddBooking.selecting_date", "add.calendar", NoDay)
      BY <1>4
    <2>2. /\ f \in Fsms /\ f.state = fsm.state /\ f.keys = fsm.keys \cup {"client"}
          /\ f.day = fsm.day /\ f.picked = fsm.picked /\ f.who = fsm.who /\ f.halted = fsm.halted
      BY PutIs, <1>1, <1>2, TapBasis DEF Fsms
    <2> HIDE DEF f
    <2>3. f.halted \/ Carries(f, "AddBooking.selecting_date", consent)
      BY <1>1, <1>2, <1>4, <2>2, TapBasis, BookingReadiness DEF Data, Carries, FormStates
    <2>4. "AddBooking.selecting_date" \in States
      BY AddBookingNames
    <2>5. /\ To(f, "AddBooking.selecting_date").state = "AddBooking.selecting_date"
          /\ To(f, "AddBooking.selecting_date").day = f.day
          /\ To(f, "AddBooking.selecting_date").picked = f.picked
          /\ To(f, "AddBooking.selecting_date").who = f.who
          /\ Lost(To(f, "AddBooking.selecting_date")).lost
          /\ Lost(To(f, "AddBooking.selecting_date")).state = "AddBooking.selecting_date"
      BY <2>2, <2>4, WrittenIs
    <2>6. Own(To(f, "AddBooking.selecting_date"), "add.calendar", NoDay)
      BY <1>4, <2>2, <2>5, AddBookingOwn
    <2>7. Agrees(f, fsm)
      BY <1>1, <1>2, <2>2 DEF Agrees
    <2> QED
      BY <1>1, <1>2, <2>1, <2>2, <2>3, <2>6, <2>7, TrackFits, RedrawOrSendInDialog,
            AddBookingNames DEF Shown
  <1> QED
    BY <1>3, <1>4 DEF ChooseClient

LEMMA BookFromCardOfKeeps ==
    ASSUME IInv, NEW i \in DOMAIN chat, chat[i].kind = "client card" \/ chat[i].kind = "edit.view",
           NEW keys \in SUBSET Keys, "master_id" \in keys, "client" \in keys,
           "clients" \notin keys, "confirm_in_progress" \notin keys, Redraw(Cleared(chat), i,
                  Put(Blank, keys), "AddBooking.selecting_date",
                  "add.calendar", NoDay)
    PROVE  Coherent(fsm', chat', consent)
  <1>1. /\ i \in DOMAIN Cleared(chat) /\ Cleared(chat)[i].kind = chat[i].kind
        /\ Cleared(chat)[i].shows = chat[i].shows
    BY TapBasis, ClearedIs
  <1>2. Person(Cleared(chat)[i].kind, Cleared(chat)[i].shows)
    BY <1>1, TapBasis DEF Decent
  <1>3. CASE Redraw(Cleared(chat), i, Put(Blank, keys), "AddBooking.selecting_date",
        "add.calendar", NoDay)
    <2> DEFINE f == Put(Blank, keys)
    <2>1. Redraw(Cleared(chat), i, f, "AddBooking.selecting_date", "add.calendar", NoDay)
      BY <1>3
    <2>2. /\ f \in Fsms /\ f.state = "none" /\ f.keys = keys
          /\ f.day = NoDay /\ f.picked = NoDay /\ f.who = NoDay /\ ~f.halted
      BY BlankIs, PutIs
    <2> HIDE DEF f
    <2>3. f.halted \/ Carries(f, "AddBooking.selecting_date", consent)
      BY <1>1, <1>2, <2>2, TapBasis, BookingReadiness DEF Data, Carries, FormStates
    <2>4. "AddBooking.selecting_date" \in States
      BY AddBookingNames
    <2>5. /\ To(f, "AddBooking.selecting_date").state = "AddBooking.selecting_date"
          /\ To(f, "AddBooking.selecting_date").day = f.day
          /\ To(f, "AddBooking.selecting_date").picked = f.picked
          /\ To(f, "AddBooking.selecting_date").who = f.who
          /\ Lost(To(f, "AddBooking.selecting_date")).lost
          /\ Lost(To(f, "AddBooking.selecting_date")).state = "AddBooking.selecting_date"
      BY <2>2, <2>4, WrittenIs
    <2>6. Own(To(f, "AddBooking.selecting_date"), "add.calendar", NoDay)
      BY <2>2, <2>5, AddBookingOwn
    <2>7. Cleared(chat)[i].kind = chat[i].kind
      BY <1>1, <1>2, TapBasis
    <2>8. Own(Lost(To(f, "AddBooking.selecting_date")), Cleared(chat)[i].kind,
          Cleared(chat)[i].shows)
      BY <2>5, <2>7, CardLost, <1>2
    <2> QED
      BY <1>1, <1>2, <2>1, <2>2, <2>3, <2>6, <2>8, TapBasis, RedrawAnew, AddBookingNames DEF
            Shown
  <1> QED
    BY <1>3

LEMMA BookForCardKeeps ==
    ASSUME IInv, NEW i \in DOMAIN chat, BookForCard(i)
    PROVE  Coherent(fsm', chat', consent)
  <1>1. chat[i].kind = "client card"
    BY Tapped, OtherTaps DEF BookForCard
  <1>2. PICK return \in SUBSET {"return_to"} :
            Redraw(Cleared(chat), i, Put(Blank, {"master_id", "client"} \cup return),
                   "AddBooking.selecting_date", "add.calendar", NoDay)
    BY DEF BookForCard
  <1> DEFINE keys == {"master_id", "client"} \cup return
  <1>3. /\ keys \in SUBSET Keys /\ "master_id" \in keys /\ "client" \in keys
        /\ "clients" \notin keys /\ "confirm_in_progress" \notin keys
    BY <1>2 DEF Keys
  <1>4. Redraw(Cleared(chat), i, Put(Blank, keys), "AddBooking.selecting_date", "add.calendar",
               NoDay)
    BY <1>2
  <1> HIDE DEF keys
  <1> QED
    BY <1>1, <1>3, <1>4, BookFromCardOfKeeps

LEMMA TurnAddCalendarKeeps ==
    ASSUME IInv, NEW i \in DOMAIN chat, TurnAddCalendar(i)
    PROVE  Coherent(fsm', chat', consent)
  <1>1. fsm.state = "AddBooking.selecting_date"
    BY Tapped, AddBookingTaps DEF TurnAddCalendar
  <1>2. CASE Refresh(Track(i), i, "add.calendar")
    BY <1>2, <1>1, TrackFits, AddBookingOwn, AddBookingNames, RefreshInDialog
  <1> QED
    BY <1>2 DEF TurnAddCalendar

LEMMA ShowAddPaywallKeeps ==
    ASSUME IInv, NEW i \in DOMAIN chat, ShowAddPaywall(i)
    PROVE  Coherent(fsm', chat', consent)
  <1>1. fsm.state = "AddBooking.selecting_date"
    BY Tapped, AddBookingTaps DEF ShowAddPaywall
  <1>2. CASE Refresh(Track(i), i, "add.paywall")
    BY <1>2, <1>1, TrackFits, AddBookingOwn, AddBookingNames, RefreshInDialog
  <1> QED
    BY <1>2 DEF ShowAddPaywall

LEMMA CalendarCancelKeeps ==
    ASSUME IInv, NEW i \in DOMAIN chat, CalendarCancel(i)
    PROVE  Coherent(fsm', chat', consent)
  <1>1. fsm.state = "AddBooking.selecting_date"
    BY Tapped, AddBookingTaps DEF CalendarCancel
  <1>2. \/ RedrawOrSend(Track(i), i, Unlisted(Drop(fsm, {"client"})), "AddBooking.search_client",
                       "add.clients", NoDay)
        \/ fsm' = Blank /\ \E c \in {chat} : chat' = Cleared(Drawn(c, i, "client card", NoDay))
        \/ fsm' = Blank /\ chat' = Cleared(chat)
        \/ CutShort(fsm) /\ chat' = Drawn(Track(i), i, "client card", NoDay)
        \/ Reset({Track(i)}, "master_add_booking")
    BY DEF CalendarCancel
  <1>3. Drop(fsm, {"client"}) \in Fsms
    BY TapBasis, DropIs
  <1>4. CASE RedrawOrSend(Track(i), i, Unlisted(Drop(fsm, {"client"})),
        "AddBooking.search_client", "add.clients", NoDay)
    <2> DEFINE f == Unlisted(Drop(fsm, {"client"}))
    <2>1. RedrawOrSend(Track(i), i, f, "AddBooking.search_client", "add.clients", NoDay)
      BY <1>4
    <2>2. /\ f \in Fsms /\ f.state = fsm.state /\ f.keys = fsm.keys \ {"client"}
          /\ f.day = NoDay /\ f.picked = NoDay /\ f.who = fsm.who /\ f.halted = fsm.halted
      BY UnlistedIs, DropIs, <1>1, <1>3, TapBasis DEF Fsms
    <2> HIDE DEF f
    <2>3. f.halted \/ Carries(f, "AddBooking.search_client", consent)
      BY <1>1, <1>3, <2>2, TapBasis, BookingReadiness DEF Data, Carries, FormStates
    <2>4. "AddBooking.search_client" \in States
      BY AddBookingNames
    <2>5. /\ To(f, "AddBooking.search_client").state = "AddBooking.search_client"
          /\ To(f, "AddBooking.search_client").day = f.day
          /\ To(f, "AddBooking.search_client").picked = f.picked
          /\ To(f, "AddBooking.search_client").who = f.who
          /\ Lost(To(f, "AddBooking.search_client")).lost
          /\ Lost(To(f, "AddBooking.search_client")).state = "AddBooking.search_client"
      BY <2>2, <2>4, WrittenIs
    <2>6. Own(To(f, "AddBooking.search_client"), "add.clients", NoDay)
      BY <2>2, <2>5, AddBookingOwn
    <2>7. Agrees(f, fsm)
      BY <1>1, <1>3, <2>2 DEF Agrees
    <2> QED
      BY <1>1, <1>3, <2>1, <2>2, <2>3, <2>6, <2>7, TrackFits, RedrawOrSendInDialog,
            AddBookingNames DEF Shown
  <1>5. CASE /\ fsm' = Blank
             /\ \E c \in {chat} : chat' = Cleared(Drawn(c, i, "client card", NoDay))
    BY <1>5, TapBasis, ClearedDrawnEnds, OtherNames
  <1>6. CASE fsm' = Blank /\ chat' = Cleared(chat)
    BY <1>6, TapBasis, BlankEnds
  <1>7. CASE CutShort(fsm) /\ chat' = Drawn(Track(i), i, "client card", NoDay)
    BY <1>7, TapBasis, TrackFits, FittingDecent, DrawnCutOff, CutShortEnds, OtherNames DEF
          Shown
  <1>8. CASE Reset({Track(i)}, "master_add_booking")
    BY <1>8, TrackFits, ResetInDialog
  <1> QED
    BY <1>2, <1>4, <1>5, <1>6, <1>7, <1>8

LEMMA PickAddDayKeeps ==
    ASSUME IInv, NEW i \in DOMAIN chat, PickAddDay(i)
    PROVE  Coherent(fsm', chat', consent)
  <1>1. fsm.state = "AddBooking.selecting_date"
    BY Tapped, AddBookingTaps DEF PickAddDay
  <1>2. CASE Refuse(Track(i))
    BY <1>2, TrackFits, RefuseEnds
  <1>3. CASE Refresh(Track(i), i, "add.calendar")
    BY <1>3, <1>1, TrackFits, AddBookingOwn, AddBookingNames, RefreshInDialog
  <1>4. CASE chat' = Sent(Track(i), "add.calendar", NoDay) /\ UNCHANGED fsm
    BY <1>4, <1>1, TrackFits, AddBookingOwn, AddBookingNames, SentInDialog DEF Shown
  <1>5. CASE \E d \in Days : RedrawOrSend(Track(i), i, Listed(fsm, d),
        "AddBooking.selecting_slot", "add.slots", d)
    <2>1. PICK d \in Days : RedrawOrSend(Track(i), i, Listed(fsm, d), "AddBooking.selecting_slot",
          "add.slots", d)
      BY <1>5
    <2> DEFINE f == Listed(fsm, d)
    <2>2. RedrawOrSend(Track(i), i, f, "AddBooking.selecting_slot", "add.slots", d)
      BY <1>5, <2>1
    <2>3. /\ f \in Fsms /\ f.state = fsm.state /\ f.keys = fsm.keys
          /\ f.day = d /\ f.picked = fsm.picked /\ f.who = fsm.who /\ f.halted = fsm.halted
      BY <2>1, ListedIs, <1>1, TapBasis DEF Fsms
    <2> HIDE DEF f
    <2>4. f.halted \/ Carries(f, "AddBooking.selecting_slot", consent)
      BY <1>1, <2>3, TapBasis, BookingReadiness, ChatConstants DEF Data, Carries, FormStates
    <2>5. "AddBooking.selecting_slot" \in States
      BY AddBookingNames
    <2>6. /\ To(f, "AddBooking.selecting_slot").state = "AddBooking.selecting_slot"
          /\ To(f, "AddBooking.selecting_slot").day = f.day
          /\ To(f, "AddBooking.selecting_slot").picked = f.picked
          /\ To(f, "AddBooking.selecting_slot").who = f.who
          /\ Lost(To(f, "AddBooking.selecting_slot")).lost
          /\ Lost(To(f, "AddBooking.selecting_slot")).state = "AddBooking.selecting_slot"
      BY <2>3, <2>5, WrittenIs
    <2>7. Own(To(f, "AddBooking.selecting_slot"), "add.slots", d)
      BY <2>1, <2>3, <2>6, AddBookingOwn
    <2>8. Agrees(f, fsm)
      BY <1>1, <2>3 DEF Agrees
    <2>9. d \in Shown
      BY <2>1, TapBasis DEF Shown, Fsms
    <2> QED
      BY <1>1, <2>2, <2>3, <2>4, <2>7, <2>8, <2>9, TrackFits, RedrawOrSendInDialog,
            AddBookingNames DEF Shown
  <1> QED
    BY <1>2, <1>3, <1>4, <1>5 DEF PickAddDay

LEMMA PickAddSlotKeeps ==
    ASSUME IInv, NEW i \in DOMAIN chat, PickAddSlot(i)
    PROVE  Coherent(fsm', chat', consent)
  <1>1. fsm.state = "AddBooking.selecting_slot"
    BY Tapped, AddBookingTaps DEF PickAddSlot
  <1>2. CASE RedrawOrSend(Track(i), i, Picked(fsm, fsm.day), "AddBooking.confirm", "add.confirm",
        fsm.day)
    <2> DEFINE f == Picked(fsm, fsm.day)
    <2>1. RedrawOrSend(Track(i), i, f, "AddBooking.confirm", "add.confirm", fsm.day)
      BY <1>2
    <2>2. /\ f \in Fsms /\ f.state = fsm.state /\ f.keys = fsm.keys
          /\ f.day = fsm.day /\ f.picked = fsm.day /\ f.who = fsm.who /\ f.halted = fsm.halted
      BY PickedIs, <1>1, TapBasis DEF Fsms
    <2> HIDE DEF f
    <2>3. f.halted \/ Carries(f, "AddBooking.confirm", consent)
      BY <1>1, <2>2, TapBasis, BookingReadiness DEF Data, Carries, FormStates
    <2>4. "AddBooking.confirm" \in States
      BY AddBookingNames
    <2>5. /\ To(f, "AddBooking.confirm").state = "AddBooking.confirm"
          /\ To(f, "AddBooking.confirm").day = f.day
          /\ To(f, "AddBooking.confirm").picked = f.picked
          /\ To(f, "AddBooking.confirm").who = f.who
          /\ Lost(To(f, "AddBooking.confirm")).lost
          /\ Lost(To(f, "AddBooking.confirm")).state = "AddBooking.confirm"
      BY <2>2, <2>4, WrittenIs
    <2>6. Own(To(f, "AddBooking.confirm"), "add.confirm", fsm.day)
      BY <2>2, <2>5, ConfirmOwn
    <2>7. Agrees(f, fsm)
      BY <1>1, <2>2 DEF Agrees
    <2>8. fsm.day \in Shown
      BY TapBasis DEF Shown, Fsms
    <2> QED
      BY <1>1, <2>1, <2>2, <2>3, <2>6, <2>7, <2>8, TrackFits, RedrawOrSendInDialog,
            AddBookingNames DEF Shown
  <1>3. CASE LoseContext({Track(i)}, "master_add_booking")
    BY <1>3, TrackFits, ResetInDialog DEF LoseContext
  <1> QED
    BY <1>2, <1>3 DEF PickAddSlot

LEMMA AddBackToCalendarKeeps ==
    ASSUME IInv, NEW i \in DOMAIN chat, AddBackToCalendar(i)
    PROVE  Coherent(fsm', chat', consent)
  <1>1. fsm.state = "AddBooking.selecting_slot"
    BY Tapped, AddBookingTaps DEF AddBackToCalendar
  <1>2. CASE RedrawOrSend(Track(i), i, Unlisted(fsm), "AddBooking.selecting_date", "add.calendar",
        NoDay)
    <2> DEFINE f == Unlisted(fsm)
    <2>1. RedrawOrSend(Track(i), i, f, "AddBooking.selecting_date", "add.calendar", NoDay)
      BY <1>2
    <2>2. /\ f \in Fsms /\ f.state = fsm.state /\ f.keys = fsm.keys
          /\ f.day = NoDay /\ f.picked = NoDay /\ f.who = fsm.who /\ f.halted = fsm.halted
      BY UnlistedIs, <1>1, TapBasis DEF Fsms
    <2> HIDE DEF f
    <2>3. f.halted \/ Carries(f, "AddBooking.selecting_date", consent)
      BY <1>1, <2>2, TapBasis, BookingReadiness DEF Data, Carries, FormStates
    <2>4. "AddBooking.selecting_date" \in States
      BY AddBookingNames
    <2>5. /\ To(f, "AddBooking.selecting_date").state = "AddBooking.selecting_date"
          /\ To(f, "AddBooking.selecting_date").day = f.day
          /\ To(f, "AddBooking.selecting_date").picked = f.picked
          /\ To(f, "AddBooking.selecting_date").who = f.who
          /\ Lost(To(f, "AddBooking.selecting_date")).lost
          /\ Lost(To(f, "AddBooking.selecting_date")).state = "AddBooking.selecting_date"
      BY <2>2, <2>4, WrittenIs
    <2>6. Own(To(f, "AddBooking.selecting_date"), "add.calendar", NoDay)
      BY <2>2, <2>5, AddBookingOwn
    <2>7. Agrees(f, fsm)
      BY <1>1, <2>2 DEF Agrees
    <2> QED
      BY <1>1, <2>1, <2>2, <2>3, <2>6, <2>7, TrackFits, RedrawOrSendInDialog, AddBookingNames
            DEF Shown
  <1> QED
    BY <1>2 DEF AddBackToCalendar

LEMMA AddBackToSlotsKeeps ==
    ASSUME IInv, NEW i \in DOMAIN chat, AddBackToSlots(i)
    PROVE  Coherent(fsm', chat', consent)
  <1>1. fsm.state = "AddBooking.confirm"
    BY Tapped, AddBookingTaps DEF AddBackToSlots
  <1>2. CASE RedrawOrSend(Track(i), i, Unconfirmed, "AddBooking.selecting_slot", "add.slots",
        fsm.day)
    <2> DEFINE f == Unconfirmed
    <2>1. RedrawOrSend(Track(i), i, f, "AddBooking.selecting_slot", "add.slots", fsm.day)
      BY <1>2
    <2>2. /\ f \in Fsms /\ f.state = fsm.state /\ f.keys = fsm.keys \ {"confirm_in_progress"}
          /\ f.day = fsm.day /\ f.picked = NoDay /\ f.who = fsm.who /\ f.halted = fsm.halted
      BY UnconfirmedIs, <1>1, TapBasis DEF Fsms
    <2> HIDE DEF f
    <2>3. f.halted \/ Carries(f, "AddBooking.selecting_slot", consent)
      BY <1>1, <2>2, TapBasis, BookingReadiness DEF Data, Carries, FormStates
    <2>4. "AddBooking.selecting_slot" \in States
      BY AddBookingNames
    <2>5. /\ To(f, "AddBooking.selecting_slot").state = "AddBooking.selecting_slot"
          /\ To(f, "AddBooking.selecting_slot").day = f.day
          /\ To(f, "AddBooking.selecting_slot").picked = f.picked
          /\ To(f, "AddBooking.selecting_slot").who = f.who
          /\ Lost(To(f, "AddBooking.selecting_slot")).lost
          /\ Lost(To(f, "AddBooking.selecting_slot")).state = "AddBooking.selecting_slot"
      BY <2>2, <2>4, WrittenIs
    <2>6. Own(To(f, "AddBooking.selecting_slot"), "add.slots", fsm.day)
      BY <2>2, <2>5, AddBookingOwn
    <2>7. Agrees(f, fsm)
      BY <1>1, <2>2 DEF Agrees
    <2>8. fsm.day \in Shown
      BY TapBasis DEF Shown, Fsms
    <2> QED
      BY <1>1, <2>1, <2>2, <2>3, <2>6, <2>7, <2>8, TrackFits, RedrawOrSendInDialog,
            AddBookingNames DEF Shown
  <1>3. CASE LoseContext({Track(i)}, "master_add_booking")
    BY <1>3, TrackFits, ResetInDialog DEF LoseContext
  <1> QED
    BY <1>2, <1>3 DEF AddBackToSlots

LEMMA TakenOnlyKeeps ==
    ASSUME IInv, NEW i \in DOMAIN chat, TakenOnly(i)
    PROVE  Coherent(fsm', chat', consent)
  BY TakenChats, MarkedIs, CutShortIn DEF TakenOnly, Taken

LEMMA AddSlotTakenKeeps ==
    ASSUME IInv, NEW i \in DOMAIN chat, fsm.state = "AddBooking.confirm", AddSlotTaken(i)
    PROVE  Coherent(fsm', chat', consent)
  <1>1. fsm.state = "AddBooking.confirm"
    OBVIOUS
  <1>2. CASE RedrawOrSend(Track(i), i, Drop(fsm, {"confirm_in_progress"}),
        "AddBooking.selecting_slot", "add.slots", fsm.day)
    <2> DEFINE f == Drop(fsm, {"confirm_in_progress"})
    <2>1. RedrawOrSend(Track(i), i, f, "AddBooking.selecting_slot", "add.slots", fsm.day)
      BY <1>2
    <2>2. /\ f \in Fsms /\ f.state = fsm.state /\ f.keys = fsm.keys \ {"confirm_in_progress"}
          /\ f.day = fsm.day /\ f.picked = fsm.picked /\ f.who = fsm.who /\ f.halted = fsm.halted
      BY DropIs, <1>1, TapBasis DEF Fsms
    <2> HIDE DEF f
    <2>3. f.halted \/ Carries(f, "AddBooking.selecting_slot", consent)
      BY <1>1, <2>2, TapBasis, BookingReadiness DEF Data, Carries, FormStates
    <2>4. "AddBooking.selecting_slot" \in States
      BY AddBookingNames
    <2>5. /\ To(f, "AddBooking.selecting_slot").state = "AddBooking.selecting_slot"
          /\ To(f, "AddBooking.selecting_slot").day = f.day
          /\ To(f, "AddBooking.selecting_slot").picked = f.picked
          /\ To(f, "AddBooking.selecting_slot").who = f.who
          /\ Lost(To(f, "AddBooking.selecting_slot")).lost
          /\ Lost(To(f, "AddBooking.selecting_slot")).state = "AddBooking.selecting_slot"
      BY <2>2, <2>4, WrittenIs
    <2>6. Own(To(f, "AddBooking.selecting_slot"), "add.slots", fsm.day)
      BY <2>2, <2>5, AddBookingOwn
    <2>7. Agrees(f, fsm)
      BY <1>1, <2>2 DEF Agrees
    <2>8. fsm.day \in Shown
      BY TapBasis DEF Shown, Fsms
    <2> QED
      BY <1>1, <2>1, <2>2, <2>3, <2>6, <2>7, <2>8, TrackFits, RedrawOrSendInDialog,
            AddBookingNames DEF Shown
  <1>3. CASE RedrawOrSend(Track(i), i, Drop(fsm, {"confirm_in_progress"}),
        "AddBooking.selecting_date", "add.calendar", NoDay)
    <2> DEFINE f == Drop(fsm, {"confirm_in_progress"})
    <2>1. RedrawOrSend(Track(i), i, f, "AddBooking.selecting_date", "add.calendar", NoDay)
      BY <1>3
    <2>2. /\ f \in Fsms /\ f.state = fsm.state /\ f.keys = fsm.keys \ {"confirm_in_progress"}
          /\ f.day = fsm.day /\ f.picked = fsm.picked /\ f.who = fsm.who /\ f.halted = fsm.halted
      BY DropIs, <1>1, TapBasis DEF Fsms
    <2> HIDE DEF f
    <2>3. f.halted \/ Carries(f, "AddBooking.selecting_date", consent)
      BY <1>1, <2>2, TapBasis, BookingReadiness DEF Data, Carries, FormStates
    <2>4. "AddBooking.selecting_date" \in States
      BY AddBookingNames
    <2>5. /\ To(f, "AddBooking.selecting_date").state = "AddBooking.selecting_date"
          /\ To(f, "AddBooking.selecting_date").day = f.day
          /\ To(f, "AddBooking.selecting_date").picked = f.picked
          /\ To(f, "AddBooking.selecting_date").who = f.who
          /\ Lost(To(f, "AddBooking.selecting_date")).lost
          /\ Lost(To(f, "AddBooking.selecting_date")).state = "AddBooking.selecting_date"
      BY <2>2, <2>4, WrittenIs
    <2>6. Own(To(f, "AddBooking.selecting_date"), "add.calendar", NoDay)
      BY <2>2, <2>5, AddBookingOwn
    <2>7. Agrees(f, fsm)
      BY <1>1, <2>2 DEF Agrees
    <2> QED
      BY <1>1, <2>1, <2>2, <2>3, <2>6, <2>7, TrackFits, RedrawOrSendInDialog, AddBookingNames
            DEF Shown
  <1> QED
    BY <1>2, <1>3 DEF AddSlotTaken

LEMMA AddQuotaExceededKeeps ==
    ASSUME IInv, NEW i \in DOMAIN chat, AddQuotaExceeded(i)
    PROVE  Coherent(fsm', chat', consent)
  <1>1. \A c \in Taken(i) : c \in Chats /\ Decent(c) /\ i \in DOMAIN c
    BY TakenChats, FittingDecent DEF Taken
  <1>2. CASE \E c \in Taken(i) : chat' = Cleared(Drawn(c, i, "paywall", NoDay))
    BY <1>1, <1>2, ClearedDrawnEnds, OtherNames DEF AddQuotaExceeded
  <1>3. CASE chat' \in Fresh(Taken(i), "master_add_booking")
    BY <1>1, <1>3, FreshEnds DEF AddQuotaExceeded
  <1> QED
    BY <1>2, <1>3 DEF AddQuotaExceeded

LEMMA AddConfirmRefusedKeeps ==
    ASSUME IInv, NEW i \in DOMAIN chat, AddConfirmRefused(i)
    PROVE  Coherent(fsm', chat', consent)
  <1>1. fsm.state = "AddBooking.confirm"
    BY Tapped, AddBookingTaps DEF AddConfirmRefused
  <1>2. CASE Refuse(Track(i))
    BY <1>2, TrackFits, RefuseEnds
  <1>3. CASE TakenOnly(i)
    BY <1>3, TakenOnlyKeeps
  <1>4. CASE Reset(Taken(i), "master_add_booking")
    BY <1>4, TakenChats, ResetInDialog DEF Taken
  <1>5. CASE AddSlotTaken(i)
    BY <1>5, <1>1, AddSlotTakenKeeps
  <1>6. CASE AddQuotaExceeded(i)
    BY <1>6, AddQuotaExceededKeeps
  <1> QED
    BY <1>2, <1>3, <1>4, <1>5, <1>6 DEF AddConfirmRefused

LEMMA AddConfirmKeeps ==
    ASSUME IInv, NEW i \in DOMAIN chat, AddConfirm(i) \/ CancelAddBooking(i)
    PROVE  Coherent(fsm', chat', consent)
  <1>1. CASE Reset(Taken(i), "master_add_booking")
    BY <1>1, TakenChats, ResetInDialog DEF Taken
  <1>2. CASE TakenOnly(i)
    BY <1>2, TakenOnlyKeeps
  <1>3. CASE Reset({chat}, "master_add_booking")
    BY <1>3, TapBasis, ResetInDialog
  <1> QED
    BY <1>1, <1>2, <1>3 DEF AddConfirm, CancelAddBooking

-----------------------------------------------------------------------------
(* A booking is moved.                                                     *)

LEMMA StartRescheduleKeeps ==
    ASSUME IInv, NEW i \in DOMAIN chat, StartReschedule(i)
    PROVE  Coherent(fsm', chat', consent)
  <1>1. NoDay \in Shown
    BY DEF Shown
  <1>2. {"booking"} \in SUBSET Keys
    BY DEF Keys
  <1>3. \A c \in Fresh({chat}, "master_reschedule") : c \in Chats /\ Idle(c)
    BY TapBasis, FreshChats
  <1>4. CASE Refuse(chat)
    BY <1>4, TapBasis, RefuseEnds
  <1>5. CASE Refresh(chat, i, "paywall")
    BY <1>5, TapBasis, BareOwn, RescheduleNames, RefreshInDialog
  <1>6. CASE CutShort(fsm) /\ chat' \in {chat} \cup Swept({chat}, {"master_reschedule"})
    BY <1>6, TapBasis, AgreesItself, CutShortEnds, CutShortSwept
  <1>7. CASE \E c \in Fresh({chat}, "master_reschedule") : \E j \in Still(c, i) :
                 RedrawOrSend(c, j, Put(Blank, {"booking"}), "Reschedule.selecting_date",
                              "move.calendar", NoDay)
    <2> DEFINE f == Put(Blank, {"booking"})
    <2>1. PICK c \in Fresh({chat}, "master_reschedule") : \E j \in Still(c, i) :
                 RedrawOrSend(c, j, f, "Reschedule.selecting_date", "move.calendar", NoDay)
      BY <1>7
    <2>2. PICK j \in Still(c, i) :
                 RedrawOrSend(c, j, f, "Reschedule.selecting_date", "move.calendar", NoDay)
      BY <2>1
    <2>3. c \in Chats /\ Idle(c) /\ j \in DOMAIN c
      BY <1>3, <2>1, <2>2 DEF Still
    <2>4. /\ f \in Fsms /\ f.state = "none" /\ f.keys = {"booking"} /\ ~f.halted
      BY <1>2, BlankIs, PutIs
    <2> HIDE DEF f
    <2>5. Carries(f, "Reschedule.selecting_date", consent)
      BY <2>4, BookingReadiness DEF Carries, FormStates
    <2>6. To(f, "Reschedule.selecting_date").state = "Reschedule.selecting_date"
      BY <2>4, ToIs, RescheduleNames
    <2>7. Own(To(f, "Reschedule.selecting_date"), "move.calendar", NoDay)
      BY <2>6, RescheduleOwn
    <2> QED
      BY <1>1, <2>2, <2>3, <2>4, <2>5, <2>7, RedrawOrSendAnew, RescheduleNames
  <1> QED
    BY <1>4, <1>5, <1>6, <1>7 DEF StartReschedule

LEMMA TurnMoveCalendarKeeps ==
    ASSUME IInv, NEW i \in DOMAIN chat, TurnMoveCalendar(i)
    PROVE  Coherent(fsm', chat', consent)
  <1>1. fsm.state = "Reschedule.selecting_date"
    BY Tapped, RescheduleTaps DEF TurnMoveCalendar
  <1>2. CASE Refuse(chat)
    BY <1>2, TapBasis, RefuseEnds
  <1>3. CASE Refresh(chat, i, "move.calendar")
    BY <1>3, <1>1, TapBasis, RescheduleOwn, RescheduleNames, RefreshInDialog
  <1> QED
    BY <1>2, <1>3 DEF TurnMoveCalendar

LEMMA ShowMovePaywallKeeps ==
    ASSUME IInv, NEW i \in DOMAIN chat, ShowMovePaywall(i)
    PROVE  Coherent(fsm', chat', consent)
  <1>1. fsm.state = "Reschedule.selecting_date"
    BY Tapped, RescheduleTaps DEF ShowMovePaywall
  <1>2. CASE Refuse(chat)
    BY <1>2, TapBasis, RefuseEnds
  <1>3. CASE Refresh(chat, i, "move.paywall")
    BY <1>3, <1>1, TapBasis, RescheduleOwn, RescheduleNames, RefreshInDialog
  <1> QED
    BY <1>2, <1>3 DEF ShowMovePaywall

LEMMA PickMoveDayKeeps ==
    ASSUME IInv, NEW i \in DOMAIN chat, PickMoveDay(i)
    PROVE  Coherent(fsm', chat', consent)
  <1>1. fsm.state = "Reschedule.selecting_date"
    BY Tapped, RescheduleTaps DEF PickMoveDay
  <1>2. CASE Refuse(chat)
    BY <1>2, TapBasis, RefuseEnds
  <1>3. CASE Refresh(chat, i, "move.calendar")
    BY <1>3, <1>1, TapBasis, RescheduleOwn, RescheduleNames, RefreshInDialog
  <1>4. CASE chat' = Sent(chat, "move.calendar", NoDay) /\ UNCHANGED fsm
    BY <1>4, <1>1, TapBasis, RescheduleOwn, RescheduleNames, SentInDialog DEF Shown
  <1>5. CASE \E d \in Days : RedrawOrSend(chat, i, Listed(fsm, d), "Reschedule.selecting_slot",
        "move.slots", d)
    <2>1. PICK d \in Days : RedrawOrSend(chat, i, Listed(fsm, d), "Reschedule.selecting_slot",
          "move.slots", d)
      BY <1>5
    <2> DEFINE f == Listed(fsm, d)
    <2>2. RedrawOrSend(chat, i, f, "Reschedule.selecting_slot", "move.slots", d)
      BY <1>5, <2>1
    <2>3. /\ f \in Fsms /\ f.state = fsm.state /\ f.keys = fsm.keys
          /\ f.day = d /\ f.picked = fsm.picked /\ f.who = fsm.who /\ f.halted = fsm.halted
      BY <2>1, ListedIs, <1>1, TapBasis DEF Fsms
    <2> HIDE DEF f
    <2>4. f.halted \/ Carries(f, "Reschedule.selecting_slot", consent)
      BY <1>1, <2>3, TapBasis, BookingReadiness, ChatConstants DEF Data, Carries, FormStates
    <2>5. "Reschedule.selecting_slot" \in States
      BY RescheduleNames
    <2>6. /\ To(f, "Reschedule.selecting_slot").state = "Reschedule.selecting_slot"
          /\ To(f, "Reschedule.selecting_slot").day = f.day
          /\ To(f, "Reschedule.selecting_slot").picked = f.picked
          /\ To(f, "Reschedule.selecting_slot").who = f.who
          /\ Lost(To(f, "Reschedule.selecting_slot")).lost
          /\ Lost(To(f, "Reschedule.selecting_slot")).state = "Reschedule.selecting_slot"
      BY <2>3, <2>5, WrittenIs
    <2>7. Own(To(f, "Reschedule.selecting_slot"), "move.slots", d)
      BY <2>1, <2>3, <2>6, RescheduleOwn
    <2>8. Agrees(f, fsm)
      BY <1>1, <2>3 DEF Agrees
    <2>9. d \in Shown
      BY <2>1, TapBasis DEF Shown, Fsms
    <2> QED
      BY <1>1, <2>2, <2>3, <2>4, <2>7, <2>8, <2>9, TapBasis, RedrawOrSendInDialog,
            RescheduleNames DEF Shown
  <1> QED
    BY <1>2, <1>3, <1>4, <1>5 DEF PickMoveDay

LEMMA ReturnToScheduleKeeps ==
    ASSUME IInv, NEW i \in DOMAIN chat, NEW C,
           \A c \in C : c \in Chats /\ Fitting(fsm, c) /\ DOMAIN c = DOMAIN chat,
           ReturnToSchedule(C, i)
    PROVE  Coherent(fsm', chat', consent)
  <1>1. \A c \in C : c \in Chats /\ Decent(c) /\ i \in DOMAIN c
    BY FittingDecent
  <1>2. CASE \E c \in C : chat' = Cleared(Drawn(c, i, "schedule", NoDay))
    BY <1>1, <1>2, ClearedDrawnEnds, RescheduleNames DEF ReturnToSchedule
  <1>3. CASE chat' \in Fresh(C, "master_reschedule")
    BY <1>1, <1>3, FreshEnds DEF ReturnToSchedule
  <1> QED
    BY <1>2, <1>3 DEF ReturnToSchedule

LEMMA BackToCardKeeps ==
    ASSUME IInv, NEW i \in DOMAIN chat, BackToCard(i)
    PROVE  Coherent(fsm', chat', consent)
  <1>1. CASE Reset({chat}, "master_reschedule")
    BY <1>1, TapBasis, ResetInDialog
  <1>2. CASE ReturnToSchedule({chat}, i)
    BY <1>2, TapBasis, ReturnToScheduleKeeps
  <1> QED
    BY <1>1, <1>2 DEF BackToCard

LEMMA MoveBackToCalendarKeeps ==
    ASSUME IInv, NEW i \in DOMAIN chat, MoveBackToCalendar(i)
    PROVE  Coherent(fsm', chat', consent)
  <1>1. fsm.state = "Reschedule.selecting_slot"
    BY Tapped, RescheduleTaps DEF MoveBackToCalendar
  <1>2. CASE RedrawOrSend(chat, i, Unlisted(fsm), "Reschedule.selecting_date", "move.calendar",
        NoDay)
    <2> DEFINE f == Unlisted(fsm)
    <2>1. RedrawOrSend(chat, i, f, "Reschedule.selecting_date", "move.calendar", NoDay)
      BY <1>2
    <2>2. /\ f \in Fsms /\ f.state = fsm.state /\ f.keys = fsm.keys
          /\ f.day = NoDay /\ f.picked = NoDay /\ f.who = fsm.who /\ f.halted = fsm.halted
      BY UnlistedIs, <1>1, TapBasis DEF Fsms
    <2> HIDE DEF f
    <2>3. f.halted \/ Carries(f, "Reschedule.selecting_date", consent)
      BY <1>1, <2>2, TapBasis, BookingReadiness DEF Data, Carries, FormStates
    <2>4. "Reschedule.selecting_date" \in States
      BY RescheduleNames
    <2>5. /\ To(f, "Reschedule.selecting_date").state = "Reschedule.selecting_date"
          /\ To(f, "Reschedule.selecting_date").day = f.day
          /\ To(f, "Reschedule.selecting_date").picked = f.picked
          /\ To(f, "Reschedule.selecting_date").who = f.who
          /\ Lost(To(f, "Reschedule.selecting_date")).lost
          /\ Lost(To(f, "Reschedule.selecting_date")).state = "Reschedule.selecting_date"
      BY <2>2, <2>4, WrittenIs
    <2>6. Own(To(f, "Reschedule.selecting_date"), "move.calendar", NoDay)
      BY <2>2, <2>5, RescheduleOwn
    <2>7. Agrees(f, fsm)
      BY <1>1, <2>2 DEF Agrees
    <2> QED
      BY <1>1, <2>1, <2>2, <2>3, <2>6, <2>7, TapBasis, RedrawOrSendInDialog, RescheduleNames
            DEF Shown
  <1> QED
    BY <1>2 DEF MoveBackToCalendar

LEMMA MoveBackToSlotsKeeps ==
    ASSUME IInv, NEW i \in DOMAIN chat, MoveBackToSlots(i)
    PROVE  Coherent(fsm', chat', consent)
  <1>1. fsm.state = "Reschedule.confirm"
    BY Tapped, RescheduleTaps DEF MoveBackToSlots
  <1>2. CASE RedrawOrSend(chat, i, Unconfirmed, "Reschedule.selecting_slot", "move.slots", fsm.day)
    <2> DEFINE f == Unconfirmed
    <2>1. RedrawOrSend(chat, i, f, "Reschedule.selecting_slot", "move.slots", fsm.day)
      BY <1>2
    <2>2. /\ f \in Fsms /\ f.state = fsm.state /\ f.keys = fsm.keys \ {"confirm_in_progress"}
          /\ f.day = fsm.day /\ f.picked = NoDay /\ f.who = fsm.who /\ f.halted = fsm.halted
      BY UnconfirmedIs, <1>1, TapBasis DEF Fsms
    <2> HIDE DEF f
    <2>3. f.halted \/ Carries(f, "Reschedule.selecting_slot", consent)
      BY <1>1, <2>2, TapBasis, BookingReadiness DEF Data, Carries, FormStates
    <2>4. "Reschedule.selecting_slot" \in States
      BY RescheduleNames
    <2>5. /\ To(f, "Reschedule.selecting_slot").state = "Reschedule.selecting_slot"
          /\ To(f, "Reschedule.selecting_slot").day = f.day
          /\ To(f, "Reschedule.selecting_slot").picked = f.picked
          /\ To(f, "Reschedule.selecting_slot").who = f.who
          /\ Lost(To(f, "Reschedule.selecting_slot")).lost
          /\ Lost(To(f, "Reschedule.selecting_slot")).state = "Reschedule.selecting_slot"
      BY <2>2, <2>4, WrittenIs
    <2>6. Own(To(f, "Reschedule.selecting_slot"), "move.slots", fsm.day)
      BY <2>2, <2>5, RescheduleOwn
    <2>7. Agrees(f, fsm)
      BY <1>1, <2>2 DEF Agrees
    <2>8. fsm.day \in Shown
      BY TapBasis DEF Shown, Fsms
    <2> QED
      BY <1>1, <2>1, <2>2, <2>3, <2>6, <2>7, <2>8, TapBasis, RedrawOrSendInDialog,
            RescheduleNames DEF Shown
  <1>3. CASE LoseContext({chat}, "master_reschedule")
    BY <1>3, TapBasis, ResetInDialog DEF LoseContext
  <1> QED
    BY <1>2, <1>3 DEF MoveBackToSlots

LEMMA PickMoveSlotKeeps ==
    ASSUME IInv, NEW i \in DOMAIN chat, PickMoveSlot(i)
    PROVE  Coherent(fsm', chat', consent)
  <1>1. fsm.state = "Reschedule.selecting_slot"
    BY Tapped, RescheduleTaps DEF PickMoveSlot
  <1>2. CASE RedrawOrSend(chat, i, Picked(fsm, fsm.day), "Reschedule.confirm", "move.confirm",
        fsm.day)
    <2> DEFINE f == Picked(fsm, fsm.day)
    <2>1. RedrawOrSend(chat, i, f, "Reschedule.confirm", "move.confirm", fsm.day)
      BY <1>2
    <2>2. /\ f \in Fsms /\ f.state = fsm.state /\ f.keys = fsm.keys
          /\ f.day = fsm.day /\ f.picked = fsm.day /\ f.who = fsm.who /\ f.halted = fsm.halted
      BY PickedIs, <1>1, TapBasis DEF Fsms
    <2> HIDE DEF f
    <2>3. f.halted \/ Carries(f, "Reschedule.confirm", consent)
      BY <1>1, <2>2, TapBasis, BookingReadiness DEF Data, Carries, FormStates
    <2>4. "Reschedule.confirm" \in States
      BY RescheduleNames
    <2>5. /\ To(f, "Reschedule.confirm").state = "Reschedule.confirm"
          /\ To(f, "Reschedule.confirm").day = f.day
          /\ To(f, "Reschedule.confirm").picked = f.picked
          /\ To(f, "Reschedule.confirm").who = f.who
          /\ Lost(To(f, "Reschedule.confirm")).lost
          /\ Lost(To(f, "Reschedule.confirm")).state = "Reschedule.confirm"
      BY <2>2, <2>4, WrittenIs
    <2>6. Own(To(f, "Reschedule.confirm"), "move.confirm", fsm.day)
      BY <2>2, <2>5, ConfirmOwn
    <2>7. Agrees(f, fsm)
      BY <1>1, <2>2 DEF Agrees
    <2>8. fsm.day \in Shown
      BY TapBasis DEF Shown, Fsms
    <2> QED
      BY <1>1, <2>1, <2>2, <2>3, <2>6, <2>7, <2>8, TapBasis, RedrawOrSendInDialog,
            RescheduleNames DEF Shown
  <1>3. CASE LoseContext({chat}, "master_reschedule")
    BY <1>3, TapBasis, ResetInDialog DEF LoseContext
  <1> QED
    BY <1>2, <1>3 DEF PickMoveSlot

LEMMA ConfirmMoveRefusedKeeps ==
    ASSUME IInv, NEW i \in DOMAIN chat, ConfirmMoveRefused(i)
    PROVE  Coherent(fsm', chat', consent)
  <1>1. fsm.state = "Reschedule.confirm"
    BY Tapped, RescheduleTaps DEF ConfirmMoveRefused
  <1>2. CASE Refuse(chat)
    BY <1>2, TapBasis, RefuseEnds
  <1>3. CASE CutShort(Marked) /\ chat' \in {chat, Bare(chat, i)}
    BY <1>3, TakenChats, MarkedIs, CutShortIn
  <1>4. CASE LoseContext({chat, Bare(chat, i)}, "master_reschedule")
    BY <1>4, TakenChats, ResetInDialog DEF LoseContext
  <1>5. CASE RedrawOrSend(chat, i, Drop(fsm, {"confirm_in_progress"}),
        "Reschedule.selecting_date", "move.calendar", NoDay)
    <2> DEFINE f == Drop(fsm, {"confirm_in_progress"})
    <2>1. RedrawOrSend(chat, i, f, "Reschedule.selecting_date", "move.calendar", NoDay)
      BY <1>5
    <2>2. /\ f \in Fsms /\ f.state = fsm.state /\ f.keys = fsm.keys \ {"confirm_in_progress"}
          /\ f.day = fsm.day /\ f.picked = fsm.picked /\ f.who = fsm.who /\ f.halted = fsm.halted
      BY DropIs, <1>1, TapBasis DEF Fsms
    <2> HIDE DEF f
    <2>3. f.halted \/ Carries(f, "Reschedule.selecting_date", consent)
      BY <1>1, <2>2, TapBasis, BookingReadiness DEF Data, Carries, FormStates
    <2>4. "Reschedule.selecting_date" \in States
      BY RescheduleNames
    <2>5. /\ To(f, "Reschedule.selecting_date").state = "Reschedule.selecting_date"
          /\ To(f, "Reschedule.selecting_date").day = f.day
          /\ To(f, "Reschedule.selecting_date").picked = f.picked
          /\ To(f, "Reschedule.selecting_date").who = f.who
          /\ Lost(To(f, "Reschedule.selecting_date")).lost
          /\ Lost(To(f, "Reschedule.selecting_date")).state = "Reschedule.selecting_date"
      BY <2>2, <2>4, WrittenIs
    <2>6. Own(To(f, "Reschedule.selecting_date"), "move.calendar", NoDay)
      BY <2>2, <2>5, RescheduleOwn
    <2>7. Agrees(f, fsm)
      BY <1>1, <2>2 DEF Agrees
    <2> QED
      BY <1>1, <2>1, <2>2, <2>3, <2>6, <2>7, TapBasis, RedrawOrSendInDialog, RescheduleNames
            DEF Shown
  <1>6. CASE ReturnToSchedule({chat, Bare(chat, i)}, i)
    BY <1>6, TakenChats, ReturnToScheduleKeeps
  <1> QED
    BY <1>2, <1>3, <1>4, <1>5, <1>6 DEF ConfirmMoveRefused

LEMMA ConfirmMoveKeeps ==
    ASSUME IInv, NEW i \in DOMAIN chat, ConfirmMove(i)
    PROVE  Coherent(fsm', chat', consent)
  <1>1. CASE ReturnToSchedule({chat, Bare(chat, i)}, i)
    BY <1>1, TakenChats, ReturnToScheduleKeeps
  <1>2. CASE CutShort(Marked) /\ chat' \in {chat, Bare(chat, i)}
    BY <1>2, TakenChats, MarkedIs, CutShortIn
  <1> QED
    BY <1>1, <1>2 DEF ConfirmMove

-----------------------------------------------------------------------------
(* A master registers.                                                     *)

LEMMA StartMasterRegistrationKeeps ==
    ASSUME IInv, StartMasterRegistration
    PROVE  Coherent(fsm', chat', consent)
  <1> DEFINE C == Fresh({chat}, "master_registration")
  <1>1. \A c \in C : c \in Chats /\ Idle(c)
    BY TapBasis, FreshChats
  <1>2. {"token"} \in SUBSET Keys
    BY DEF Keys
  <1>3. Put(Blank, {"token"}) \in Fsms /\ Put(Blank, {"token"}).keys = {"token"}
    BY <1>2, BegunIs
  <1>4. /\ Ready(Put(Blank, {"token"}), "MasterRegistration.name")
        /\ Ready(Put(Blank, {"token"}), "MasterRegistration.consent")
    BY <1>3, ProfileReadiness
  <1>5. \/ Reset({chat}, "master_registration")
        \/ /\ consent
           /\ Send(C, Put(Blank, {"token"}), "MasterRegistration.name", "mreg.cancel", NoDay)
        \/ Send(C, Put(Blank, {"token"}), "MasterRegistration.consent", "mreg.consent", NoDay)
    BY DEF StartMasterRegistration
  <1> HIDE DEF C
  <1>6. CASE Reset({chat}, "master_registration")
    BY <1>6, TapBasis, ResetInDialog
  <1>7. CASE /\ consent
             /\ Send(C, Put(Blank, {"token"}), "MasterRegistration.name", "mreg.cancel", NoDay)
    <2>1. \A g : g.state = "MasterRegistration.name" => Own(g, "mreg.cancel", NoDay)
      BY MasterRegistrationOwn
    <2> QED
      BY <1>1, <1>2, <1>4, <1>7, <2>1, BeginKeeps, MasterRegistrationNames
  <1>8. CASE Send(C, Put(Blank, {"token"}), "MasterRegistration.consent", "mreg.consent", NoDay)
    <2>1. \A g : g.state = "MasterRegistration.consent" => Own(g, "mreg.consent", NoDay)
      BY MasterRegistrationOwn
    <2>2. "MasterRegistration.consent" \notin FormStates
      BY DEF FormStates
    <2> QED
      BY <1>1, <1>2, <1>4, <1>8, <2>1, <2>2, BeginKeeps, MasterRegistrationNames
  <1> QED
    BY <1>5, <1>6, <1>7, <1>8

LEMMA DeclineMasterKeeps ==
    ASSUME IInv, NEW i \in DOMAIN chat, On(i, "m:pd:disagree"),
           NEW c \in {Track(i), Bare(Track(i), i)},
           Redraw(c, i, fsm, "MasterRegistration.consent_declined", "mreg.declined", NoDay)
    PROVE  Coherent(fsm', chat', consent)
  <1> DEFINE state == "MasterRegistration.consent_declined"
  <1>1. fsm.state = "MasterRegistration.consent" /\ chat[i].kind = "mreg.consent"
    BY Tapped, MasterRegistrationTaps
  <1>2. c \in Chats /\ Fitting(fsm, c) /\ i \in DOMAIN c
    BY TakenChats
  <1>3. c[i].kind \in {"mreg.consent", "bare"}
    <2>1. Track(i) \in Chats /\ i \in DOMAIN Track(i) /\ Track(i)[i].kind = "mreg.consent"
      BY <1>1, TrackFits
    <2>a. Track(i)[i] \in Messages
      BY <2>1, ChatDomain
    <2>b. [Track(i)[i] EXCEPT !.kind = "bare"].kind = "bare"
      BY <2>a DEF Messages
    <2>2. Bare(Track(i), i)[i].kind = "bare"
      BY <2>1, <2>b, BareIs
    <2> QED
      BY <2>1, <2>2
  <1>4. fsm \in Fsms /\ (fsm.halted \/ Carries(fsm, state, consent))
    BY <1>1, TapBasis, ProfileReadiness DEF Data, Carries, FormStates
  <1>5. /\ To(fsm, state).state = state /\ Lost(To(fsm, state)).lost
        /\ Lost(To(fsm, state)).state = state
    BY <1>4, WrittenIs, MasterRegistrationNames
  <1>6. Own(To(fsm, state), "mreg.declined", NoDay)
    BY <1>5, MasterRegistrationOwn
  <1>7. Own(Lost(To(fsm, state)), c[i].kind, c[i].shows)
    BY <1>3, <1>5, RegistrationLost, BareOwn
  <1> QED
    BY <1>2, <1>4, <1>6, <1>7, SameAgrees, RedrawInDialog, MasterRegistrationNames DEF Shown

LEMMA MasterBackKeeps ==
    ASSUME IInv, NEW i \in DOMAIN chat, Redraw(Track(i), i, fsm, "MasterRegistration.consent",
           "mreg.consent", NoDay), On(i, "m:pd:back")
    PROVE  Coherent(fsm', chat', consent)
  <1>1. fsm.state = "MasterRegistration.consent_declined" /\ chat[i].kind = "mreg.declined"
    BY Tapped, MasterRegistrationTaps
  <1>2. CASE Redraw(Track(i), i, fsm, "MasterRegistration.consent", "mreg.consent", NoDay)
    <2>1. Redraw(Track(i), i, fsm, "MasterRegistration.consent", "mreg.consent", NoDay)
      BY <1>2
    <2>2. fsm \in Fsms
      BY TapBasis
    <2>3. fsm.halted \/ Carries(fsm, "MasterRegistration.consent", consent)
      BY <1>1, <2>2, TapBasis, ProfileReadiness DEF Data, Carries, FormStates
    <2>4. "MasterRegistration.consent" \in States
      BY MasterRegistrationNames
    <2>5. /\ To(fsm, "MasterRegistration.consent").state = "MasterRegistration.consent"
          /\ To(fsm, "MasterRegistration.consent").day = fsm.day
          /\ To(fsm, "MasterRegistration.consent").picked = fsm.picked
          /\ To(fsm, "MasterRegistration.consent").who = fsm.who
          /\ Lost(To(fsm, "MasterRegistration.consent")).lost
          /\ Lost(To(fsm, "MasterRegistration.consent")).state = "MasterRegistration.consent"
      BY <2>2, <2>4, WrittenIs
    <2>6. Own(To(fsm, "MasterRegistration.consent"), "mreg.consent", NoDay)
      BY <2>2, <2>5, MasterRegistrationOwn
    <2>7. Track(i)[i].kind = "mreg.declined"
      BY <1>1, TrackFits
    <2>8. Own(Lost(To(fsm, "MasterRegistration.consent")), Track(i)[i].kind, Track(i)[i].shows)
      BY <2>5, <2>7, RegistrationLost
    <2>9. Agrees(fsm, fsm)
      BY <1>1, <2>2 DEF Agrees
    <2> QED
      BY <1>1, <2>1, <2>2, <2>3, <2>6, <2>8, <2>9, TrackFits, RedrawInDialog,
            MasterRegistrationNames DEF Shown
  <1> QED
    BY <1>2

LEMMA MasterConsentKeeps ==
    ASSUME IInv, NEW i \in DOMAIN chat, MasterConsent(i)
    PROVE  Coherent(fsm', chat', consent)
  <1>1. CASE Refuse(Track(i))
    BY <1>1, TrackFits, RefuseEnds
  <1>2. CASE /\ On(i, "m:pd:disagree")
             /\ \E c \in {Track(i), Bare(Track(i), i)} :
                   Redraw(c, i, fsm, "MasterRegistration.consent_declined", "mreg.declined",
                          NoDay)
    BY <1>2, DeclineMasterKeeps
  <1>3. CASE /\ On(i, "m:pd:back")
             /\ Redraw(Track(i), i, fsm, "MasterRegistration.consent", "mreg.consent", NoDay)
    BY <1>3, MasterBackKeeps
  <1> QED
    BY <1>1, <1>2, <1>3 DEF MasterConsent

LEMMA AgreeMasterKeeps ==
    ASSUME IInv, NEW i \in DOMAIN chat, AgreeMaster(i)
    PROVE  Coherent(fsm', chat', TRUE)
  <1>1. fsm.state = "MasterRegistration.consent" /\ chat[i].kind = "mreg.consent"
    BY Tapped, MasterRegistrationTaps DEF AgreeMaster
  <1>2. CASE Redraw(Track(i), i, fsm, "MasterRegistration.name", "mreg.cancel", NoDay)
    <2>1. Redraw(Track(i), i, fsm, "MasterRegistration.name", "mreg.cancel", NoDay)
      BY <1>2
    <2>2. fsm \in Fsms
      BY TapBasis
    <2>3. fsm.halted \/ Carries(fsm, "MasterRegistration.name", TRUE)
      BY <1>1, <2>2, TapBasis, ProfileReadiness DEF Data, Carries, FormStates
    <2>4. "MasterRegistration.name" \in States
      BY MasterRegistrationNames
    <2>5. /\ To(fsm, "MasterRegistration.name").state = "MasterRegistration.name"
          /\ To(fsm, "MasterRegistration.name").day = fsm.day
          /\ To(fsm, "MasterRegistration.name").picked = fsm.picked
          /\ To(fsm, "MasterRegistration.name").who = fsm.who
          /\ Lost(To(fsm, "MasterRegistration.name")).lost
          /\ Lost(To(fsm, "MasterRegistration.name")).state = "MasterRegistration.name"
      BY <2>2, <2>4, WrittenIs
    <2>6. Own(To(fsm, "MasterRegistration.name"), "mreg.cancel", NoDay)
      BY <2>2, <2>5, MasterRegistrationOwn
    <2>7. Track(i)[i].kind = "mreg.consent"
      BY <1>1, TrackFits
    <2>8. Own(Lost(To(fsm, "MasterRegistration.name")), Track(i)[i].kind, Track(i)[i].shows)
      BY <2>5, <2>7, RegistrationLost
    <2>9. Agrees(fsm, fsm)
      BY <1>1, <2>2 DEF Agrees
    <2> QED
      BY <1>1, <2>1, <2>2, <2>3, <2>6, <2>8, <2>9, TrackFits, RedrawInDialog,
            MasterRegistrationNames DEF Shown
  <1> QED
    BY <1>2 DEF AgreeMaster

LEMMA AnswerMasterKeeps ==
    ASSUME IInv, AnswerMaster
    PROVE  Coherent(fsm', chat', consent)
  <1>1. Len(MasterForm) - 1 = 5 /\ 1..5 = {1, 2, 3, 4, 5}
    BY DEF MasterForm
  <1>2. /\ MasterForm[1].state = "MasterRegistration.name" /\ MasterForm[1].key = "name"
        /\ MasterForm[2].state = "MasterRegistration.phone" /\ MasterForm[2].key = "phone"
        /\ MasterForm[3].state = "MasterRegistration.work_days" /\ MasterForm[3].key = "work_days"
        /\ MasterForm[4].state = "MasterRegistration.work_time" /\ MasterForm[4].key = "work_time"
        /\ MasterForm[5].state = "MasterRegistration.slot_size"
        /\ MasterForm[5].key = "slot_size_min"
        /\ MasterForm[6].state = "MasterRegistration.confirm"
    BY DEF MasterForm
  <1>3. Len(MasterForm) = 6
    BY DEF MasterForm
  <1>4. PICK n \in 1..5 :
            /\ fsm.state = MasterForm[n].state
            /\ \/ Send({chat}, fsm, fsm.state, "mreg.cancel", NoDay)
               \/ Send({chat}, Put(fsm, {MasterForm[n].key}), MasterForm[n + 1].state,
                       IF n + 1 = 6 THEN "mreg.confirm" ELSE "mreg.cancel", NoDay)
    BY <1>1, <1>3 DEF AnswerMaster, Answer
  <1>5. fsm \in Fsms
    BY TapBasis
  <1>6. CASE n = 1
    <2>1. /\ fsm.state = "MasterRegistration.name"
          /\ \/ Send({chat}, fsm, fsm.state, "mreg.cancel", NoDay)
             \/ Send({chat}, Put(fsm, {"name"}), "MasterRegistration.phone", "mreg.cancel", NoDay)
      BY <1>2, <1>4, <1>6
    <2>2. "name" \in Keys /\ {"name"} \in SUBSET Keys
      BY DEF Keys
    <2>3. /\ Put(fsm, {"name"}) \in Fsms
          /\ Put(fsm, {"name"}).keys = fsm.keys \cup {"name"}
      BY <1>5, <2>2, PutIs
    <2>4. Ready(fsm, "MasterRegistration.name") => Ready(Put(fsm, {"name"}),
          "MasterRegistration.phone")
      BY <1>5, <2>3, ProfileReadiness
    <2>5. /\ \A g : g.state = "MasterRegistration.name" => Own(g, "mreg.cancel", NoDay)
          /\ \A g : g.state = "MasterRegistration.phone" => Own(g, "mreg.cancel", NoDay)
      BY MasterRegistrationOwn
    <2>6. "MasterRegistration.phone" \in FormStates => "MasterRegistration.name" \in FormStates
      BY DEF FormStates
    <2> QED
      BY <2>1, <2>2, <2>4, <2>5, <2>6, AnswerKeeps, MasterRegistrationNames
  <1>7. CASE n = 2
    <2>1. /\ fsm.state = "MasterRegistration.phone"
          /\ \/ Send({chat}, fsm, fsm.state, "mreg.cancel", NoDay)
             \/ Send({chat}, Put(fsm, {"phone"}), "MasterRegistration.work_days", "mreg.cancel",
                    NoDay)
      BY <1>2, <1>4, <1>7
    <2>2. "phone" \in Keys /\ {"phone"} \in SUBSET Keys
      BY DEF Keys
    <2>3. /\ Put(fsm, {"phone"}) \in Fsms
          /\ Put(fsm, {"phone"}).keys = fsm.keys \cup {"phone"}
      BY <1>5, <2>2, PutIs
    <2>4. Ready(fsm, "MasterRegistration.phone") => Ready(Put(fsm, {"phone"}),
          "MasterRegistration.work_days")
      BY <1>5, <2>3, ProfileReadiness
    <2>5. /\ \A g : g.state = "MasterRegistration.phone" => Own(g, "mreg.cancel", NoDay)
          /\ \A g : g.state = "MasterRegistration.work_days" => Own(g, "mreg.cancel", NoDay)
      BY MasterRegistrationOwn
    <2>6. "MasterRegistration.work_days" \in FormStates => "MasterRegistration.phone" \in FormStates
      BY DEF FormStates
    <2> QED
      BY <2>1, <2>2, <2>4, <2>5, <2>6, AnswerKeeps, MasterRegistrationNames
  <1>8. CASE n = 3
    <2>1. /\ fsm.state = "MasterRegistration.work_days"
          /\ \/ Send({chat}, fsm, fsm.state, "mreg.cancel", NoDay)
             \/ Send({chat}, Put(fsm, {"work_days"}), "MasterRegistration.work_time",
                    "mreg.cancel", NoDay)
      BY <1>2, <1>4, <1>8
    <2>2. "work_days" \in Keys /\ {"work_days"} \in SUBSET Keys
      BY DEF Keys
    <2>3. /\ Put(fsm, {"work_days"}) \in Fsms
          /\ Put(fsm, {"work_days"}).keys = fsm.keys \cup {"work_days"}
      BY <1>5, <2>2, PutIs
    <2>4. Ready(fsm, "MasterRegistration.work_days") => Ready(Put(fsm, {"work_days"}),
          "MasterRegistration.work_time")
      BY <1>5, <2>3, ProfileReadiness
    <2>5. /\ \A g : g.state = "MasterRegistration.work_days" => Own(g, "mreg.cancel", NoDay)
          /\ \A g : g.state = "MasterRegistration.work_time" => Own(g, "mreg.cancel", NoDay)
      BY MasterRegistrationOwn
    <2>6. "MasterRegistration.work_time" \in FormStates => "MasterRegistration.work_days" \in FormStates
      BY DEF FormStates
    <2> QED
      BY <2>1, <2>2, <2>4, <2>5, <2>6, AnswerKeeps, MasterRegistrationNames
  <1>9. CASE n = 4
    <2>1. /\ fsm.state = "MasterRegistration.work_time"
          /\ \/ Send({chat}, fsm, fsm.state, "mreg.cancel", NoDay)
             \/ Send({chat}, Put(fsm, {"work_time"}), "MasterRegistration.slot_size",
                    "mreg.cancel", NoDay)
      BY <1>2, <1>4, <1>9
    <2>2. "work_time" \in Keys /\ {"work_time"} \in SUBSET Keys
      BY DEF Keys
    <2>3. /\ Put(fsm, {"work_time"}) \in Fsms
          /\ Put(fsm, {"work_time"}).keys = fsm.keys \cup {"work_time"}
      BY <1>5, <2>2, PutIs
    <2>4. Ready(fsm, "MasterRegistration.work_time") => Ready(Put(fsm, {"work_time"}),
          "MasterRegistration.slot_size")
      BY <1>5, <2>3, ProfileReadiness
    <2>5. /\ \A g : g.state = "MasterRegistration.work_time" => Own(g, "mreg.cancel", NoDay)
          /\ \A g : g.state = "MasterRegistration.slot_size" => Own(g, "mreg.cancel", NoDay)
      BY MasterRegistrationOwn
    <2>6. "MasterRegistration.slot_size" \in FormStates => "MasterRegistration.work_time" \in FormStates
      BY DEF FormStates
    <2> QED
      BY <2>1, <2>2, <2>4, <2>5, <2>6, AnswerKeeps, MasterRegistrationNames
  <1>10. CASE n = 5
    <2>1. /\ fsm.state = "MasterRegistration.slot_size"
          /\ \/ Send({chat}, fsm, fsm.state, "mreg.cancel", NoDay)
             \/ Send({chat}, Put(fsm, {"slot_size_min"}), "MasterRegistration.confirm",
                    "mreg.confirm", NoDay)
      BY <1>2, <1>4, <1>10
    <2>2. "slot_size_min" \in Keys /\ {"slot_size_min"} \in SUBSET Keys
      BY DEF Keys
    <2>3. /\ Put(fsm, {"slot_size_min"}) \in Fsms
          /\ Put(fsm, {"slot_size_min"}).keys = fsm.keys \cup {"slot_size_min"}
      BY <1>5, <2>2, PutIs
    <2>4. Ready(fsm, "MasterRegistration.slot_size") => Ready(Put(fsm, {"slot_size_min"}),
          "MasterRegistration.confirm")
      BY <1>5, <2>3, ProfileReadiness
    <2>5. /\ \A g : g.state = "MasterRegistration.slot_size" => Own(g, "mreg.cancel", NoDay)
          /\ \A g : g.state = "MasterRegistration.confirm" => Own(g, "mreg.confirm", NoDay)
      BY MasterRegistrationOwn
    <2>6. "MasterRegistration.confirm" \in FormStates => "MasterRegistration.slot_size" \in FormStates
      BY DEF FormStates
    <2> QED
      BY <2>1, <2>2, <2>4, <2>5, <2>6, AnswerKeeps, MasterRegistrationNames
  <1> QED
    BY <1>1, <1>4, <1>6, <1>7, <1>8, <1>9, <1>10

LEMMA ConfirmMasterKeeps ==
    ASSUME IInv, NEW i \in DOMAIN chat, ConfirmMaster(i)
    PROVE  Coherent(fsm', chat', consent)
  <1> DEFINE C == {Track(i), Bare(Track(i), i)}
  <1>1. \A c \in C : c \in Chats /\ Fitting(fsm, c) /\ Decent(c)
    BY TakenChats, FittingDecent
  <1>2. Put(fsm, {"confirm_in_progress"}) = Marked
    BY DEF Marked
  <1>3. Marked \in Fsms /\ Agrees(Marked, fsm)
    BY MarkedIs
  <1>4. \/ Refuse(Track(i))
        \/ CutShort(Marked) /\ chat' \in C
        \/ CutShort(Marked) /\ chat' \in Swept(C, {"master_registration"})
        \/ fsm' = Blank /\ chat' \in Fresh(C, "master_registration")
    BY <1>2 DEF ConfirmMaster
  <1> HIDE DEF C
  <1>5. CASE Refuse(Track(i))
    BY <1>5, TrackFits, RefuseEnds
  <1>6. CASE CutShort(Marked) /\ chat' \in C
    BY <1>1, <1>3, <1>6, CutShortIn
  <1>7. CASE CutShort(Marked) /\ chat' \in Swept(C, {"master_registration"})
    BY <1>1, <1>3, <1>7, SweptIn
  <1>8. CASE fsm' = Blank /\ chat' \in Fresh(C, "master_registration")
    BY <1>1, <1>8, FreshEnds
  <1> QED
    BY <1>4, <1>5, <1>6, <1>7, <1>8

LEMMA RestartMasterKeeps ==
    ASSUME IInv, NEW i \in DOMAIN chat, RestartMaster(i)
    PROVE  Coherent(fsm', chat', consent)
  <1>1. CASE Reset({chat}, "master_registration")
    BY <1>1, TapBasis, ResetInDialog
  <1>2. CASE Send(Fresh({chat}, "master_registration"), Put(Blank, {"token"}),
                  "MasterRegistration.consent", "mreg.consent", NoDay)
    <2>1. \A c \in Fresh({chat}, "master_registration") : c \in Chats /\ Idle(c)
      BY TapBasis, FreshChats
    <2>2. {"token"} \in SUBSET Keys
      BY DEF Keys
    <2>3. Put(Blank, {"token"}) \in Fsms /\ Put(Blank, {"token"}).keys = {"token"}
      BY <2>2, BegunIs
    <2>4. Ready(Put(Blank, {"token"}), "MasterRegistration.consent")
      BY <2>3, ProfileReadiness
    <2>5. \A g : g.state = "MasterRegistration.consent" => Own(g, "mreg.consent", NoDay)
      BY MasterRegistrationOwn
    <2>6. "MasterRegistration.consent" \notin FormStates
      BY DEF FormStates
    <2> QED
      BY <1>2, <2>1, <2>2, <2>4, <2>5, <2>6, BeginKeeps, MasterRegistrationNames
  <1> QED
    BY <1>1, <1>2 DEF RestartMaster

LEMMA CancelMasterKeeps ==
    ASSUME IInv, NEW i \in DOMAIN chat, CancelMaster(i)
    PROVE  Coherent(fsm', chat', consent)
  BY TapBasis, ResetInDialog DEF CancelMaster

-----------------------------------------------------------------------------
(* A client accepts an invite.                                             *)

LEMMA StartClientRegistrationKeeps ==
    ASSUME IInv, StartClientRegistration
    PROVE  Coherent(fsm', chat', consent)
  <1> DEFINE C == Fresh({chat}, "client_registration")
  <1>1. \A c \in C : c \in Chats /\ Idle(c)
    BY TapBasis, FreshChats
  <1>2. {"invite_token"} \in SUBSET Keys /\ {"invite_token", "invite_data"} \in SUBSET Keys
    BY DEF Keys
  <1>3. /\ Put(Blank, {"invite_token"}) \in Fsms
        /\ Put(Blank, {"invite_token"}).keys = {"invite_token"}
        /\ Put(Blank, {"invite_token", "invite_data"}) \in Fsms
        /\ Put(Blank, {"invite_token", "invite_data"}).keys = {"invite_token", "invite_data"}
    BY <1>2, BegunIs
  <1>4. /\ Ready(Put(Blank, {"invite_token"}), "ClientRegistration.consent")
        /\ Ready(Put(Blank, {"invite_token", "invite_data"}), "ClientRegistration.name")
    BY <1>3, ProfileReadiness
  <1>5. \/ Reset({chat}, "client_registration")
        \/ Send(C, Put(Blank, {"invite_token"}), "ClientRegistration.consent", "creg.consent",
                NoDay)
        \/ /\ consent
           /\ Send(C, Put(Blank, {"invite_token", "invite_data"}), "ClientRegistration.name",
                   "creg.cancel", NoDay)
        \/ Reset(C, "client_registration")
    BY DEF StartClientRegistration
  <1> HIDE DEF C
  <1>6. CASE Reset({chat}, "client_registration")
    BY <1>6, TapBasis, ResetInDialog
  <1>7. CASE Send(C, Put(Blank, {"invite_token"}), "ClientRegistration.consent",
                  "creg.consent", NoDay)
    <2>1. \A g : g.state = "ClientRegistration.consent" => Own(g, "creg.consent", NoDay)
      BY ConsentOwn
    <2>2. "ClientRegistration.consent" \notin FormStates
      BY DEF FormStates
    <2> QED
      BY <1>1, <1>2, <1>4, <1>7, <2>1, <2>2, BeginKeeps, ClientRegistrationNames
  <1>8. CASE /\ consent
             /\ Send(C, Put(Blank, {"invite_token", "invite_data"}), "ClientRegistration.name",
                     "creg.cancel", NoDay)
    <2>1. \A g : g.state = "ClientRegistration.name" => Own(g, "creg.cancel", NoDay)
      BY ClientRegistrationOwn
    <2> QED
      BY <1>1, <1>2, <1>4, <1>8, <2>1, BeginKeeps, ClientRegistrationNames
  <1>9. CASE Reset(C, "client_registration")
    BY <1>1, <1>9, ResetAnew
  <1> QED
    BY <1>5, <1>6, <1>7, <1>8, <1>9

LEMMA DeclineClientKeeps ==
    ASSUME IInv, NEW i \in DOMAIN chat, Redraw(Track(i), i, fsm,
           "ClientRegistration.consent_declined", "creg.declined", NoDay), On(i, "c:pd:disagree")
    PROVE  Coherent(fsm', chat', consent)
  <1>1. fsm.state = "ClientRegistration.consent" /\ chat[i].kind = "creg.consent"
    BY Tapped, ClientRegistrationTaps
  <1>2. CASE Redraw(Track(i), i, fsm, "ClientRegistration.consent_declined", "creg.declined", NoDay)
    <2>1. Redraw(Track(i), i, fsm, "ClientRegistration.consent_declined", "creg.declined", NoDay)
      BY <1>2
    <2>2. fsm \in Fsms
      BY TapBasis
    <2>3. fsm.halted \/ Carries(fsm, "ClientRegistration.consent_declined", consent)
      BY <1>1, <2>2, TapBasis, ProfileReadiness DEF Data, Carries, FormStates
    <2>4. "ClientRegistration.consent_declined" \in States
      BY ClientRegistrationNames
    <2>5. /\ To(fsm, "ClientRegistration.consent_declined").state = "ClientRegistration.consent_declined" /\ To(fsm, "ClientRegistration.consent_declined").day = fsm.day
          /\ To(fsm, "ClientRegistration.consent_declined").picked = fsm.picked
          /\ To(fsm, "ClientRegistration.consent_declined").who = fsm.who
          /\ Lost(To(fsm, "ClientRegistration.consent_declined")).lost
          /\ Lost(To(fsm,
                 "ClientRegistration.consent_declined")).state = "ClientRegistration.consent_declined"
      BY <2>2, <2>4, WrittenIs
    <2>6. Own(To(fsm, "ClientRegistration.consent_declined"), "creg.declined", NoDay)
      BY <2>2, <2>5, ConsentOwn
    <2>7. Track(i)[i].kind = "creg.consent"
      BY <1>1, TrackFits
    <2>8. Own(Lost(To(fsm, "ClientRegistration.consent_declined")), Track(i)[i].kind,
          Track(i)[i].shows)
      BY <2>5, <2>7, RegistrationLost
    <2>9. Agrees(fsm, fsm)
      BY <1>1, <2>2 DEF Agrees
    <2> QED
      BY <1>1, <2>1, <2>2, <2>3, <2>6, <2>8, <2>9, TrackFits, RedrawInDialog,
            ClientRegistrationNames DEF Shown
  <1> QED
    BY <1>2

LEMMA ClientBackKeeps ==
    ASSUME IInv, NEW i \in DOMAIN chat, Redraw(Track(i), i, fsm, "ClientRegistration.consent",
           "creg.consent", NoDay), On(i, "c:pd:back")
    PROVE  Coherent(fsm', chat', consent)
  <1>1. fsm.state = "ClientRegistration.consent_declined" /\ chat[i].kind = "creg.declined"
    BY Tapped, ClientRegistrationTaps
  <1>2. CASE Redraw(Track(i), i, fsm, "ClientRegistration.consent", "creg.consent", NoDay)
    <2>1. Redraw(Track(i), i, fsm, "ClientRegistration.consent", "creg.consent", NoDay)
      BY <1>2
    <2>2. fsm \in Fsms
      BY TapBasis
    <2>3. fsm.halted \/ Carries(fsm, "ClientRegistration.consent", consent)
      BY <1>1, <2>2, TapBasis, ProfileReadiness DEF Data, Carries, FormStates
    <2>4. "ClientRegistration.consent" \in States
      BY ClientRegistrationNames
    <2>5. /\ To(fsm, "ClientRegistration.consent").state = "ClientRegistration.consent"
          /\ To(fsm, "ClientRegistration.consent").day = fsm.day
          /\ To(fsm, "ClientRegistration.consent").picked = fsm.picked
          /\ To(fsm, "ClientRegistration.consent").who = fsm.who
          /\ Lost(To(fsm, "ClientRegistration.consent")).lost
          /\ Lost(To(fsm, "ClientRegistration.consent")).state = "ClientRegistration.consent"
      BY <2>2, <2>4, WrittenIs
    <2>6. Own(To(fsm, "ClientRegistration.consent"), "creg.consent", NoDay)
      BY <2>2, <2>5, ConsentOwn
    <2>7. Track(i)[i].kind = "creg.declined"
      BY <1>1, TrackFits
    <2>8. Own(Lost(To(fsm, "ClientRegistration.consent")), Track(i)[i].kind, Track(i)[i].shows)
      BY <2>5, <2>7, RegistrationLost
    <2>9. Agrees(fsm, fsm)
      BY <1>1, <2>2 DEF Agrees
    <2> QED
      BY <1>1, <2>1, <2>2, <2>3, <2>6, <2>8, <2>9, TrackFits, RedrawInDialog,
            ClientRegistrationNames DEF Shown
  <1> QED
    BY <1>2

LEMMA ClientConsentKeeps ==
    ASSUME IInv, NEW i \in DOMAIN chat, ClientConsent(i)
    PROVE  Coherent(fsm', chat', consent)
  <1>1. CASE Refuse(Track(i))
    BY <1>1, TrackFits, RefuseEnds
  <1>2. CASE /\ On(i, "c:pd:disagree")
             /\ Redraw(Track(i), i, fsm, "ClientRegistration.consent_declined", "creg.declined",
                    NoDay)
    BY <1>2, DeclineClientKeeps
  <1>3. CASE /\ On(i, "c:pd:back")
             /\ Redraw(Track(i), i, fsm, "ClientRegistration.consent", "creg.consent", NoDay)
    BY <1>3, ClientBackKeeps
  <1> QED
    BY <1>1, <1>2, <1>3 DEF ClientConsent

LEMMA AgreedClientKeeps ==
    ASSUME IInv, NEW i \in DOMAIN chat, "invite_token" \in fsm.keys,
           Redraw(Track(i), i, Put(fsm, {"invite_data"}), "ClientRegistration.name", "creg.cancel",
                  NoDay), On(i, "c:pd:agree")
    PROVE  Coherent(fsm', chat', TRUE)
  <1>1. fsm.state = "ClientRegistration.consent" /\ chat[i].kind = "creg.consent"
    BY Tapped, ClientRegistrationTaps
  <1>2. {"invite_data"} \in SUBSET Keys
    BY DEF Keys
  <1>3. CASE Redraw(Track(i), i, Put(fsm, {"invite_data"}), "ClientRegistration.name",
        "creg.cancel", NoDay)
    <2> DEFINE f == Put(fsm, {"invite_data"})
    <2>1. Redraw(Track(i), i, f, "ClientRegistration.name", "creg.cancel", NoDay)
      BY <1>3
    <2>2. /\ f \in Fsms /\ f.state = fsm.state /\ f.keys = fsm.keys \cup {"invite_data"}
          /\ f.day = fsm.day /\ f.picked = fsm.picked /\ f.who = fsm.who /\ f.halted = fsm.halted
      BY PutIs, <1>1, <1>2, TapBasis DEF Fsms
    <2> HIDE DEF f
    <2>3. f.halted \/ Carries(f, "ClientRegistration.name", TRUE)
      BY <1>1, <1>2, <2>2, TapBasis, ProfileReadiness DEF Data, Carries, FormStates
    <2>4. "ClientRegistration.name" \in States
      BY ClientRegistrationNames
    <2>5. /\ To(f, "ClientRegistration.name").state = "ClientRegistration.name"
          /\ To(f, "ClientRegistration.name").day = f.day
          /\ To(f, "ClientRegistration.name").picked = f.picked
          /\ To(f, "ClientRegistration.name").who = f.who
          /\ Lost(To(f, "ClientRegistration.name")).lost
          /\ Lost(To(f, "ClientRegistration.name")).state = "ClientRegistration.name"
      BY <2>2, <2>4, WrittenIs
    <2>6. Own(To(f, "ClientRegistration.name"), "creg.cancel", NoDay)
      BY <2>2, <2>5, ClientRegistrationOwn
    <2>7. Track(i)[i].kind = "creg.consent"
      BY <1>1, <1>2, TrackFits
    <2>8. Own(Lost(To(f, "ClientRegistration.name")), Track(i)[i].kind, Track(i)[i].shows)
      BY <2>5, <2>7, RegistrationLost
    <2>9. Agrees(f, fsm)
      BY <1>1, <1>2, <2>2 DEF Agrees
    <2> QED
      BY <1>1, <1>2, <2>1, <2>2, <2>3, <2>6, <2>8, <2>9, TrackFits, RedrawInDialog,
            ClientRegistrationNames DEF Shown
  <1> QED
    BY <1>3

LEMMA AgreeClientKeeps ==
    ASSUME IInv, NEW i \in DOMAIN chat, AgreeClient(i)
    PROVE  Coherent(fsm', chat', consent')
  <1>1. On(i, "c:pd:agree")
    BY DEF AgreeClient
  <1>2. \A c \in {Track(i)} : c \in Chats /\ Fitting(fsm, c)
    BY TrackFits
  <1>3. CASE LoseContext({Track(i)}, "client_registration") /\ UNCHANGED <<registered, consent>>
    <2>1. Coherent(fsm', chat', consent)
      BY <1>2, <1>3, ResetInDialog DEF LoseContext
    <2> QED
      BY <1>3, <2>1
  <1>4. CASE CutShort(fsm) /\ chat' = Track(i) /\ UNCHANGED <<registered, consent>>
    <2>1. Coherent(fsm', chat', consent)
      BY <1>2, <1>4, AgreesItself, TapBasis, CutShortEnds
    <2> QED
      BY <1>4, <2>1
  <1>5. CASE consent' = TRUE /\ Reset({Track(i)}, "client_registration")
    <2>1. Coherent(fsm', chat', TRUE)
      BY <1>2, <1>5, ResetInDialog
    <2> QED
      BY <1>5, <2>1
  <1>6. CASE /\ "invite_token" \in fsm.keys /\ consent' = TRUE
             /\ Redraw(Track(i), i, Put(fsm, {"invite_data"}), "ClientRegistration.name",
                       "creg.cancel", NoDay)
    <2>1. Coherent(fsm', chat', TRUE)
      BY <1>1, <1>6, AgreedClientKeeps
    <2> QED
      BY <1>6, <2>1
  <1> QED
    BY <1>3, <1>4, <1>5, <1>6 DEF AgreeClient

LEMMA AnswerClientKeeps ==
    ASSUME IInv, AnswerClient
    PROVE  Coherent(fsm', chat', consent)
  <1>1. Len(ClientForm) - 1 = 2 /\ 1..2 = {1, 2}
    BY DEF ClientForm
  <1>2. /\ ClientForm[1].state = "ClientRegistration.name" /\ ClientForm[1].key = "name"
        /\ ClientForm[2].state = "ClientRegistration.phone" /\ ClientForm[2].key = "phone"
        /\ ClientForm[3].state = "ClientRegistration.confirm"
    BY DEF ClientForm
  <1>3. Len(ClientForm) = 3
    BY DEF ClientForm
  <1>4. PICK n \in 1..2 :
            /\ fsm.state = ClientForm[n].state
            /\ \/ Send({chat}, fsm, fsm.state, "creg.cancel", NoDay)
               \/ Send({chat}, Put(fsm, {ClientForm[n].key}), ClientForm[n + 1].state,
                       IF n + 1 = 3 THEN "creg.confirm" ELSE "creg.cancel", NoDay)
    BY <1>1, <1>3 DEF AnswerClient, Answer
  <1>5. fsm \in Fsms
    BY TapBasis
  <1>6. CASE n = 1
    <2>1. /\ fsm.state = "ClientRegistration.name"
          /\ \/ Send({chat}, fsm, fsm.state, "creg.cancel", NoDay)
             \/ Send({chat}, Put(fsm, {"name"}), "ClientRegistration.phone", "creg.cancel", NoDay)
      BY <1>2, <1>4, <1>6
    <2>2. "name" \in Keys /\ {"name"} \in SUBSET Keys
      BY DEF Keys
    <2>3. /\ Put(fsm, {"name"}) \in Fsms
          /\ Put(fsm, {"name"}).keys = fsm.keys \cup {"name"}
      BY <1>5, <2>2, PutIs
    <2>4. Ready(fsm, "ClientRegistration.name") => Ready(Put(fsm, {"name"}),
          "ClientRegistration.phone")
      BY <1>5, <2>3, ProfileReadiness
    <2>5. /\ \A g : g.state = "ClientRegistration.name" => Own(g, "creg.cancel", NoDay)
          /\ \A g : g.state = "ClientRegistration.phone" => Own(g, "creg.cancel", NoDay)
      BY ClientRegistrationOwn
    <2>6. "ClientRegistration.phone" \in FormStates => "ClientRegistration.name" \in FormStates
      BY DEF FormStates
    <2> QED
      BY <2>1, <2>2, <2>4, <2>5, <2>6, AnswerKeeps, ClientRegistrationNames
  <1>7. CASE n = 2
    <2>1. /\ fsm.state = "ClientRegistration.phone"
          /\ \/ Send({chat}, fsm, fsm.state, "creg.cancel", NoDay)
             \/ Send({chat}, Put(fsm, {"phone"}), "ClientRegistration.confirm", "creg.confirm",
                    NoDay)
      BY <1>2, <1>4, <1>7
    <2>2. "phone" \in Keys /\ {"phone"} \in SUBSET Keys
      BY DEF Keys
    <2>3. /\ Put(fsm, {"phone"}) \in Fsms
          /\ Put(fsm, {"phone"}).keys = fsm.keys \cup {"phone"}
      BY <1>5, <2>2, PutIs
    <2>4. Ready(fsm, "ClientRegistration.phone") => Ready(Put(fsm, {"phone"}),
          "ClientRegistration.confirm")
      BY <1>5, <2>3, ProfileReadiness
    <2>5. /\ \A g : g.state = "ClientRegistration.phone" => Own(g, "creg.cancel", NoDay)
          /\ \A g : g.state = "ClientRegistration.confirm" => Own(g, "creg.confirm", NoDay)
      BY ClientRegistrationOwn
    <2>6. "ClientRegistration.confirm" \in FormStates => "ClientRegistration.phone" \in FormStates
      BY DEF FormStates
    <2> QED
      BY <2>1, <2>2, <2>4, <2>5, <2>6, AnswerKeeps, ClientRegistrationNames
  <1> QED
    BY <1>1, <1>4, <1>6, <1>7

LEMMA ConfirmClientKeeps ==
    ASSUME IInv, NEW i \in DOMAIN chat, ConfirmClient(i)
    PROVE  Coherent(fsm', chat', consent)
  BY TakenChats, ResetInDialog DEF ConfirmClient

LEMMA RestartClientKeeps ==
    ASSUME IInv, NEW i \in DOMAIN chat, RestartClient(i)
    PROVE  Coherent(fsm', chat', consent)
  <1> DEFINE f == [Put(Blank, {"invite_data"}) EXCEPT !.halted = fsm.halted]
             C == Fresh({Track(i)}, "client_registration")
  <1>1. fsm.state = "ClientRegistration.confirm"
    BY Tapped, ClientRegistrationTaps DEF RestartClient
  <1>2. \A c \in {Track(i)} : c \in Chats /\ Fitting(fsm, c) /\ Decent(c)
    BY TrackFits, FittingDecent
  <1>3. \A c \in C : c \in Chats /\ Idle(c)
    BY <1>2, FreshChats
  <1>4. f \in Fsms /\ f.state = "none" /\ f.keys = {"invite_data"} /\ f.halted = fsm.halted
    <2>1. {"invite_data"} \in SUBSET Keys
      BY DEF Keys
    <2>2. /\ Put(Blank, {"invite_data"}) \in Fsms /\ Put(Blank, {"invite_data"}).state = "none"
          /\ Put(Blank, {"invite_data"}).keys = {"invite_data"}
      BY <2>1, BegunIs
    <2>3. fsm.halted \in BOOLEAN
      BY TapBasis DEF Fsms
    <2> QED
      BY <2>2, <2>3 DEF Fsms
  <1>5. \/ Send(C, f, "ClientRegistration.name", "creg.cancel", NoDay)
        \/ LoseContext({Track(i)}, "client_registration")
    BY DEF RestartClient
  <1> HIDE DEF f, C
  <1>6. CASE Send(C, f, "ClientRegistration.name", "creg.cancel", NoDay)
    <2>1. f.halted \/ Carries(f, "ClientRegistration.name", consent)
      BY <1>1, <1>4, TapBasis, ProfileReadiness DEF Data, Carries, FormStates
    <2>2. To(f, "ClientRegistration.name").state = "ClientRegistration.name"
      BY <1>4, WrittenIs, ClientRegistrationNames
    <2>3. Own(To(f, "ClientRegistration.name"), "creg.cancel", NoDay)
      BY <2>2, ClientRegistrationOwn
    <2> QED
      BY <1>3, <1>4, <1>6, <2>1, <2>3, SendAnew, ClientRegistrationNames DEF Shown
  <1>7. CASE LoseContext({Track(i)}, "client_registration")
    BY <1>2, <1>7, ResetInDialog DEF LoseContext
  <1> QED
    BY <1>5, <1>6, <1>7

LEMMA CancelClientKeeps ==
    ASSUME IInv, NEW i \in DOMAIN chat, CancelClient(i)
    PROVE  Coherent(fsm', chat', consent)
  BY TapBasis, ResetInDialog DEF CancelClient

-----------------------------------------------------------------------------
(* A master adds a client.                                                 *)

LEMMA StartAddClientKeeps ==
    ASSUME IInv, StartAddClient
    PROVE  Coherent(fsm', chat', consent)
  <1>1. CASE Send({chat}, fsm, "AddClient.name", "client.cancel", NoDay)
    <2>1. Send({chat}, fsm, "AddClient.name", "client.cancel", NoDay)
      BY <1>1
    <2>2. fsm \in Fsms
      BY TapBasis
    <2>3. fsm.halted \/ Carries(fsm, "AddClient.name", consent)
      BY <2>2, TapBasis, ProfileReadiness DEF Data, Carries, FormStates
    <2>4. "AddClient.name" \in States
      BY AddClientNames
    <2>5. /\ To(fsm, "AddClient.name").state = "AddClient.name"
          /\ To(fsm, "AddClient.name").day = fsm.day
          /\ To(fsm, "AddClient.name").picked = fsm.picked
          /\ To(fsm, "AddClient.name").who = fsm.who
          /\ Lost(To(fsm, "AddClient.name")).lost
          /\ Lost(To(fsm, "AddClient.name")).state = "AddClient.name"
      BY <2>2, <2>4, WrittenIs
    <2>6. Own(To(fsm, "AddClient.name"), "client.cancel", NoDay)
      BY <2>2, <2>5, AddClientOwn
    <2>7. Agrees(fsm, fsm)
      BY <2>2 DEF Agrees
    <2> QED
      BY <2>1, <2>2, <2>3, <2>6, <2>7, TapBasis, SendInDialog, AddClientNames DEF Shown
  <1>2. CASE Reset({chat}, "master_add_client")
    BY <1>2, TapBasis, ResetInDialog
  <1> QED
    BY <1>1, <1>2 DEF StartAddClient

LEMMA AnswerAddClientKeeps ==
    ASSUME IInv, AnswerAddClient
    PROVE  Coherent(fsm', chat', consent)
  <1>1. Len(AddClientForm) - 1 = 2 /\ 1..2 = {1, 2}
    BY DEF AddClientForm
  <1>2. /\ AddClientForm[1].state = "AddClient.name" /\ AddClientForm[1].key = "name"
        /\ AddClientForm[2].state = "AddClient.phone" /\ AddClientForm[2].key = "phone"
        /\ AddClientForm[3].state = "AddClient.confirm"
    BY DEF AddClientForm
  <1>3. Len(AddClientForm) = 3
    BY DEF AddClientForm
  <1>4. PICK n \in 1..2 :
            /\ fsm.state = AddClientForm[n].state
            /\ \/ Send({chat}, fsm, fsm.state, "client.cancel", NoDay)
               \/ Send({chat}, Put(fsm, {AddClientForm[n].key}), AddClientForm[n + 1].state,
                       IF n + 1 = 3 THEN "client.confirm" ELSE "client.cancel", NoDay)
    BY <1>1, <1>3 DEF AnswerAddClient, Answer
  <1>5. fsm \in Fsms
    BY TapBasis
  <1>6. CASE n = 1
    <2>1. /\ fsm.state = "AddClient.name"
          /\ \/ Send({chat}, fsm, fsm.state, "client.cancel", NoDay)
             \/ Send({chat}, Put(fsm, {"name"}), "AddClient.phone", "client.cancel", NoDay)
      BY <1>2, <1>4, <1>6
    <2>2. "name" \in Keys /\ {"name"} \in SUBSET Keys
      BY DEF Keys
    <2>3. /\ Put(fsm, {"name"}) \in Fsms
          /\ Put(fsm, {"name"}).keys = fsm.keys \cup {"name"}
      BY <1>5, <2>2, PutIs
    <2>4. Ready(fsm, "AddClient.name") => Ready(Put(fsm, {"name"}), "AddClient.phone")
      BY <1>5, <2>3, ProfileReadiness
    <2>5. /\ \A g : g.state = "AddClient.name" => Own(g, "client.cancel", NoDay)
          /\ \A g : g.state = "AddClient.phone" => Own(g, "client.cancel", NoDay)
      BY AddClientOwn
    <2>6. "AddClient.phone" \in FormStates => "AddClient.name" \in FormStates
      BY DEF FormStates
    <2> QED
      BY <2>1, <2>2, <2>4, <2>5, <2>6, AnswerKeeps, AddClientNames
  <1>7. CASE n = 2
    <2>1. /\ fsm.state = "AddClient.phone"
          /\ \/ Send({chat}, fsm, fsm.state, "client.cancel", NoDay)
             \/ Send({chat}, Put(fsm, {"phone"}), "AddClient.confirm", "client.confirm", NoDay)
      BY <1>2, <1>4, <1>7
    <2>2. "phone" \in Keys /\ {"phone"} \in SUBSET Keys
      BY DEF Keys
    <2>3. /\ Put(fsm, {"phone"}) \in Fsms
          /\ Put(fsm, {"phone"}).keys = fsm.keys \cup {"phone"}
      BY <1>5, <2>2, PutIs
    <2>4. Ready(fsm, "AddClient.phone") => Ready(Put(fsm, {"phone"}), "AddClient.confirm")
      BY <1>5, <2>3, ProfileReadiness
    <2>5. /\ \A g : g.state = "AddClient.phone" => Own(g, "client.cancel", NoDay)
          /\ \A g : g.state = "AddClient.confirm" => Own(g, "client.confirm", NoDay)
      BY AddClientOwn
    <2>6. "AddClient.confirm" \in FormStates => "AddClient.phone" \in FormStates
      BY DEF FormStates
    <2> QED
      BY <2>1, <2>2, <2>4, <2>5, <2>6, AnswerKeeps, AddClientNames
  <1> QED
    BY <1>1, <1>4, <1>6, <1>7

LEMMA ConfirmAddClientKeeps ==
    ASSUME IInv, NEW i \in DOMAIN chat, ConfirmAddClient(i)
    PROVE  Coherent(fsm', chat', consent)
  <1> DEFINE C == {Track(i), Bare(Track(i), i)}
             f == Drop(fsm, {"confirm_in_progress"})
             g == To(Marked, "AddClient.phone")
  <1>1. fsm.state = "AddClient.confirm"
    BY Tapped, AddClientTaps DEF ConfirmAddClient
  <1>2. \A c \in C : c \in Chats /\ Fitting(fsm, c) /\ Decent(c) /\ i \in DOMAIN c
    BY TakenChats, FittingDecent
  <1>3. Put(fsm, {"confirm_in_progress"}) = Marked
    BY DEF Marked
  <1>4. Marked \in Fsms /\ Agrees(Marked, fsm)
    BY MarkedIs
  <1>5. \/ Refuse(Track(i))
        \/ CutShort(Marked) /\ chat' \in C
        \/ CutShort(Marked) /\ \E c \in C : chat' = Sent(c, "client.cancel", NoDay)
        \/ Reset(C, "master_add_client")
        \/ /\ fsm' = To(f, "AddClient.phone")
           /\ chat' \in {Sent(c, "client.cancel", NoDay) : c \in C}
        \/ CutShort(g) /\ \E c \in C : chat' = Sent(c, "client.cancel", NoDay)
        \/ fsm' = Blank /\ \E c \in C : chat' = Cleared(Drawn(c, i, "paywall", NoDay))
    BY <1>3 DEF ConfirmAddClient
  <1>6. /\ f \in Fsms /\ f.state = fsm.state /\ f.keys = fsm.keys \ {"confirm_in_progress"}
        /\ f.day = fsm.day /\ f.picked = fsm.picked /\ f.halted = fsm.halted
    BY TapBasis, DropIs
  <1>7. g \in Fsms
    BY <1>4, WrittenIs, AddClientNames
  <1> HIDE DEF C, f, g
  <1>8. CASE Refuse(Track(i))
    BY <1>8, TrackFits, RefuseEnds
  <1>9. CASE CutShort(Marked) /\ chat' \in C
    BY <1>2, <1>4, <1>9, CutShortIn
  <1>10. ASSUME NEW h \in Fsms, CutShort(h), \E c \in C : chat' = Sent(c, "client.cancel", NoDay)
         PROVE  Coherent(fsm', chat', consent)
    <2>1. PICK c \in C : chat' = Sent(c, "client.cancel", NoDay)
      BY <1>10
    <2>2. /\ Sent(c, "client.cancel", NoDay) \in Chats
          /\ Fitting(CutOff(h), Sent(c, "client.cancel", NoDay))
      BY <1>2, <1>10, <2>1, DrawnCutOff, AddClientNames DEF Shown
    <2> QED
      BY <1>10, <2>1, <2>2, CutShortEnds
  <1>11. CASE Reset(C, "master_add_client")
    BY <1>2, <1>11, ResetInDialog
  <1>12. CASE /\ fsm' = To(f, "AddClient.phone")
              /\ chat' \in {Sent(c, "client.cancel", NoDay) : c \in C}
    <2>1. Send(C, f, "AddClient.phone", "client.cancel", NoDay)
      BY <1>12 DEF Send
    <2>2. f.halted \/ Carries(f, "AddClient.phone", consent)
      BY <1>1, <1>6, TapBasis, ProfileReadiness DEF Data, Carries, FormStates
    <2>3. To(f, "AddClient.phone").state = "AddClient.phone"
      BY <1>6, WrittenIs, AddClientNames
    <2>4. Own(To(f, "AddClient.phone"), "client.cancel", NoDay)
      BY <2>3, AddClientOwn
    <2>5. Agrees(f, fsm)
      BY <1>6 DEF Agrees
    <2> QED
      BY <1>2, <1>6, <2>1, <2>2, <2>4, <2>5, SendInDialog, AddClientNames DEF Shown
  <1>13. CASE fsm' = Blank /\ \E c \in C : chat' = Cleared(Drawn(c, i, "paywall", NoDay))
    BY <1>2, <1>13, ClearedDrawnEnds, AddClientNames
  <1> QED
    BY <1>4, <1>5, <1>7, <1>8, <1>9, <1>10, <1>11, <1>12, <1>13

LEMMA RestartAddClientKeeps ==
    ASSUME IInv, NEW i \in DOMAIN chat, RestartAddClient(i)
    PROVE  Coherent(fsm', chat', consent)
  <1>1. \A c \in {Track(i)} : c \in Chats /\ Fitting(fsm, c) /\ Decent(c)
    BY TrackFits, FittingDecent
  <1>2. CASE Reset({Track(i)}, "master_add_client")
    BY <1>1, <1>2, ResetInDialog
  <1>3. CASE Send(Fresh({Track(i)}, "master_add_client"), Blank, "AddClient.name",
                  "client.cancel", NoDay)
    <2>1. \A c \in Fresh({Track(i)}, "master_add_client") : c \in Chats /\ Idle(c)
      BY <1>1, FreshChats
    <2> QED
      BY <1>3, <2>1, StartAddClientFromKeeps DEF StartAddClientFrom
  <1> QED
    BY <1>2, <1>3 DEF RestartAddClient

LEMMA CancelAddClientKeeps ==
    ASSUME IInv, NEW i \in DOMAIN chat, CancelAddClient(i)
    PROVE  Coherent(fsm', chat', consent)
  BY TapBasis, ResetInDialog DEF CancelAddClient

-----------------------------------------------------------------------------
(* A master overrides a day.                                               *)

LEMMA DayBackKeeps ==
    ASSUME IInv, NEW f \in Fsms, f.state = fsm.state, f.halted = fsm.halted, f.day = fsm.day,
           fsm.state \in DayStates, NEW state \in States, state \in DayStates,
           f.halted \/ Carries(f, state, consent), EditDay(f, state, "day.back", NoDay)
    PROVE  Coherent(fsm', chat', consent)
  <1>1. To(f, state).state = state
    BY WrittenIs
  <1>2. Own(To(f, state), "day.back", NoDay)
    BY <1>1, WorkdayOwn DEF DayStates
  <1>3. Stays(To(f, state), "day.back", NoDay)
    BY DEF Stays, Edits
  <1> QED
    BY <1>2, <1>3, EditDayEnds, WorkdayNames DEF Shown

\* Asked again, or told of the bookings in the way
LEMMA DayAgainKeeps ==
    ASSUME IInv, fsm.state \in DayStates, EditDay(fsm, fsm.state, "day.back", NoDay)
    PROVE  Coherent(fsm', chat', consent)
  <1>1. fsm \in Fsms /\ fsm.state \in States /\ (fsm.halted \/ Carries(fsm, fsm.state, consent))
    BY TapBasis DEF Data, Fsms
  <1> QED
    BY <1>1, DayBackKeeps

LEMMA RenderDayMenuKeeps ==
    ASSUME IInv, NEW d \in Days, RenderDayMenu(d),
           fsm.state = "Workday.picking_date" \/ (fsm.state \in DayStates /\ fsm.day = d)
    PROVE  Coherent(fsm', chat', consent)
  <1> DEFINE f == [fsm EXCEPT !.day = d]
             state == "Workday.choosing_action"
  <1>1. \/ EditDay(f, state, "day.menu", d)
        \/ /\ CutShort(fsm)
           /\ \/ chat' = chat
              \/ \E i \in Main(chat, Overrides) : chat' = Drawn(chat, i, "day.menu", d)
    BY DEF RenderDayMenu
  <1>2. f = Listed(fsm, d)
    BY DEF Listed
  <1> HIDE DEF f
  <1>3. /\ f \in Fsms /\ f.state = fsm.state /\ f.keys = fsm.keys /\ f.day = d
        /\ f.halted = fsm.halted
    BY <1>2, TapBasis, ListedIs
  <1>4. CASE EditDay(f, state, "day.menu", d)
    <2>1. f.halted \/ Carries(f, state, consent)
      BY <1>3, TapBasis, ChatConstants, ProfileReadiness DEF Data, Carries, FormStates
    <2>2. To(f, state).state = state /\ To(f, state).day = d
      BY <1>3, WrittenIs, WorkdayNames
    <2>3. Own(To(f, state), "day.menu", d)
      BY <2>2, DayMenuOwn
    <2>4. Stays(To(f, state), "day.menu", d)
      BY <2>2 DEF Stays, Edits, DayStates, Asked
    <2>5. state \in DayStates
      BY DEF DayStates
    <2> QED
      BY <1>3, <1>4, <2>1, <2>3, <2>4, <2>5, EditDayEnds, WorkdayNames DEF Shown
  <1>5. CASE CutShort(fsm) /\ chat' = chat
    BY <1>5, TapBasis, AgreesItself, CutShortEnds
  <1>6. CASE CutShort(fsm) /\ \E i \in Main(chat, Overrides) : chat' = Drawn(chat, i, "day.menu", d)
    <2>1. PICK i \in Main(chat, Overrides) : chat' = Drawn(chat, i, "day.menu", d)
      BY <1>6
    <2>2. i \in DOMAIN chat /\ d \in Shown
      BY <2>1 DEF Main, Shown
    <2>3. /\ Drawn(chat, i, "day.menu", d) \in Chats
          /\ Fitting(CutOff(fsm), Drawn(chat, i, "day.menu", d))
      BY <2>2, TapBasis, DrawnCutOff, WorkdayNames
    <2> QED
      BY <1>6, <2>1, <2>3, TapBasis, CutShortEnds
  <1> QED
    BY <1>1, <1>4, <1>5, <1>6

\* The day the data has is shown
LEMMA SameDayKeeps ==
    ASSUME IInv, fsm.state \in DayStates, "day" \in Has(fsm), RenderDayMenu(fsm.day)
    PROVE  Coherent(fsm', chat', consent)
  <1>1. fsm.day \in Days
    BY TapBasis, HasIs DEF Fsms
  <1>2. PICK d \in Days : d = fsm.day
    BY <1>1
  <1>3. RenderDayMenu(d)
    BY <1>2
  <1> QED
    BY <1>2, <1>3, RenderDayMenuKeeps

LEMMA StartOverridesKeeps ==
    ASSUME IInv, NEW i \in DOMAIN chat, StartOverrides(i)
    PROVE  Coherent(fsm', chat', consent)
  <1> DEFINE state == "Workday.picking_date"
             c == [Cleared(chat) EXCEPT ![i].main = TRUE]
  <1>1. chat[i].kind = "schedule"
    <2>1. On(i, "m:overrides:start")
      BY DEF StartOverrides
    <2>2. <<chat[i].kind, "m:overrides:start">> \in Keyboards
      BY <2>1, Tapped
    <2> QED
      BY <2>2, WorkdayTaps
  <1>2. /\ Cleared(chat) \in Chats /\ Idle(Cleared(chat)) /\ i \in DOMAIN Cleared(chat)
        /\ Cleared(chat)[i].kind = "schedule"
    BY <1>1, TapBasis, ClearedIs
  <1>3. /\ c \in Chats /\ DOMAIN c = DOMAIN Cleared(chat) /\ c[i].kind = "schedule"
        /\ \A n \in DOMAIN c : /\ c[n].kind = Cleared(chat)[n].kind
                               /\ c[n].shows = Cleared(chat)[n].shows /\ ~c[n].front
        /\ \A n \in DOMAIN c \ {i} : ~c[n].main
    <2> DEFINE e == Cleared(chat)
    <2>1. c = [e EXCEPT ![i].main = TRUE]
      OBVIOUS
    <2>2. e \in Chats /\ Idle(e) /\ i \in DOMAIN e /\ e[i].kind = "schedule"
      BY <1>2
    <2> HIDE DEF e
    <2>3. /\ c \in Chats /\ DOMAIN c = DOMAIN e
          /\ \A n \in DOMAIN e : /\ c[n].kind = e[n].kind /\ c[n].shows = e[n].shows
                                 /\ c[n].front = e[n].front
          /\ \A n \in DOMAIN e \ {i} : c[n] = e[n]
      <3> DEFINE d(b) == [e EXCEPT ![i].main = b]
      <3>1. \A b \in BOOLEAN :
               /\ d(b) \in Chats /\ DOMAIN d(b) = DOMAIN e
               /\ \A n \in DOMAIN e : /\ d(b)[n].kind = e[n].kind /\ d(b)[n].shows = e[n].shows
                                      /\ d(b)[n].front = e[n].front
               /\ \A n \in DOMAIN e \ {i} : d(b)[n] = e[n]
        BY <2>2, MainedIs
      <3>2. c = d(TRUE) /\ TRUE \in BOOLEAN
        BY <2>1
      <3> HIDE DEF c, d
      <3> QED
        BY <3>1, <3>2
    <2> HIDE DEF c
    <2>4. c[i].kind = "schedule" /\ \A n \in DOMAIN c : ~c[n].front
      BY <2>2, <2>3 DEF Idle
    <2>5. \A n \in DOMAIN c \ {i} : ~c[n].main
      BY <2>2, <2>3 DEF Idle
    <2> QED
      BY <2>3, <2>4, <2>5 DEF e
  <1>4. \/ CutShort(fsm) /\ chat' = chat
        \/ Redraw(c, i, Blank, state, "day.calendar", NoDay)
    BY DEF StartOverrides
  <1> HIDE DEF c
  <1>5. CASE CutShort(fsm) /\ chat' = chat
    BY <1>5, TapBasis, AgreesItself, CutShortEnds
  <1>6. CASE Redraw(c, i, Blank, state, "day.calendar", NoDay)
    <2>1. Blank \in Fsms /\ Carries(Blank, state, consent)
      BY BlankIs, ProfileReadiness DEF Carries, FormStates
    <2>2. To(Blank, state).state = state
      BY <2>1, WrittenIs, WorkdayNames
    <2>3. Fitting(CutOff(Blank), c)
      <3>1. \A kind, shows : Stays(CutOff(Blank), kind, shows)
        BY <2>1, CutOffIs, CalmStays
      <3> QED
        BY <1>2, <1>3, <3>1 DEF Fitting, Fits, Idle
    <2>4. Own(To(Blank, state), "day.calendar", NoDay)
      BY <2>2, WorkdayOwn
    <2>5. Own(CutOff(Blank), "day.calendar", NoDay)
      BY <2>1, CutOffOwn, WorkdayNames
    <2>6. Own(Lost(To(Blank, state)), c[i].kind, c[i].shows)
      BY <1>3, FreeOwn
    <2>7. /\ Stays(To(Blank, state), "day.calendar", NoDay)
          /\ \A n \in DOMAIN c : c[n].main => Stays(To(Blank, state), c[n].kind, c[n].shows)
      <3>1. \A shows : /\ Stays(To(Blank, state), "schedule", shows)
                       /\ Stays(To(Blank, state), "day.calendar", shows)
        BY DEF Stays, Edits
      <3> QED
        BY <1>3, <3>1
    <2>8. i \in DOMAIN c
      BY <1>2, <1>3
    <2> QED
      BY <1>3, <1>6, <2>1, <2>3, <2>4, <2>5, <2>6, <2>7, <2>8, RedrawEnds, WorkdayNames DEF Shown
  <1> QED
    BY <1>4, <1>5, <1>6

LEMMA TurnOverrideCalendarKeeps ==
    ASSUME IInv, NEW i \in DOMAIN chat, TurnOverrideCalendar(i)
    PROVE  Coherent(fsm', chat', consent)
  <1>1. fsm.state = "Workday.picking_date"
    BY Tapped, WorkdayTaps DEF TurnOverrideCalendar
  <1>2. Own(fsm, "day.calendar", NoDay)
    BY <1>1, WorkdayOwn
  <1> QED
    BY <1>2, TapBasis, RefreshInDialog, WorkdayNames DEF TurnOverrideCalendar

LEMMA PickOverrideDayKeeps ==
    ASSUME IInv, NEW i \in DOMAIN chat, PickOverrideDay(i)
    PROVE  Coherent(fsm', chat', consent)
  <1>1. fsm.state = "Workday.picking_date"
    BY Tapped, WorkdayTaps DEF PickOverrideDay
  <1>2. CASE Forget
    BY <1>2, ForgetEnds
  <1>3. CASE \E d \in Days : RenderDayMenu(d)
    BY <1>1, <1>3, RenderDayMenuKeeps
  <1> QED
    BY <1>2, <1>3 DEF PickOverrideDay

LEMMA BackToScheduleKeeps ==
    ASSUME IInv, NEW i \in DOMAIN chat, BackToSchedule(i)
    PROVE  Coherent(fsm', chat', consent)
  <1>1. CASE Refuse(chat)
    BY <1>1, TapBasis, RefuseEnds
  <1>2. CASE fsm' = Blank /\ chat' = Cleared(Drawn(chat, i, "schedule", NoDay))
    <2>1. \A c \in {chat} : c \in Chats /\ Decent(c) /\ i \in DOMAIN c
      BY TapBasis
    <2> QED
      BY <1>2, <2>1, ClearedDrawnEnds, WorkdayNames
  <1>3. CASE CutShort(fsm) /\ chat' = Drawn(chat, i, "schedule", NoDay)
    <2>1. /\ Drawn(chat, i, "schedule", NoDay) \in Chats
          /\ Fitting(CutOff(fsm), Drawn(chat, i, "schedule", NoDay))
      BY TapBasis, DrawnCutOff, WorkdayNames DEF Shown
    <2> QED
      BY <1>3, <2>1, TapBasis, CutShortEnds
  <1> QED
    BY <1>1, <1>2, <1>3 DEF BackToSchedule

LEMMA OverrideRefusedKeeps ==
    ASSUME IInv, NEW i \in DOMAIN chat, OverrideRefused(i)
    PROVE  Coherent(fsm', chat', consent)
  <1>1. fsm.state \in DayStates
    <2>1. PICK b \in {"m:overrides:make_day_off", "m:overrides:make_working"} : On(i, b)
      BY DEF OverrideRefused
    <2>2. Heard(b, fsm.state)
      BY <2>1, Tapped
    <2> QED
      BY <2>1, <2>2, WorkdayTaps DEF DayStates
  <1>2. CASE Forget
    BY <1>2, ForgetEnds
  <1>3. CASE Conflicted
    BY <1>1, <1>3, DayAgainKeeps DEF Conflicted
  <1> QED
    BY <1>2, <1>3 DEF OverrideRefused

LEMMA OverrideDayKeeps ==
    ASSUME IInv, NEW i \in DOMAIN chat, OverrideDay(i)
    PROVE  Coherent(fsm', chat', consent)
  <1>1. fsm.state \in DayStates
    <2>1. PICK b \in {"m:overrides:make_day_off", "m:overrides:make_working"} : On(i, b)
      BY DEF OverrideDay
    <2>2. Heard(b, fsm.state)
      BY <2>1, Tapped
    <2> QED
      BY <2>1, <2>2, WorkdayTaps DEF DayStates
  <1> QED
    BY <1>1, SameDayKeeps DEF OverrideDay

LEMMA PromptStartKeeps ==
    ASSUME IInv, NEW i \in DOMAIN chat, PromptStart(i)
    PROVE  Coherent(fsm', chat', consent)
  <1>1. fsm.state = "Workday.choosing_action"
    BY Tapped, WorkdayTaps DEF PromptStart
  <1>2. fsm \in Fsms /\ (fsm.halted \/ Carries(fsm, "Workday.setting_start", consent))
    BY <1>1, TapBasis, ProfileReadiness DEF Data, Carries, FormStates
  <1>3. fsm.state \in DayStates /\ "Workday.setting_start" \in DayStates
    BY <1>1 DEF DayStates
  <1> QED
    BY <1>2, <1>3, DayBackKeeps, WorkdayNames DEF PromptStart

LEMMA ReadStartKeeps ==
    ASSUME IInv, ReadStart
    PROVE  Coherent(fsm', chat', consent)
  <1> DEFINE f == Put(fsm, {"override_start"})
  <1>1. fsm.state = "Workday.setting_start" /\ fsm.state \in DayStates
        /\ "Workday.setting_end" \in DayStates
    BY DEF ReadStart, DayStates
  <1>2. CASE EditDay(fsm, fsm.state, "day.back", NoDay)
    BY <1>1, <1>2, DayAgainKeeps
  <1>3. CASE EditDay(f, "Workday.setting_end", "day.back", NoDay)
    <2>1. {"override_start"} \in SUBSET Keys
      BY DEF Keys
    <2>2. /\ f \in Fsms /\ f.state = fsm.state /\ f.keys = fsm.keys \cup {"override_start"}
          /\ f.day = fsm.day /\ f.halted = fsm.halted
      BY <2>1, TapBasis, PutIs
    <2> HIDE DEF f
    <2>3. f.halted \/ Carries(f, "Workday.setting_end", consent)
      BY <1>1, <2>2, TapBasis, ProfileReadiness DEF Data, Carries, FormStates
    <2> QED
      BY <1>1, <1>3, <2>2, <2>3, DayBackKeeps, WorkdayNames
  <1> QED
    BY <1>2, <1>3 DEF ReadStart

LEMMA ReadEndKeeps ==
    ASSUME IInv, ReadEnd
    PROVE  Coherent(fsm', chat', consent)
  <1>1. fsm.state \in DayStates
    BY DEF ReadEnd, DayStates
  <1>2. CASE Forget
    BY <1>2, ForgetEnds
  <1>3. CASE EditDay(fsm, fsm.state, "day.back", NoDay)
    BY <1>1, <1>3, DayAgainKeeps
  <1>4. CASE "day" \in Has(fsm) /\ RenderDayMenu(fsm.day)
    BY <1>1, <1>4, SameDayKeeps
  <1> QED
    BY <1>2, <1>3, <1>4 DEF ReadEnd

LEMMA BackToDayKeeps ==
    ASSUME IInv, NEW i \in DOMAIN chat, BackToDay(i)
    PROVE  Coherent(fsm', chat', consent)
  <1>1. fsm.state \in DayStates
    BY Tapped, WorkdayTaps DEF BackToDay, DayStates
  <1>2. CASE Forget
    BY <1>2, ForgetEnds
  <1>3. CASE "day" \in Has(fsm) /\ RenderDayMenu(fsm.day)
    BY <1>1, <1>3, SameDayKeeps
  <1> QED
    BY <1>2, <1>3 DEF BackToDay

-----------------------------------------------------------------------------
(* A client is found and edited.                                           *)

\* Where nothing is to be confirmed, a handler that is cut short leaves nothing at odds
LEMMA CutOffCalm ==
    ASSUME NEW f \in Fsms, NEW c, Decent(c),
           f.state \notin {"ClientBooking.confirm", "AddBooking.confirm", "Reschedule.confirm"}
    PROVE  Fitting(CutOff(f), c)
  <1>1. ASSUME NEW n \in DOMAIN c
        PROVE  Fits(CutOff(f), c[n])
    <2>1. Person(c[n].kind, c[n].shows)
      BY DEF Decent
    <2>2. Own(CutOff(f), c[n].kind, c[n].shows)
      BY <2>1, CutOffOwn
    <2>3. Stays(CutOff(f), c[n].kind, c[n].shows)
      BY CutOffIs, CalmStays
    <2> QED
      BY <2>1, <2>2, <2>3 DEF Fits
  <1> QED
    BY <1>1 DEF Fitting

\* The data refers to another message
LEMMA MainFits ==
    ASSUME NEW f, NEW c \in Chats, Fitting(f, c), NEW i \in DOMAIN c, NEW kinds,
           Stays(f, c[i].kind, c[i].shows)
    PROVE  /\ MainIs(c, i, kinds) \in Chats /\ Fitting(f, MainIs(c, i, kinds))
           /\ DOMAIN MainIs(c, i, kinds) = DOMAIN c
           /\ \A n \in DOMAIN c : /\ MainIs(c, i, kinds)[n].kind = c[n].kind
                                  /\ MainIs(c, i, kinds)[n].shows = c[n].shows
           /\ \A n \in DOMAIN c \ {i} :
                 MainIs(c, i, kinds)[n].main => c[n].main /\ c[n].kind \notin kinds
  <1> DEFINE d == MainIs(c, i, kinds)
  <1>1. /\ d \in Chats /\ DOMAIN d = DOMAIN c
        /\ \A n \in DOMAIN c : /\ d[n].kind = c[n].kind /\ d[n].shows = c[n].shows
                               /\ d[n].front = c[n].front
        /\ \A n \in DOMAIN c \ {i} : d[n].main => c[n].main /\ c[n].kind \notin kinds
    BY MainIsIs
  <1> HIDE DEF d
  <1>2. ASSUME NEW n \in DOMAIN d
        PROVE  Fits(f, d[n])
    <2>1. Fits(f, c[n])
      BY <1>1 DEF Fitting
    <2>2. CASE n = i
      BY <1>1, <2>1, <2>2 DEF Fits
    <2>3. CASE n # i
      BY <1>1, <2>1, <2>3 DEF Fits
    <2> QED
      BY <2>2, <2>3
  <1> QED
    BY <1>1, <1>2 DEF Fitting, d

LEMMA EditSwept ==
    ASSUME IInv, NEW buckets
    PROVE  \A c \in Swept({chat}, buckets) : c \in Chats /\ Fitting(fsm, c) /\ Decent(c)
  BY TapBasis, SweptFits, FittingDecent

LEMMA AskQueryKeeps ==
    ASSUME IInv, AskQuery
    PROVE  Coherent(fsm', chat', consent)
  <1> DEFINE C == Swept({chat}, EditBuckets)
  <1>1. \A c \in C : c \in Chats /\ Fitting(fsm, c) /\ Decent(c)
    BY EditSwept
  <1>2. \A c \in {chat} \cup C : c \in Chats /\ Fitting(fsm, c)
    BY <1>1, TapBasis
  <1>3. \/ CutShort(fsm) /\ chat' \in {chat} \cup C
        \/ Send({Cleared(c) : c \in C}, Blank, "EditClient.query", "edit.prompt", NoDay)
    BY DEF AskQuery
  <1> HIDE DEF C
  <1>4. CASE CutShort(fsm) /\ chat' \in {chat} \cup C
    BY <1>2, <1>4, TapBasis, SameAgrees, CutShortIn
  <1>5. CASE Send({Cleared(c) : c \in C}, Blank, "EditClient.query", "edit.prompt", NoDay)
    <2>1. \A c \in {Cleared(d) : d \in C} : c \in Chats /\ Idle(c)
      BY <1>1, ClearedIdle
    <2>2. Blank \in Fsms /\ Blank.state = "none" /\ Carries(Blank, "EditClient.query", consent)
      BY BlankIs, EditReadiness DEF Carries, FormStates
    <2>3. To(Blank, "EditClient.query").state = "EditClient.query"
      BY <2>2, WrittenIs, EditClientNames
    <2>4. Own(To(Blank, "EditClient.query"), "edit.prompt", NoDay)
      BY <2>3, EditClientOwn
    <2> QED
      BY <1>5, <2>1, <2>2, <2>4, SendAnew, EditClientNames DEF Shown
  <1> QED
    BY <1>3, <1>4, <1>5

LEMMA StartSearchKeeps ==
    ASSUME IInv, StartSearch
    PROVE  Coherent(fsm', chat', consent)
  BY AskQueryKeeps DEF StartSearch

LEMMA BackToSearchKeeps ==
    ASSUME IInv, NEW i \in DOMAIN chat, BackToSearch(i)
    PROVE  Coherent(fsm', chat', consent)
  BY AskQueryKeeps DEF BackToSearch

LEMMA ReadQueryKeeps ==
    ASSUME IInv, ReadQuery
    PROVE  Coherent(fsm', chat', consent)
  <1> DEFINE C == Swept({chat}, SearchBucket)
             f == Put(fsm, {"results"})
  <1>1. \A c \in C : c \in Chats /\ Fitting(fsm, c)
    BY EditSwept
  <1>2. \A c \in {chat} \cup C : c \in Chats /\ Fitting(fsm, c)
    BY <1>1, TapBasis
  <1>3. /\ fsm.state = "EditClient.query"
        /\ \/ Send({chat} \cup C, fsm, "EditClient.query", "edit.prompt", NoDay)
           \/ Send(C, f, "EditClient.choosing", "edit.results", NoDay)
    BY DEF ReadQuery
  <1> HIDE DEF C, f
  <1>4. CASE Send({chat} \cup C, fsm, "EditClient.query", "edit.prompt", NoDay)
    <2>1. fsm \in Fsms /\ (fsm.halted \/ Carries(fsm, "EditClient.query", consent))
      BY <1>3, TapBasis DEF Data
    <2>2. To(fsm, "EditClient.query").state = "EditClient.query"
      BY <2>1, WrittenIs, EditClientNames
    <2>3. Own(To(fsm, "EditClient.query"), "edit.prompt", NoDay)
      BY <2>2, EditClientOwn
    <2> QED
      BY <1>2, <1>4, <2>1, <2>3, SameAgrees, SendInDialog, EditClientNames DEF Shown
  <1>5. CASE Send(C, f, "EditClient.choosing", "edit.results", NoDay)
    <2>1. {"results"} \in SUBSET Keys
      BY DEF Keys
    <2>2. /\ f \in Fsms /\ f.state = fsm.state /\ f.keys = fsm.keys \cup {"results"}
          /\ f.day = fsm.day /\ f.picked = fsm.picked /\ f.halted = fsm.halted
      BY <2>1, TapBasis, PutIs DEF f
    <2>3. f.halted \/ Carries(f, "EditClient.choosing", consent)
      BY <1>3, <2>2, TapBasis, EditReadiness DEF Data, Carries, FormStates
    <2>4. To(f, "EditClient.choosing").state = "EditClient.choosing"
      BY <2>2, WrittenIs, EditClientNames
    <2>5. Own(To(f, "EditClient.choosing"), "edit.results", NoDay)
      BY <2>4, EditClientOwn
    <2>6. Agrees(f, fsm)
      BY <2>2 DEF Agrees
    <2> QED
      BY <1>1, <1>5, <2>2, <2>3, <2>5, <2>6, SendInDialog, EditClientNames DEF Shown
  <1> QED
    BY <1>3, <1>4, <1>5

\* A client's card is shown in the tapped message, which is the main one from now on
LEMMA CardShownKeeps ==
    ASSUME NEW f \in Fsms, NEW c \in Chats, Fitting(CutOff(f), c), NEW k,
           f.halted \/ Carries(f, "EditClient.action", k), NEW i \in DOMAIN c,
           c[i].kind \in EditClient, NEW kind \in {"edit.view", "edit.menu"}, NEW p \in People,
           Redraw(MainIs(c, i, EditClient), i, f, "EditClient.action", kind, p)
    PROVE  Coherent(fsm', chat', k)
  <1> DEFINE d == MainIs(c, i, EditClient)
             state == "EditClient.action"
  <1>1. Stays(CutOff(f), c[i].kind, c[i].shows)
    BY CutOffIs, CalmStays
  <1>2. /\ d \in Chats /\ Fitting(CutOff(f), d) /\ DOMAIN d = DOMAIN c
        /\ d[i].kind = c[i].kind /\ d[i].shows = c[i].shows
    BY <1>1, MainFits
  <1>3. Redraw(d, i, f, state, kind, p)
    OBVIOUS
  <1> HIDE DEF d
  <1>4. Person(c[i].kind, c[i].shows)
    BY DEF Fitting, Fits
  <1>5. /\ To(f, state).state = state /\ Lost(To(f, state)).lost
        /\ Lost(To(f, state)).state = state
    BY WrittenIs, EditClientNames
  <1>6. Own(To(f, state), kind, p)
    BY <1>5, EditOwn
  <1>7. Person(kind, p) /\ kind \notin Confirms /\ kind \in Kinds /\ p \in Shown
    BY EditClientNames DEF Person, Shown
  <1>8. Own(CutOff(f), kind, p)
    BY <1>7, CutOffOwn
  <1>9. Own(Lost(To(f, state)), d[i].kind, d[i].shows)
    <2>1. Edits(Lost(To(f, state)), c[i].kind, c[i].shows)
      BY <1>5 DEF Edits, DayStates, Asked
    <2> QED
      BY <1>2, <1>4, <1>5, <2>1, EditLost
  <1> QED
    BY <1>2, <1>3, <1>6, <1>7, <1>8, <1>9, RedrawEndsCalm, EditClientNames

LEMMA PickClientKeeps ==
    ASSUME IInv, NEW i \in DOMAIN chat, PickClient(i)
    PROVE  Coherent(fsm', chat', consent)
  <1> DEFINE c == [chat EXCEPT ![i].kind = "edit.picked", ![i].tracked = TRUE]
             e == Turned(chat, i, "edit.picked", chat[i].shows)
  <1>1. fsm.state = "EditClient.choosing"
    BY Tapped, EditClientTaps DEF PickClient
  <1>2. chat \in Chats /\ Fitting(fsm, chat) /\ fsm \in Fsms /\ chat[i] \in Messages
    BY TapBasis, ChatDomain
  <1>3. /\ chat[i].shows \in Shown /\ Person("edit.picked", chat[i].shows)
        /\ Own(fsm, "edit.picked", chat[i].shows) /\ Stays(fsm, "edit.picked", chat[i].shows)
    <2>1. chat[i].shows \in Shown
      BY <1>2 DEF Messages
    <2>2. Own(fsm, "edit.picked", chat[i].shows)
      BY <1>1, EditClientOwn
    <2>3. Stays(fsm, "edit.picked", chat[i].shows)
      BY DEF Stays, Edits
    <2> QED
      BY <2>1, <2>2, <2>3, EditClientNames
  <1>4. e \in Chats /\ Fitting(fsm, e)
    BY <1>2, <1>3, TurnedFits, EditClientNames
  <1>5. DOMAIN e = DOMAIN chat /\ e[i].kind = "edit.picked" /\ e[i].shows = chat[i].shows
    <2>1. PICK p \in Shown : p = chat[i].shows
      BY <1>3
    <2>2. "edit.picked" \in Kinds
      BY EditClientNames
    <2> DEFINE d == Turned(chat, i, "edit.picked", p)
    <2>3. DOMAIN d = DOMAIN chat /\ d[i].kind = "edit.picked" /\ d[i].shows = p
      BY <1>2, <2>1, <2>2, TurnedIs
    <2>4. d = e
      BY <2>1
    <2> HIDE DEF d, e
    <2> QED
      BY <2>1, <2>3, <2>4
  <1>6. c = [e EXCEPT ![i].tracked = TRUE]
    <2>1. [[chat[i] EXCEPT !.kind = "edit.picked"] EXCEPT !.shows = chat[i].shows]
              = [chat[i] EXCEPT !.kind = "edit.picked"]
      BY <1>2 DEF Messages
    <2>2. [chat EXCEPT ![i] = [[chat[i] EXCEPT !.kind = "edit.picked"] EXCEPT !.shows = chat[i].shows]]
              = [chat EXCEPT ![i] = [chat[i] EXCEPT !.kind = "edit.picked"]]
      BY <2>1
    <2>3. e = [chat EXCEPT ![i].kind = "edit.picked"]
      BY <1>2, <2>2 DEF Turned, Chats
    <2> QED
      BY <2>3
  <1>7. \/ Refuse(c)
        \/ \E p \in People : Redraw(MainIs(c, i, EditClient), i, Selected(fsm, p),
                                    "EditClient.action", "edit.view", p)
    BY DEF PickClient
  <1> HIDE DEF c, e
  <1>8. /\ c \in Chats /\ Fitting(fsm, c) /\ i \in DOMAIN c /\ c[i].kind = "edit.picked"
    <2>1. c \in Chats /\ Below(c, e) /\ DOMAIN c = DOMAIN e /\ c[i].kind = e[i].kind
      BY <1>4, <1>5, <1>6, TrackedIs
    <2> QED
      BY <1>4, <1>5, <2>1, BelowFits
  <1>9. CASE Refuse(c)
    BY <1>8, <1>9, RefuseEnds
  <1>10. CASE \E p \in People : Redraw(MainIs(c, i, EditClient), i, Selected(fsm, p),
                                       "EditClient.action", "edit.view", p)
    <2>1. PICK p \in People : Redraw(MainIs(c, i, EditClient), i, Selected(fsm, p),
                                     "EditClient.action", "edit.view", p)
      BY <1>10
    <2> DEFINE f == Selected(fsm, p)
    <2>2. /\ f \in Fsms /\ f.state = fsm.state /\ f.keys = fsm.keys /\ f.day = fsm.day
          /\ f.picked = fsm.picked /\ f.who = p /\ f.halted = fsm.halted
      BY <1>2, <2>1, SelectedIs
    <2>3. Redraw(MainIs(c, i, EditClient), i, f, "EditClient.action", "edit.view", p)
      BY <2>1
    <2> HIDE DEF f
    <2>4. p # NoDay
      BY <2>1, ChatConstants
    <2>5. f.halted \/ Carries(f, "EditClient.action", consent)
      BY <1>1, <2>2, <2>4, TapBasis, EditReadiness DEF Data, Carries, FormStates
    <2>6. Fitting(CutOff(f), c)
      <3>1. Agrees(f, fsm)
        BY <2>2 DEF Agrees
      <3> QED
        BY <1>8, <2>2, <3>1, CutOffFits
    <2>7. c[i].kind \in EditClient
      BY <1>8, EditClientKinds DEF EditClient
    <2> QED
      BY <1>8, <2>1, <2>2, <2>3, <2>5, <2>6, <2>7, CardShownKeeps
  <1> QED
    BY <1>7, <1>9, <1>10

LEMMA ViewClientKeeps ==
    ASSUME IInv, NEW i \in DOMAIN chat, ViewClient(i)
    PROVE  Coherent(fsm', chat', consent)
  <1> DEFINE p == chat[i].shows
  <1>1. chat[i].kind = "edit.menu"
    BY Tapped, EditClientTaps DEF ViewClient
  <1>2. chat \in Chats /\ Fitting(fsm, chat) /\ chat[i] \in Messages
    BY TapBasis, ChatDomain
  <1>3. p \in People /\ p \in Shown /\ Person("edit.view", p)
    <2>1. Person("edit.menu", p)
      BY <1>1, <1>2 DEF Fitting, Fits
    <2> QED
      BY <2>1 DEF Person, Shown
  <1>4. ASSUME chat[i].front
        PROVE  Own(fsm, "edit.view", p)
    <2>1. Own(fsm, "edit.menu", p)
      BY <1>1, <1>2, <1>4 DEF Fitting, Fits
    <2>2. CASE fsm.halted
      BY <1>3, <2>2 DEF Own, Asks, Edits, Answers
    <2>3. CASE fsm.state = "EditClient.action"
      BY <1>3, <2>3, EditOwn
    <2>4. CASE ~fsm.halted /\ fsm.state # "EditClient.action"
      <3>1. ~Heard("m:edit_client:edit_name", fsm.state)
        BY <2>4, EditClientTaps
      <3>2. <<"edit.menu", "m:edit_client:edit_name">> \in Keyboards
        BY EditClientKeys
      <3>3. fsm.lost
        BY <2>1, <2>4, <3>1, <3>2 DEF Own, Answers, Works
      <3>4. ~Free("edit.menu")
        BY <3>1, <3>2 DEF Heard, Free
      <3>5. fsm.state # "Settings.edit" /\ fsm.state # "Masters.edit_alias"
        BY <2>1, <2>4, <3>4 DEF Own, Answers
      <3> QED
        BY <1>3, <3>3, <3>5, CardLost
    <2> QED
      BY <2>2, <2>3, <2>4
  <1>5. Stays(fsm, "edit.view", p) /\ Stays(fsm, "client card", NoDay)
    BY DEF Stays, Edits
  <1>6. Own(fsm, "client card", NoDay) /\ NoDay \in Shown /\ Person("client card", NoDay)
    BY FreeOwn, EditClientNames DEF Shown
  <1>7. /\ Turned(chat, i, "edit.view", p) \in Chats
        /\ Fitting(fsm, Turned(chat, i, "edit.view", p))
    BY <1>2, <1>3, <1>4, <1>5, TurnedFits, EditClientNames
  <1>8. /\ Turned(chat, i, "client card", NoDay) \in Chats
        /\ Fitting(fsm, Turned(chat, i, "client card", NoDay))
    BY <1>2, <1>5, <1>6, TurnedFits, EditClientNames
  <1>9. fsm' = fsm /\ chat' \in Chats /\ Fitting(fsm, chat')
    BY <1>2, <1>7, <1>8 DEF ViewClient
  <1> QED
    BY <1>9, TapBasis DEF Coherent

LEMMA ShowEditMenuKeeps ==
    ASSUME NEW f \in Fsms, NEW k, f.halted \/ Carries(f, "EditClient.query", k), NEW c \in Chats,
           \A g \in Fsms : Agrees(g, f) => Fitting(CutOff(g), c),
           NEW i \in DOMAIN c, c[i].kind \in EditClient, NEW p \in People,
           ShowEditMenu(c, i, f, p)
    PROVE  Coherent(fsm', chat', k)
  <1> DEFINE s == Selected(f, p)
             g == Put(s, {"results"})
  <1>1. /\ s \in Fsms /\ s.state = f.state /\ s.keys = f.keys /\ s.day = f.day
        /\ s.picked = f.picked /\ s.who = p /\ s.halted = f.halted
    BY SelectedIs
  <1>2. {"results"} \in SUBSET Keys
    BY DEF Keys
  <1>3. Redraw(MainIs(c, i, EditClient), i, g, "EditClient.action", "edit.menu", p)
    BY DEF ShowEditMenu
  <1> HIDE DEF s
  <1>4. /\ g \in Fsms /\ g.state = f.state /\ g.keys = f.keys \cup {"results"}
        /\ g.day = f.day /\ g.picked = f.picked /\ g.who = p /\ g.halted = f.halted
    BY <1>1, <1>2, PutIs
  <1> HIDE DEF g
  <1>5. p # NoDay
    BY ChatConstants
  <1>6. g.halted \/ Carries(g, "EditClient.action", k)
    BY <1>4, <1>5, EditReadiness DEF Carries, FormStates
  <1>7. Fitting(CutOff(g), c)
    BY <1>4 DEF Agrees
  <1> QED
    BY <1>3, <1>4, <1>6, <1>7, CardShownKeeps

LEMMA EditMenuKeeps ==
    ASSUME IInv, NEW i \in DOMAIN chat, EditMenu(i)
    PROVE  Coherent(fsm', chat', consent)
  <1>1. chat[i].kind \in {"edit.view", "edit.input"}
    <2>1. On(i, "m:edit_client:edit_menu")
      BY DEF EditMenu
    <2>2. <<chat[i].kind, "m:edit_client:edit_menu">> \in Keyboards
      BY <2>1, Tapped
    <2> QED
      BY <2>2, EditClientTaps
  <1>2. chat[i].shows \in People
    <2>1. Person(chat[i].kind, chat[i].shows)
      BY TapBasis DEF Fitting, Fits
    <2> QED
      BY <1>1, <2>1 DEF Person
  <1>3. CASE Refuse(chat)
    BY <1>3, TapBasis, RefuseEnds
  <1>4. CASE ShowEditMenu(chat, i, fsm, chat[i].shows)
    <2>1. \A g \in Fsms : Agrees(g, fsm) => Fitting(CutOff(g), chat)
      BY TapBasis, CutOffFits
    <2>2. chat[i].kind \in EditClient
      BY <1>1, EditClientKinds DEF EditClient
    <2>3. fsm.halted \/ Carries(fsm, "EditClient.query", consent)
      BY TapBasis, EditReadiness DEF Data, Carries, FormStates
    <2>4. PICK p \in People : p = chat[i].shows
      BY <1>2
    <2>5. ShowEditMenu(chat, i, fsm, p)
      BY <1>4, <2>4
    <2> QED
      BY <2>1, <2>2, <2>3, <2>5, TapBasis, ShowEditMenuKeeps
  <1> QED
    BY <1>3, <1>4 DEF EditMenu

LEMMA OpenClientDirectKeeps ==
    ASSUME IInv, NEW i \in DOMAIN chat, OpenClientDirect(i)
    PROVE  Coherent(fsm', chat', consent)
  <1> DEFINE C == Swept({chat}, EditBuckets)
  <1>1. \A c \in C : c \in Chats /\ Fitting(fsm, c) /\ Decent(c)
    BY EditSwept
  <1>2. \A c \in {chat} \cup C : c \in Chats /\ Fitting(fsm, c)
    BY <1>1, TapBasis
  <1>3. chat[i].kind = "client card"
    <2>1. <<chat[i].kind, "m:edit_client:open">> \in Keyboards
      BY Tapped DEF OpenClientDirect
    <2> QED
      BY <2>1, EditClientTaps
  <1>4. \/ CutShort(fsm) /\ chat' \in {chat} \cup C
        \/ fsm' = Blank /\ chat' \in {Cleared(c) : c \in C}
        \/ \E d \in C : \E j \in Still(Cleared(d), i), p \in People :
              ShowEditMenu(Cleared(d), j, Blank, p)
    BY DEF OpenClientDirect
  <1> HIDE DEF C
  <1>5. CASE CutShort(fsm) /\ chat' \in {chat} \cup C
    BY <1>2, <1>5, TapBasis, SameAgrees, CutShortIn
  <1>6. CASE fsm' = Blank /\ chat' \in {Cleared(c) : c \in C}
    BY <1>1, <1>6, ClearedEnds
  <1>7. CASE \E d \in C : \E j \in Still(Cleared(d), i), p \in People :
                ShowEditMenu(Cleared(d), j, Blank, p)
    <2>1. PICK d \in C : \E j \in Still(Cleared(d), i), p \in People :
                            ShowEditMenu(Cleared(d), j, Blank, p)
      BY <1>7
    <2> DEFINE c == Cleared(d)
    <2>2. c \in Chats /\ Idle(c)
      BY <1>1, <2>1, ClearedIdle
    <2>3. \E j \in Still(c, i), p \in People : ShowEditMenu(c, j, Blank, p)
      BY <2>1
    <2> HIDE DEF c
    <2>4. PICK j \in Still(c, i) : \E p \in People : ShowEditMenu(c, j, Blank, p)
      BY <2>3
    <2>5. PICK p \in People : ShowEditMenu(c, j, Blank, p)
      BY <2>4
    <2>6. j \in DOMAIN c /\ c[j].kind = "client card"
      <3>1. j \in DOMAIN c /\ c[j] = Cleared(chat)[i]
        BY <2>4 DEF Still
      <3>2. Cleared(chat)[i].kind = chat[i].kind
        BY TapBasis, ClearedIs
      <3> QED
        BY <1>3, <3>1, <3>2
    <2>7. c[j].kind \in EditClient
      BY <2>6 DEF EditClient
    <2>8. \A g \in Fsms : Agrees(g, Blank) => Fitting(CutOff(g), c)
      BY <2>2, IdleFits
    <2>9. Blank \in Fsms /\ Carries(Blank, "EditClient.query", consent)
      BY BlankIs, EditReadiness DEF Carries, FormStates
    <2> QED
      BY <2>2, <2>5, <2>6, <2>7, <2>8, <2>9, ShowEditMenuKeeps
  <1> QED
    BY <1>4, <1>5, <1>6, <1>7

LEMMA BookFromViewKeeps ==
    ASSUME IInv, NEW i \in DOMAIN chat, BookFromView(i)
    PROVE  Coherent(fsm', chat', consent)
  <1>1. chat[i].kind = "edit.view"
    <2>1. <<chat[i].kind, "m:edit_client:book">> \in Keyboards
      BY Tapped DEF BookFromView
    <2> QED
      BY <2>1, EditClientTaps
  <1>2. CASE Refuse(chat)
    BY <1>2, TapBasis, RefuseEnds
  <1>3. CASE Redraw(Cleared(chat), i, Put(Blank, {"master_id", "client"}),
                    "AddBooking.selecting_date", "add.calendar", NoDay)
    <2> DEFINE keys == {"master_id", "client"}
    <2>1. /\ keys \in SUBSET Keys /\ "master_id" \in keys /\ "client" \in keys
          /\ "clients" \notin keys /\ "confirm_in_progress" \notin keys
      BY DEF Keys
    <2>2. Redraw(Cleared(chat), i, Put(Blank, keys), "AddBooking.selecting_date",
                 "add.calendar", NoDay)
      BY <1>3
    <2> HIDE DEF keys
    <2> QED
      BY <1>1, <2>1, <2>2, BookFromCardOfKeeps
  <1> QED
    BY <1>2, <1>3 DEF BookFromView

\* What was the data's main message is none of a field's questions any more, or is one for
\* the client selected
LEMMA AskFieldKeeps ==
    ASSUME IInv, NEW i \in DOMAIN chat, NEW button, NEW state \in Asked,
           <<chat[i].kind, button>> \in Keyboards => chat[i].kind = "edit.menu",
           Heard(button, fsm.state) => fsm.state = "EditClient.action",
           AskField(i, button, state)
    PROVE  Coherent(fsm', chat', consent)
  <1> DEFINE c == MainIs(chat, i, EditClient)
  <1>1. chat[i].kind = "edit.menu"
    <2>1. <<chat[i].kind, button>> \in Keyboards
      BY Tapped DEF AskField
    <2> QED
      BY <2>1
  <1>2. /\ chat \in Chats /\ Fitting(fsm, chat) /\ fsm \in Fsms
        /\ Stays(fsm, chat[i].kind, chat[i].shows)
    <2>1. Stays(fsm, chat[i].kind, chat[i].shows)
      BY <1>1 DEF Stays, Edits
    <2> QED
      BY <2>1, TapBasis
  <1>3. /\ c \in Chats /\ Fitting(fsm, c) /\ DOMAIN c = DOMAIN chat
        /\ c[i].kind = "edit.menu" /\ c[i].shows = chat[i].shows
        /\ \A n \in DOMAIN chat \ {i} : c[n].main => c[n].kind \notin EditClient
    <2>1. /\ c \in Chats /\ Fitting(fsm, c) /\ DOMAIN c = DOMAIN chat
          /\ \A n \in DOMAIN chat : c[n].kind = chat[n].kind /\ c[n].shows = chat[n].shows
          /\ \A n \in DOMAIN chat \ {i} :
                c[n].main => chat[n].main /\ chat[n].kind \notin EditClient
      BY <1>2, MainFits
    <2> HIDE DEF c
    <2> QED
      BY <1>1, <2>1
  <1>4. \/ Forget
        \/ Refuse(c)
        \/ fsm.who # NoDay /\ Redraw(c, i, fsm, state, "edit.input", fsm.who)
    BY DEF AskField
  <1> HIDE DEF c
  <1>5. CASE Forget
    BY <1>5, ForgetEnds
  <1>6. CASE Refuse(c)
    BY <1>3, <1>6, RefuseEnds
  <1>7. CASE fsm.who # NoDay /\ Redraw(c, i, fsm, state, "edit.input", fsm.who)
    <2>1. PICK p \in People : p = fsm.who
      BY <1>2, <1>7 DEF Fsms
    <2>2. Redraw(c, i, fsm, state, "edit.input", p)
      BY <1>7, <2>1
    <2>3. state \in States
      BY EditClientNames DEF Asked
    <2>4. fsm.halted \/ Carries(fsm, state, consent)
      BY <1>2, <1>7, TapBasis, EditReadiness DEF Data, Carries, FormStates, Asked
    <2>5. /\ To(fsm, state).state = state /\ To(fsm, state).who = p
          /\ Lost(To(fsm, state)).lost /\ Lost(To(fsm, state)).state = state
      BY <1>2, <2>1, <2>3, WrittenIs
    <2>6. Own(To(fsm, state), "edit.input", p)
      BY <2>5, EditOwn
    <2>7. Person("edit.input", p) /\ p \in Shown
      BY DEF Person, Shown
    <2>8. Own(CutOff(fsm), "edit.input", p)
      BY <1>2, <2>7, CutOffOwn, EditClientNames
    <2>9. Own(Lost(To(fsm, state)), c[i].kind, c[i].shows)
      <3>1. Person(c[i].kind, c[i].shows)
        BY <1>3 DEF Fitting, Fits
      <3>2. Edits(Lost(To(fsm, state)), c[i].kind, c[i].shows)
        BY <1>3 DEF Edits
      <3>3. c[i].kind \in EditClient
        BY <1>3, EditClientKinds DEF EditClient
      <3> QED
        BY <2>5, <3>1, <3>2, <3>3, EditLost
    <2>10. Stays(To(fsm, state), "edit.input", p)
      BY <2>5 DEF Stays, Edits, Asked, DayStates
    <2>11. ASSUME NEW n \in DOMAIN c, c[n].main
           PROVE  Stays(To(fsm, state), c[n].kind, c[n].shows)
      <3>1. c[n].kind # "edit.input"
        BY <1>1, <1>3, <2>11, EditClientKinds DEF EditClient
      <3> QED
        BY <2>5, <3>1 DEF Stays, Edits, Asked, DayStates
    <2>12. Fitting(CutOff(fsm), c)
      BY <1>3, AgreesItself
    <2> QED
      BY <1>2, <1>3, <2>2, <2>3, <2>4, <2>6, <2>7, <2>8, <2>9, <2>10, <2>11, <2>12, RedrawEnds,
         EditClientNames
  <1> QED
    BY <1>4, <1>5, <1>6, <1>7

LEMMA StartEditFieldKeeps ==
    ASSUME IInv, NEW i \in DOMAIN chat, StartEditField(i)
    PROVE  Coherent(fsm', chat', consent)
  <1>1. CASE AskField(i, "m:edit_client:edit_name", "EditClient.edit_name")
    BY <1>1, AskFieldKeeps, EditClientTaps DEF Asked
  <1>2. CASE AskField(i, "m:edit_client:edit_phone", "EditClient.edit_phone")
    BY <1>2, AskFieldKeeps, EditClientTaps DEF Asked
  <1> QED
    BY <1>1, <1>2 DEF StartEditField

\* The main message is drawn for the client selected, in a state of his editing
LEMMA EditFieldKeeps ==
    ASSUME IInv, fsm.state \in Asked, fsm.who # NoDay, NEW c \in Chats, Fitting(fsm, c),
           NEW state, NEW kind,
           \/ state = fsm.state /\ kind = "edit.input"
           \/ state = "EditClient.action" /\ kind = "edit.menu",
           EditMain(c, EditClient, fsm, state, kind, fsm.who)
    PROVE  Coherent(fsm', chat', consent)
  <1>1. fsm \in Fsms /\ Data(fsm, consent)
    BY TapBasis
  <1>2. PICK p \in People : p = fsm.who
    BY <1>1 DEF Fsms
  <1>3. EditMain(c, EditClient, fsm, state, kind, p)
    BY <1>2
  <1>4. state \in States /\ state \in Asked \cup {"EditClient.action"}
    BY EditClientNames DEF Asked
  <1>5. fsm.halted \/ Carries(fsm, state, consent)
    BY <1>1, EditReadiness DEF Data, Carries, FormStates, Asked
  <1>6. /\ To(fsm, state).state = state /\ To(fsm, state).who = p
        /\ Lost(To(fsm, state)).lost /\ Lost(To(fsm, state)).state = state
        /\ Lost(To(fsm, state)).who = p /\ To(fsm, state).halted = fsm.halted
        /\ Lost(To(fsm, state)).halted = fsm.halted
    BY <1>1, <1>2, <1>4, WrittenIs
  <1>7. Own(To(fsm, state), kind, p)
    BY <1>6, EditOwn
  <1>8. Person(kind, p) /\ p \in Shown /\ kind \in Kinds /\ kind \notin Confirms
    BY EditClientNames DEF Person, Shown
  <1>9. Own(CutOff(fsm), kind, p)
    BY <1>1, <1>8, CutOffOwn
  <1>10. Stays(To(fsm, state), kind, p)
    BY <1>4, <1>6 DEF Stays, Edits, Asked, DayStates
  <1>11. ASSUME NEW n \in DOMAIN c, c[n].main
         PROVE  /\ Stays(To(fsm, state), c[n].kind, c[n].shows)
                /\ Edits(Lost(To(fsm, state)), c[n].kind, c[n].shows)
    <2>1. Edits(fsm, c[n].kind, c[n].shows)
      BY <1>11 DEF Fitting, Fits, Stays
    <2>2. fsm.halted \/ (c[n].kind = "edit.input" => c[n].shows = p)
      BY <1>2, <2>1 DEF Edits
    <2> QED
      BY <1>4, <1>6, <2>2 DEF Stays, Edits, Asked, DayStates
  <1>12. ASSUME NEW n \in Main(c, EditClient)
         PROVE  Own(Lost(To(fsm, state)), c[n].kind, c[n].shows)
    <2>1. n \in DOMAIN c /\ c[n].main /\ c[n].kind \in EditClient
      BY <1>12 DEF Main
    <2>2. Person(c[n].kind, c[n].shows)
      BY <2>1 DEF Fitting, Fits
    <2> QED
      BY <1>4, <1>6, <1>11, <2>1, <2>2, EditLost
  <1>13. Fitting(CutOff(fsm), c)
    BY AgreesItself
  <1> QED
    BY <1>1, <1>3, <1>4, <1>5, <1>7, <1>8, <1>9, <1>10, <1>11, <1>12, <1>13, EditMainEnds

LEMMA ReadFieldRefusedKeeps ==
    ASSUME IInv, ReadFieldRefused
    PROVE  Coherent(fsm', chat', consent)
  <1> DEFINE C == Swept({chat}, SearchBucket)
  <1>1. \A c \in C : c \in Chats /\ Fitting(fsm, c) /\ Decent(c)
    BY EditSwept
  <1>2. \A c \in {chat} \cup C : c \in Chats /\ Fitting(fsm, c)
    BY <1>1, TapBasis
  <1>3. fsm.state \in Asked
    BY DEF ReadFieldRefused
  <1>4. \/ Forget
        \/ fsm.who # NoDay /\ \E c \in {chat} \cup C :
              EditMain(c, EditClient, fsm, fsm.state, "edit.input", fsm.who)
        \/ fsm' = Blank /\ chat' \in {Cleared(c) : c \in C}
        \/ chat' \in C /\ UNCHANGED fsm
    BY DEF ReadFieldRefused
  <1> HIDE DEF C
  <1>5. CASE Forget
    BY <1>5, ForgetEnds
  <1>6. CASE fsm.who # NoDay /\ \E c \in {chat} \cup C :
                EditMain(c, EditClient, fsm, fsm.state, "edit.input", fsm.who)
    BY <1>2, <1>3, <1>6, EditFieldKeeps
  <1>7. CASE fsm' = Blank /\ chat' \in {Cleared(c) : c \in C}
    BY <1>1, <1>7, ClearedEnds
  <1>8. CASE chat' \in C /\ UNCHANGED fsm
    BY <1>1, <1>8, RefuseEnds DEF Refuse
  <1> QED
    BY <1>4, <1>5, <1>6, <1>7, <1>8

LEMMA SaveFieldKeeps ==
    ASSUME IInv, SaveField
    PROVE  Coherent(fsm', chat', consent)
  <1>1. PICK c \in Swept({chat}, SearchBucket) :
            EditMain(c, EditClient, fsm, "EditClient.action", "edit.menu", fsm.who)
    BY DEF SaveField
  <1>2. c \in Chats /\ Fitting(fsm, c)
    BY <1>1, EditSwept
  <1> QED
    BY <1>1, <1>2, EditFieldKeeps DEF SaveField

LEMMA CancelEditKeeps ==
    ASSUME IInv, NEW i \in DOMAIN chat, CancelEdit(i)
    PROVE  Coherent(fsm', chat', consent)
  <1> DEFINE C == Swept({chat}, EditBuckets)
  <1>1. \A c \in C : c \in Chats /\ Fitting(fsm, c) /\ Decent(c)
    BY EditSwept
  <1>2. \A c \in {chat} \cup C : c \in Chats /\ Fitting(fsm, c)
    BY <1>1, TapBasis
  <1>3. \/ CutShort(fsm) /\ chat' \in {chat} \cup C
        \/ fsm' = Blank /\ chat' \in {Cleared(c) : c \in C}
    BY DEF CancelEdit
  <1> HIDE DEF C
  <1>4. CASE CutShort(fsm) /\ chat' \in {chat} \cup C
    BY <1>2, <1>4, TapBasis, SameAgrees, CutShortIn
  <1>5. CASE fsm' = Blank /\ chat' \in {Cleared(c) : c \in C}
    BY <1>1, <1>5, ClearedEnds
  <1> QED
    BY <1>3, <1>4, <1>5

-----------------------------------------------------------------------------
(* The settings, and a master's name.                                      *)

\* A handler of no dialog sends a message
LEMMA AppendedFits ==
    ASSUME NEW f, NEW c \in Chats, Fitting(f, c), NEW m \in Messages, Fits(f, m),
           ~m.front \/ \A n \in DOMAIN c : ~c[n].front
    PROVE  Appended(c, m) \in Chats /\ Fitting(f, Appended(c, m))
  <1> DEFINE d == Appended(c, m)
  <1>1. d \in Chats /\ \A n \in DOMAIN d : d[n] = m \/ \E k \in DOMAIN c : d[n] = c[k]
    BY AppendedIs
  <1> HIDE DEF d
  <1>2. Fitting(f, d)
    BY <1>1 DEF Fitting
  <1> QED
    BY <1>1, <1>2 DEF d

LEMMA WithSettingsFits ==
    ASSUME NEW f, NEW c \in Chats, Decent(c),
           \A n \in DOMAIN c : c[n].main => Stays(f, c[n].kind, c[n].shows)
    PROVE  WithSettings(c) \in Chats /\ Fitting(f, WithSettings(c))
  <1> DEFINE d == Faded(c)
             m == Screen("settings", NoDay, FALSE)
  <1>1. d \in Chats /\ Fitting(f, d) /\ \A n \in DOMAIN d : ~d[n].front
    BY FadedFits, FadedIs DEF Faint
  <1>2. /\ m \in Messages /\ m.kind = "settings" /\ m.shows = NoDay /\ ~m.main
    BY OtherNames DEF Screen, Messages, Shown
  <1> HIDE DEF m
  <1>3. Fits(f, m)
    BY <1>2, FreeOwn, OtherNames DEF Fits
  <1>4. WithSettings(c) = Appended(d, m)
    BY DEF WithSettings, m
  <1> HIDE DEF d
  <1> QED
    BY <1>1, <1>2, <1>3, <1>4, AppendedFits

LEMMA WithoutSettingsBelow ==
    ASSUME NEW c \in Chats, NEW d \in WithoutSettings(c)
    PROVE  d \in Chats /\ Below(d, c)
  <1>1. SettingsIn(c) \subseteq DOMAIN c
    BY DEF SettingsIn
  <1> QED
    BY <1>1, BelowSame, RemovedIs DEF WithoutSettings

LEMMA MainDrawnFits ==
    ASSUME NEW f, NEW C, \A c \in C : c \in Chats /\ Fitting(f, c),
           NEW kind \in {"settings", "settings.prompt"}, NEW d \in MainDrawn(C, kind)
    PROVE  d \in Chats /\ Fitting(f, d)
  <1>1. CASE d \in C
    BY <1>1
  <1>2. CASE \E c \in C : \E i \in SettingsIn(c) : d = Drawn(c, i, kind, NoDay)
    <2>1. PICK c \in C : \E i \in SettingsIn(c) : d = Drawn(c, i, kind, NoDay)
      BY <1>2
    <2>2. PICK i \in SettingsIn(c) : d = Drawn(c, i, kind, NoDay)
      BY <2>1
    <2>3. i \in DOMAIN c
      BY <2>2 DEF SettingsIn
    <2>4. /\ c \in Chats /\ Decent(c)
          /\ \A n \in DOMAIN c : c[n].main => Stays(f, c[n].kind, c[n].shows)
      BY <2>1, FittingDecent DEF Fitting, Fits
    <2>5. Own(f, kind, NoDay) /\ Stays(f, kind, NoDay) /\ kind \in Kinds /\ NoDay \in Shown
      BY FreeOwn, OtherNames DEF Stays, Edits, Shown
    <2> QED
      BY <2>2, <2>3, <2>4, <2>5, DrawnFits
  <1> QED
    BY <1>1, <1>2 DEF MainDrawn

\* No message whose buttons are heard in every state is stuck
LEMMA StuckIsBound ==
    ASSUME NEW kind \in Stuck
    PROVE  ~Free(kind)
  <1>1. /\ <<"book.confirm", "book:confirm">> \in Keyboards
        /\ <<"mreg.consent", "m:pd:agree">> \in Keyboards
        /\ <<"creg.consent", "c:pd:agree">> \in Keyboards
        /\ <<"creg.declined", "c:pd:back">> \in Keyboards
    BY ClientBookingKeys, MasterRegistrationKeys, ClientRegistrationKeys
  <1>2. /\ <<"book:confirm", "ClientBooking.confirm">> \in Filters
        /\ <<"m:pd:agree", "MasterRegistration.consent">> \in Filters
        /\ <<"c:pd:agree", "ClientRegistration.consent">> \in Filters
        /\ <<"c:pd:back", "ClientRegistration.consent_declined">> \in Filters
    BY DEF Filters, ClientBookingFilters, MasterRegistrationFilters, ClientRegistrationFilters
  <1> QED
    BY <1>1, <1>2 DEF Free, Stuck

\* The dialogs that are left by typing: their messages' buttons are heard afterwards too
LEMMA SettledFits ==
    ASSUME NEW g, g.state \in {"Settings.edit", "Masters.edit_alias"},
           NEW f, f.state = "none", f.halted = g.halted, NEW c, Fitting(g, c)
    PROVE  Fitting(f, c)
  <1>1. \A kind, shows : Stays(f, kind, shows)
    BY CalmStays DEF EditingStates, DayStates, Asked
  <1>2. ASSUME NEW kind, NEW shows, Own(g, kind, shows)
        PROVE  Own(f, kind, shows)
    <2>1. Person(kind, shows) /\ Asks(f, kind, shows) /\ Edits(f, kind, shows)
      BY <1>2 DEF Own, Asks, Edits, DayStates, Asked
    <2>2. CASE g.halted
      BY <2>1, <2>2 DEF Own, Answers
    <2>3. CASE ~g.halted
      <3>1. Answers(g, kind)
        BY <1>2 DEF Own
      <3>2. Free(kind)
        BY <2>3, <3>1 DEF Answers
      <3>3. \A b, s : <<kind, b>> \in Keyboards => Heard(b, s)
        BY <3>2 DEF Free, Heard
      <3>4. kind \notin Stuck
        BY <3>2, StuckIsBound
      <3>5. kind \in {"paywall", "bare"} \/ Away(kind, g.state)
        BY <2>3, <3>1, <3>4 DEF Answers
      <3>6. Works(kind, f.state) /\ (kind \in {"paywall", "bare"} \/ Away(kind, f.state))
        BY <3>3, <3>5 DEF Works, Away
      <3> QED
        BY <2>1, <3>6 DEF Own, Answers
    <2> QED
      BY <2>2, <2>3
  <1> QED
    BY <1>1, <1>2 DEF Fitting, Fits

LEMMA SettledData ==
    ASSUME IInv
    PROVE  /\ To(fsm, "none") \in Fsms /\ To(fsm, "none").state = "none"
           /\ To(fsm, "none").halted = fsm.halted
           /\ CutOff(fsm) \in Fsms /\ CutOff(fsm).halted
           /\ To(fsm, "Settings.edit") \in Fsms
           /\ To(fsm, "Settings.edit").state = "Settings.edit"
           /\ Data(To(fsm, "none"), consent) /\ Data(To(fsm, "Settings.edit"), consent)
           /\ Data(CutOff(fsm), consent)
  <1>1. fsm \in Fsms /\ "none" \in States /\ "Settings.edit" \in States
    BY TapBasis, OtherNames
  <1>2. \/ fsm.halted
        \/ Carries(fsm, "none", consent) /\ Carries(fsm, "Settings.edit", consent)
    BY <1>1, TapBasis, EditReadiness DEF Data, Carries, FormStates
  <1>3. /\ Data(To(fsm, "none"), consent) /\ Data(To(fsm, "Settings.edit"), consent)
        /\ Data(CutOff(fsm), consent)
    BY <1>1, <1>2, DataWritten
  <1>4. /\ To(fsm, "none") \in Fsms /\ To(fsm, "none").state = "none"
        /\ To(fsm, "none").halted = fsm.halted
    BY <1>1, ToIs
  <1>5. To(fsm, "Settings.edit") \in Fsms /\ To(fsm, "Settings.edit").state = "Settings.edit"
    BY <1>1, ToIs
  <1>6. CutOff(fsm) \in Fsms /\ CutOff(fsm).halted
    BY <1>1, CutOffIs
  <1> QED
    BY <1>3, <1>4, <1>5, <1>6

\* A chat none of whose messages is the dialog's own any more
LEMMA FadedSettled ==
    ASSUME IInv, NEW c \in Chats, Decent(c)
    PROVE  /\ Faded(c) \in Chats
           /\ Fitting(To(fsm, "none"), Faded(c)) /\ Fitting(CutOff(fsm), Faded(c))
  <1>1. \A kind, shows : Stays(To(fsm, "none"), kind, shows) /\ Stays(CutOff(fsm), kind, shows)
    BY SettledData, CalmStays DEF EditingStates, DayStates, Asked
  <1> QED
    BY <1>1, FadedFits

LEMMA LeaveSettingsKeeps ==
    ASSUME IInv, NEW C,
           \A c \in C : /\ c \in Chats
                        /\ Fitting(To(fsm, "none"), c) /\ Fitting(CutOff(fsm), c),
           LeaveSettings(C)
    PROVE  Coherent(fsm', chat', consent)
  <1>1. PICK g \in {To(fsm, "none"), CutOff(fsm)} : fsm' = g
    BY DEF LeaveSettings, CutShort, CutOff
  <1>2. g \in Fsms /\ Data(g, consent)
    BY SettledData
  <1>3. \A c \in C : c \in Chats /\ Fitting(g, c)
    OBVIOUS
  <1>4. CASE chat' \in MainDrawn(C, "settings")
    <2>1. PICK d \in MainDrawn(C, "settings") : chat' = d
      BY <1>4
    <2>2. d \in Chats /\ Fitting(g, d)
      BY <1>3, MainDrawnFits
    <2> QED
      BY <1>1, <1>2, <2>1, <2>2 DEF Coherent
  <1>5. CASE \E c \in C : chat' = WithSettings(c)
    <2>1. PICK c \in C : chat' = WithSettings(c)
      BY <1>5
    <2>2. /\ c \in Chats /\ Decent(c)
          /\ \A n \in DOMAIN c : c[n].main => Stays(g, c[n].kind, c[n].shows)
      BY <1>3, <2>1, FittingDecent DEF Fitting, Fits
    <2>3. WithSettings(c) \in Chats /\ Fitting(g, WithSettings(c))
      BY <2>2, WithSettingsFits
    <2> QED
      BY <1>1, <1>2, <2>1, <2>3 DEF Coherent
  <1> QED
    BY <1>4, <1>5 DEF LeaveSettings

LEMMA OpenSettingsKeeps ==
    ASSUME IInv, OpenSettings
    PROVE  Coherent(fsm', chat', consent)
  <1>1. \A c \in Swept({chat}, {"settings"}) : c \in Chats /\ Fitting(fsm, c) /\ Decent(c)
    BY EditSwept
  <1>2. CASE fsm' = Blank /\ chat' \in {Cleared(chat), WithSettings(Cleared(chat))}
    <2> DEFINE c == Cleared(chat)
    <2>1. c \in Chats /\ Idle(c)
      BY TapBasis
    <2>2. Fitting(Blank, c) /\ Decent(c) /\ \A n \in DOMAIN c : ~c[n].main
      BY <2>1, IdleFits DEF Idle, Decent
    <2> HIDE DEF c
    <2>3. WithSettings(c) \in Chats /\ Fitting(Blank, WithSettings(c))
      BY <2>1, <2>2, WithSettingsFits
    <2>4. chat' \in Chats /\ Fitting(Blank, chat')
      BY <1>2, <2>1, <2>2, <2>3 DEF c
    <2> QED
      BY <1>2, <2>4, BlankIs, BlankData DEF Coherent
  <1>3. CASE /\ fsm' = To(fsm, "none")
             /\ \E c \in Swept({chat}, {"settings"}) :
                   chat' \in {WithSettings(d) : d \in WithoutSettings(c)}
    <2>1. PICK c \in Swept({chat}, {"settings"}) :
              chat' \in {WithSettings(d) : d \in WithoutSettings(c)}
      BY <1>3
    <2>2. PICK d \in WithoutSettings(c) : chat' = WithSettings(d)
      BY <2>1
    <2>3. d \in Chats /\ Decent(d)
      BY <1>1, <2>1, <2>2, WithoutSettingsBelow, BelowDecent
    <2>4. \A kind, shows : Stays(To(fsm, "none"), kind, shows)
      BY SettledData, CalmStays DEF EditingStates, DayStates, Asked
    <2>5. WithSettings(d) \in Chats /\ Fitting(To(fsm, "none"), WithSettings(d))
      BY <2>3, <2>4, WithSettingsFits
    <2> QED
      BY <1>3, <2>2, <2>5, SettledData DEF Coherent
  <1>4. CASE CutShort(To(fsm, "none")) /\ chat' \in Swept({chat}, {"settings"})
    <2>1. PICK c \in Swept({chat}, {"settings"}) : chat' = c
      BY <1>4
    <2>2. c \in Chats /\ Fitting(CutOff(To(fsm, "none")), c)
      BY <1>1, <2>1, SettledData, CutOffCalm
    <2> QED
      BY <1>4, <2>1, <2>2, SettledData, CutShortEnds
  <1> QED
    BY <1>2, <1>3, <1>4 DEF OpenSettings

\* A page in the place of the message, or nothing
LEMMA TurnedKeeps ==
    ASSUME IInv, NEW kind \in {"settings", "master card"}, UNCHANGED fsm,
           chat' = chat \/ \E m \in DOMAIN chat : chat' = Turned(chat, m, kind, NoDay)
    PROVE  Coherent(fsm', chat', consent)
  <1>1. chat \in Chats /\ Fitting(fsm, chat)
    BY TapBasis
  <1>2. CASE chat' = chat
    BY <1>1, <1>2, RefuseEnds DEF Refuse
  <1>3. CASE \E m \in DOMAIN chat : chat' = Turned(chat, m, kind, NoDay)
    <2>1. PICK m \in DOMAIN chat : chat' = Turned(chat, m, kind, NoDay)
      BY <1>3
    <2>2. /\ Own(fsm, kind, NoDay) /\ Stays(fsm, kind, NoDay) /\ kind \in Kinds
          /\ NoDay \in Shown /\ Person(kind, NoDay)
      BY FreeOwn, OtherNames DEF Stays, Edits, Shown
    <2>3. Turned(chat, m, kind, NoDay) \in Chats /\ Fitting(fsm, Turned(chat, m, kind, NoDay))
      BY <1>1, <2>2, TurnedFits
    <2> QED
      BY <2>1, <2>3, RefuseEnds DEF Refuse
  <1> QED
    BY <1>2, <1>3

LEMMA TurnSettingsKeeps ==
    ASSUME IInv, NEW i \in DOMAIN chat, TurnSettings(i)
    PROVE  Coherent(fsm', chat', consent)
  <1>1. SettingsIn(chat) \subseteq DOMAIN chat
    BY DEF SettingsIn
  <1> QED
    BY <1>1, TurnedKeeps, ForgetEnds DEF TurnSettings

LEMMA EditSettingKeeps ==
    ASSUME IInv, NEW i \in DOMAIN chat, EditSetting(i)
    PROVE  Coherent(fsm', chat', consent)
  <1> DEFINE f == To(fsm, "Settings.edit")
  <1>1. chat \in Chats /\ Decent(chat) /\ f \in Fsms /\ f.state = "Settings.edit" /\ Data(f,
        consent)
    BY TapBasis, SettledData
  <1>2. \/ Forget
        \/ fsm' = f /\ chat' = Drawn(chat, i, "settings.prompt", NoDay)
        \/ fsm' = f /\ chat' = Sent(chat, "settings.prompt", NoDay)
        \/ CutShort(fsm) /\ chat' = chat
        \/ CutShort(f) /\ chat' = chat
    BY DEF EditSetting
  <1> HIDE DEF f
  <1>3. \A kind, shows : Stays(f, kind, shows)
    BY <1>1, CalmStays DEF EditingStates, DayStates, Asked
  <1>4. Own(f, "settings.prompt", NoDay) /\ "settings.prompt" \in Kinds /\ NoDay \in Shown
    BY FreeOwn, OtherNames DEF Shown
  <1>5. CASE Forget
    BY <1>5, ForgetEnds
  <1>6. CASE fsm' = f /\ chat' = Drawn(chat, i, "settings.prompt", NoDay)
    <2>1. /\ Drawn(chat, i, "settings.prompt", NoDay) \in Chats
          /\ Fitting(f, Drawn(chat, i, "settings.prompt", NoDay))
      BY <1>1, <1>3, <1>4, DrawnFits
    <2> QED
      BY <1>1, <1>6, <2>1 DEF Coherent
  <1>7. CASE fsm' = f /\ chat' = Sent(chat, "settings.prompt", NoDay)
    <2>1. /\ Sent(chat, "settings.prompt", NoDay) \in Chats
          /\ Fitting(f, Sent(chat, "settings.prompt", NoDay))
      BY <1>1, <1>3, <1>4, SentFits
    <2> QED
      BY <1>1, <1>7, <2>1 DEF Coherent
  <1>8. CASE CutShort(fsm) /\ chat' = chat
    BY <1>8, TapBasis, AgreesItself, CutShortEnds
  <1>9. CASE CutShort(f) /\ chat' = chat
    <2>1. Fitting(CutOff(f), chat)
      BY <1>1, CutOffCalm
    <2> QED
      BY <1>1, <1>9, <2>1, CutShortEnds
  <1> QED
    BY <1>2, <1>5, <1>6, <1>7, <1>8, <1>9

LEMMA SettingRefusedKeeps ==
    ASSUME IInv, SettingRefused
    PROVE  Coherent(fsm', chat', consent)
  <1>1. chat \in Chats /\ Fitting(fsm, chat)
    BY TapBasis
  <1>2. CASE Refuse(chat)
    BY <1>1, <1>2, RefuseEnds
  <1>3. CASE UNCHANGED fsm /\ chat' \in MainDrawn({chat}, "settings.prompt")
    <2>1. PICK d \in MainDrawn({chat}, "settings.prompt") : chat' = d
      BY <1>3
    <2>2. d \in Chats /\ Fitting(fsm, d)
      BY <1>1, MainDrawnFits
    <2> QED
      BY <1>3, <2>1, <2>2, RefuseEnds DEF Refuse
  <1>4. CASE Forget
    BY <1>4, ForgetEnds
  <1> QED
    BY <1>2, <1>3, <1>4 DEF SettingRefused

LEMMA SaveSettingKeeps ==
    ASSUME IInv, SaveSetting
    PROVE  Coherent(fsm', chat', consent)
  <1> DEFINE C == Swept({chat}, {"settings"})
  <1>1. fsm.state = "Settings.edit" /\ LeaveSettings(C)
    BY DEF SaveSetting
  <1>2. \A c \in C : c \in Chats /\ Fitting(fsm, c)
    BY EditSwept
  <1> HIDE DEF C
  <1>3. \A c \in C : Fitting(To(fsm, "none"), c) /\ Fitting(CutOff(fsm), c)
    BY <1>1, <1>2, SettledData, SettledFits, AgreesItself
  <1> QED
    BY <1>1, <1>2, <1>3, LeaveSettingsKeeps

LEMMA KeepSettingKeeps ==
    ASSUME IInv, NEW i \in DOMAIN chat, KeepSetting(i)
    PROVE  Coherent(fsm', chat', consent)
  <1> DEFINE C == {Faded(c) : c \in Swept({chat}, {"settings"})}
  <1>1. \A c \in Swept({chat}, {"settings"}) : c \in Chats /\ Decent(c)
    BY EditSwept
  <1>2. \A c \in C : /\ c \in Chats
                     /\ Fitting(To(fsm, "none"), c) /\ Fitting(CutOff(fsm), c)
    BY <1>1, FadedSettled
  <1>3. LeaveSettings(C) \/ Forget
    BY DEF KeepSetting
  <1> HIDE DEF C
  <1> QED
    BY <1>2, <1>3, LeaveSettingsKeeps, ForgetEnds

\* The tapped message goes, perhaps, and what is in the buckets
LEMMA RemovedSwept ==
    ASSUME IInv, NEW i \in DOMAIN chat, NEW buckets
    PROVE  \A c \in Swept({chat, RemoveAt(chat, i)}, buckets) :
              c \in Chats /\ Fitting(fsm, c) /\ Decent(c)
  <1>1. \A c \in {chat, RemoveAt(chat, i)} : c \in Chats /\ Fitting(fsm, c)
    BY TapBasis, RemovedIs, BelowFits
  <1> QED
    BY <1>1, SweptFits, FittingDecent

LEMMA CloseSettingsKeeps ==
    ASSUME IInv, NEW i \in DOMAIN chat, CloseSettings(i)
    PROVE  Coherent(fsm', chat', consent)
  <1>1. PICK g \in {To(fsm, "none"), CutOff(fsm)} : fsm' = g
    BY DEF CloseSettings, CutShort, CutOff
  <1>2. PICK c \in Swept({chat, RemoveAt(chat, i)}, {"settings"}) : chat' = Faded(c)
    BY DEF CloseSettings
  <1>3. c \in Chats /\ Decent(c)
    BY <1>2, RemovedSwept
  <1>4. Faded(c) \in Chats /\ Fitting(g, Faded(c))
    BY <1>3, FadedSettled
  <1> QED
    BY <1>1, <1>2, <1>4, SettledData DEF Coherent

\* Whatever becomes of the consent: nothing is left of the data, or it was cut short
LEMMA DeletePersonalDataKeeps ==
    ASSUME IInv, NEW i \in DOMAIN chat, NEW k, DeletePersonalData(i)
    PROVE  Coherent(fsm', chat', k)
  <1> DEFINE C == Swept({chat, RemoveAt(chat, i)}, {"settings"})
  <1>1. \A c \in C : c \in Chats /\ Fitting(fsm, c) /\ Decent(c)
    BY RemovedSwept
  <1>2. \A c \in {chat} \cup C : c \in Chats /\ Fitting(fsm, c)
    BY <1>1, TapBasis
  <1>3. \/ CutShort(fsm) /\ chat' \in {chat} \cup C
        \/ fsm' = Blank /\ chat' \in {Cleared(c) : c \in C}
    BY DEF DeletePersonalData
  <1> HIDE DEF C
  <1>4. CASE CutShort(fsm) /\ chat' \in {chat} \cup C
    BY <1>2, <1>4, TapBasis, SameAgrees, CutShortIn
  <1>5. CASE fsm' = Blank /\ chat' \in {Cleared(c) : c \in C}
    BY <1>1, <1>5, ClearedEnds
  <1> QED
    BY <1>3, <1>4, <1>5

LEMMA StartEditAliasKeeps ==
    ASSUME IInv, NEW i \in DOMAIN chat, StartEditAlias(i)
    PROVE  Coherent(fsm', chat', consent)
  <1>1. chat[i].kind = "master card"
    <2>1. <<chat[i].kind, "masters:alias">> \in Keyboards
      BY Tapped DEF StartEditAlias
    <2> QED
      BY <2>1, OtherTaps
  <1>2. CASE Refuse(chat)
    BY <1>2, TapBasis, RefuseEnds
  <1>3. CASE Redraw(chat, i, Put(fsm, {"alias"}), "Masters.edit_alias", "alias.prompt", NoDay)
    <2> DEFINE f == Put(fsm, {"alias"})
    <2>1. Redraw(chat, i, f, "Masters.edit_alias", "alias.prompt", NoDay)
      BY <1>3
    <2>2. {"alias"} \in SUBSET Keys
      BY DEF Keys
    <2>3. /\ f \in Fsms /\ f.state = fsm.state /\ f.keys = fsm.keys \cup {"alias"}
          /\ f.day = fsm.day /\ f.picked = fsm.picked /\ f.halted = fsm.halted
      BY <2>2, TapBasis, PutIs
    <2> HIDE DEF f
    <2>4. f.halted \/ Carries(f, "Masters.edit_alias", consent)
      BY <2>3, TapBasis, EditReadiness DEF Data, Carries, FormStates
    <2>5. Agrees(f, fsm)
      BY <2>3 DEF Agrees
    <2>6. /\ Own(To(f, "Masters.edit_alias"), "alias.prompt", NoDay)
          /\ Own(Lost(To(f, "Masters.edit_alias")), chat[i].kind, chat[i].shows)
      BY <1>1, FreeOwn
    <2> QED
      BY <2>1, <2>3, <2>4, <2>5, <2>6, TapBasis, RedrawInDialog, OtherNames DEF Shown
  <1> QED
    BY <1>2, <1>3 DEF StartEditAlias

LEMMA OpenMasterCardKeeps ==
    ASSUME IInv, NEW i \in DOMAIN chat, OpenMasterCard(i)
    PROVE  Coherent(fsm', chat', consent)
  BY TurnedKeeps DEF OpenMasterCard

LEMMA SaveAliasKeeps ==
    ASSUME IInv, SaveAlias
    PROVE  Coherent(fsm', chat', consent)
  <1> DEFINE g == Drop(fsm, {"alias"})
             f == To(g, "none")
  <1>1. fsm.state = "Masters.edit_alias" /\ fsm \in Fsms /\ chat \in Chats /\ Fitting(fsm, chat)
    BY TapBasis DEF SaveAlias
  <1>2. \/ Refuse(chat)
        \/ Forget
        \/ /\ fsm' = f
           /\ chat' = chat \/ \E i \in DOMAIN chat : chat' = Turned(chat, i, "master card", NoDay)
    BY DEF SaveAlias
  <1>3. /\ g \in Fsms /\ g.keys = fsm.keys \ {"alias"} /\ g.halted = fsm.halted
    BY <1>1, DropIs
  <1>4. g.halted \/ Carries(g, "none", consent)
    BY <1>3, TapBasis, EditReadiness DEF Data, Carries, FormStates
  <1> HIDE DEF g
  <1>5. f \in Fsms /\ f.state = "none" /\ f.halted = fsm.halted /\ Data(f, consent)
    <2>1. "none" \in States
      BY OtherNames
    <2>2. f \in Fsms /\ f.state = "none" /\ f.halted = g.halted
      BY <1>3, <2>1, ToIs
    <2>3. Data(f, consent)
      BY <1>3, <1>4, <2>1, DataWritten
    <2> QED
      BY <1>3, <2>2, <2>3
  <1> HIDE DEF f
  <1>6. Fitting(f, chat)
    BY <1>1, <1>5, SettledFits
  <1>7. CASE Refuse(chat)
    BY <1>7, TapBasis, RefuseEnds
  <1>8. CASE Forget
    BY <1>8, ForgetEnds
  <1>9. CASE fsm' = f /\ chat' = chat
    BY <1>1, <1>5, <1>6, <1>9 DEF Coherent
  <1>10. CASE fsm' = f /\ \E i \in DOMAIN chat : chat' = Turned(chat, i, "master card", NoDay)
    <2>1. PICK i \in DOMAIN chat : chat' = Turned(chat, i, "master card", NoDay)
      BY <1>10
    <2>2. /\ Own(f, "master card", NoDay) /\ Stays(f, "master card", NoDay)
          /\ "master card" \in Kinds /\ NoDay \in Shown /\ Person("master card", NoDay)
      BY FreeOwn, OtherNames DEF Stays, Edits, Shown
    <2>3. /\ Turned(chat, i, "master card", NoDay) \in Chats
          /\ Fitting(f, Turned(chat, i, "master card", NoDay))
      BY <1>1, <1>6, <2>2, TurnedFits
    <2> QED
      BY <1>5, <1>10, <2>1, <2>3 DEF Coherent
  <1> QED
    BY <1>2, <1>7, <1>8, <1>9, <1>10

LEMMA CloseMasterCardKeeps ==
    ASSUME IInv, NEW i \in DOMAIN chat, CloseMasterCard(i)
    PROVE  Coherent(fsm', chat', consent)
  <1>1. \A c \in {chat, RemoveAt(chat, i)} : c \in Chats /\ Decent(c)
    BY TapBasis, RemovedIs, BelowDecent
  <1>2. fsm' = Blank /\ chat' \in {Cleared(c) : c \in {chat, RemoveAt(chat, i)}}
    BY DEF CloseMasterCard
  <1> QED
    BY <1>1, <1>2, ClearedEnds

-----------------------------------------------------------------------------
(* All of them together.                                                   *)

LEMMA OpenCardKeeps ==
    ASSUME IInv, OpenCard
    PROVE  Coherent(fsm', chat', consent)
  <1>1. PICK kind \in Cards[role] :
            chat' = Appended(chat, [Screen(kind, NoDay, FALSE) EXCEPT !.front = FALSE])
    BY DEF OpenCard
  <1>2. kind \in {"master card", "schedule", "client card"}
    <2>1. Cards["client"] = {"master card"} /\ Cards["master"] = {"schedule", "client card"}
      BY DEF Cards
    <2>2. role = "client" \/ role = "master"
      BY DEF IInv
    <2>3. CASE role = "client"
      BY <1>1, <2>1, <2>3
    <2>4. CASE role = "master"
      BY <1>1, <2>1, <2>4
    <2> QED
      BY <2>2, <2>3, <2>4
  <1> DEFINE m == [Screen(kind, NoDay, FALSE) EXCEPT !.front = FALSE]
  <1>3. m \in Messages /\ m.kind = kind /\ m.shows = NoDay /\ ~m.front /\ ~m.main
    BY <1>2, OtherNames DEF Screen, Messages, Shown
  <1>4. chat' = Appended(chat, m)
    BY <1>1
  <1> HIDE DEF m
  <1>5. Fits(fsm, m)
    BY <1>2, <1>3, OtherNames DEF Fits
  <1>6. Appended(chat, m) \in Chats /\ Fitting(fsm, Appended(chat, m))
    BY <1>3, <1>5, TapBasis, AppendedFits
  <1> QED
    BY <1>4, <1>6, RefuseEnds DEF OpenCard, Refuse

LEMMA CloseKeeps ==
    ASSUME IInv, NEW i \in DOMAIN chat, Close(i)
    PROVE  Coherent(fsm', chat', consent)
  <1> DEFINE mine == {"master_add_booking", "master_add_client", "master_edit_client",
                      "master_edit_client_card", "master_registration", "master_reschedule",
                      "settings", "master_workday_overrides"}
             C == Swept({chat}, mine)
             D == Swept({chat, Bare(chat, i), RemoveAt(chat, i)}, mine)
  <1>1. \A c \in {chat} \cup C : c \in Chats /\ Fitting(fsm, c)
    BY TapBasis, EditSwept
  <1>2. \A c \in {chat, Bare(chat, i), RemoveAt(chat, i)} : c \in Chats /\ Decent(c)
    <2>1. chat \in Chats /\ Decent(chat)
      BY TapBasis
    <2>2. Bare(chat, i) \in Chats /\ Decent(Bare(chat, i))
      <3>1. Bare(chat, i) \in Chats /\ Below(Bare(chat, i), chat)
        BY <2>1, BareIs
      <3> QED
        BY <2>1, <3>1, BelowDecent
    <2>3. RemoveAt(chat, i) \in Chats /\ Decent(RemoveAt(chat, i))
      <3>1. RemoveAt(chat, i) \in Chats /\ Below(RemoveAt(chat, i), chat)
        BY <2>1, RemovedIs
      <3> QED
        BY <2>1, <3>1, BelowDecent
    <2> QED
      BY <2>1, <2>2, <2>3
  <1>3. \A c \in D : c \in Chats /\ Decent(c)
    BY <1>2, SweptDecent
  <1>4. \/ CutShort(fsm) /\ chat' \in {chat} \cup C
        \/ fsm' = Blank /\ chat' \in {Cleared(c) : c \in D}
    BY DEF Close
  <1> HIDE DEF C, D
  <1>5. CASE CutShort(fsm) /\ chat' \in {chat} \cup C
    BY <1>1, <1>5, TapBasis, SameAgrees, CutShortIn
  <1>6. CASE fsm' = Blank /\ chat' \in {Cleared(c) : c \in D}
    BY <1>3, <1>6, ClearedEnds
  <1> QED
    BY <1>4, <1>5, <1>6

LEMMA StartKeeps ==
    ASSUME IInv, Start
    PROVE  Coherent(fsm', chat', consent)
  BY StartBookingKeeps, StartAddBookingKeeps, SearchClientKeeps DEF Start

LEMMA TypedKeeps ==
    ASSUME IInv, Typed
    PROVE  Coherent(fsm', chat', consent)
  BY AnswerMasterKeeps, AnswerClientKeeps, StartAddClientKeeps, AnswerAddClientKeeps,
     ReadStartKeeps, ReadEndKeeps DEF Typed

LEMMA EditTypedKeeps ==
    ASSUME IInv, EditTyped
    PROVE  Coherent(fsm', chat', consent)
  BY StartSearchKeeps, ReadQueryKeeps, ReadFieldRefusedKeeps, OpenSettingsKeeps,
     SettingRefusedKeeps, SaveSettingKeeps, SaveAliasKeeps DEF EditTyped

LEMMA QuietKeeps ==
    ASSUME IInv, NEW i \in DOMAIN chat, Quiet(i)
    PROVE  Coherent(fsm', chat', consent)
  <1>1. CASE \/ BookFromCard(i) \/ SelectMaster(i) \/ TurnCalendar(i) \/ PickBookingDay(i)
             \/ SelectSlot(i) \/ BookingBackToCalendar(i) \/ BookingBackToSlots(i)
             \/ CancelBooking(i) \/ ConfirmRefused(i)
    BY <1>1, BookFromCardKeeps, SelectMasterKeeps, TurnCalendarKeeps, PickBookingDayKeeps,
       SelectSlotKeeps, BookingBackToCalendarKeeps, BookingBackToSlotsKeeps,
       ConfirmBookingKeeps, ConfirmRefusedKeeps
  <1>2. CASE \/ NoClientsAddClient(i) \/ ChooseClient(i) \/ BookForCard(i) \/ TurnAddCalendar(i)
             \/ ShowAddPaywall(i) \/ CalendarCancel(i) \/ PickAddDay(i) \/ PickAddSlot(i)
             \/ AddBackToCalendar(i) \/ AddBackToSlots(i) \/ AddConfirmRefused(i)
             \/ CancelAddBooking(i)
    BY <1>2, NoClientsAddClientKeeps, ChooseClientKeeps, BookForCardKeeps, TurnAddCalendarKeeps,
       ShowAddPaywallKeeps, CalendarCancelKeeps, PickAddDayKeeps, PickAddSlotKeeps,
       AddBackToCalendarKeeps, AddBackToSlotsKeeps, AddConfirmRefusedKeeps, AddConfirmKeeps
  <1>3. CASE \/ StartReschedule(i) \/ TurnMoveCalendar(i) \/ ShowMovePaywall(i) \/ PickMoveDay(i)
             \/ BackToCard(i) \/ MoveBackToCalendar(i) \/ MoveBackToSlots(i) \/ PickMoveSlot(i)
             \/ ConfirmMoveRefused(i)
    BY <1>3, StartRescheduleKeeps, TurnMoveCalendarKeeps, ShowMovePaywallKeeps,
       PickMoveDayKeeps, BackToCardKeeps, MoveBackToCalendarKeeps, MoveBackToSlotsKeeps,
       PickMoveSlotKeeps, ConfirmMoveRefusedKeeps
  <1> QED
    BY <1>1, <1>2, <1>3 DEF Quiet

LEMMA ProfileQuietKeeps ==
    ASSUME IInv, NEW i \in DOMAIN chat, ProfileQuiet(i)
    PROVE  Coherent(fsm', chat', consent)
  <1>1. CASE \/ MasterConsent(i) \/ RestartMaster(i) \/ CancelMaster(i)
             \/ ClientConsent(i) \/ RestartClient(i) \/ CancelClient(i)
             \/ ConfirmAddClient(i) \/ RestartAddClient(i) \/ CancelAddClient(i)
    BY <1>1, MasterConsentKeeps, RestartMasterKeeps, CancelMasterKeeps, ClientConsentKeeps,
       RestartClientKeeps, CancelClientKeeps, ConfirmAddClientKeeps, RestartAddClientKeeps,
       CancelAddClientKeeps
  <1>2. CASE \/ StartOverrides(i) \/ TurnOverrideCalendar(i) \/ PickOverrideDay(i)
             \/ BackToSchedule(i) \/ OverrideRefused(i) \/ PromptStart(i) \/ BackToDay(i)
    BY <1>2, StartOverridesKeeps, TurnOverrideCalendarKeeps, PickOverrideDayKeeps,
       BackToScheduleKeeps, OverrideRefusedKeeps, PromptStartKeeps, BackToDayKeeps
  <1> QED
    BY <1>1, <1>2 DEF ProfileQuiet

LEMMA EditQuietKeeps ==
    ASSUME IInv, NEW i \in DOMAIN chat, EditQuiet(i)
    PROVE  Coherent(fsm', chat', consent)
  <1>1. CASE \/ BackToSearch(i) \/ PickClient(i) \/ ViewClient(i) \/ EditMenu(i)
             \/ OpenClientDirect(i) \/ BookFromView(i) \/ StartEditField(i) \/ CancelEdit(i)
    BY <1>1, BackToSearchKeeps, PickClientKeeps, ViewClientKeeps, EditMenuKeeps,
       OpenClientDirectKeeps, BookFromViewKeeps, StartEditFieldKeeps, CancelEditKeeps
  <1>2. CASE \/ TurnSettings(i) \/ EditSetting(i) \/ KeepSetting(i) \/ CloseSettings(i)
             \/ StartEditAlias(i) \/ OpenMasterCard(i) \/ CloseMasterCard(i)
    BY <1>2, TurnSettingsKeeps, EditSettingKeeps, KeepSettingKeeps, CloseSettingsKeeps,
       StartEditAliasKeeps, OpenMasterCardKeeps, CloseMasterCardKeeps
  <1> QED
    BY <1>1, <1>2 DEF EditQuiet

LEMMA RegisterKeeps ==
    ASSUME IInv, NEW i \in DOMAIN chat, Register(i)
    PROVE  /\ Coherent(fsm', chat', consent') /\ registered' \in BOOLEAN /\ consent' \in BOOLEAN
           /\ registered' /\ ~registered /\ ~fsm.halted => consent'
  <1>1. registered \in BOOLEAN /\ consent \in BOOLEAN /\ Data(fsm, consent)
    BY TapBasis DEF IInv
  <1>2. CASE AgreeMaster(i)
    <2>1. Coherent(fsm', chat', TRUE)
      BY <1>2, AgreeMasterKeeps
    <2>2. consent' = TRUE /\ registered' = registered
      BY <1>2 DEF AgreeMaster
    <2> QED
      BY <1>1, <2>1, <2>2
  <1>3. CASE ConfirmMaster(i)
    <2>1. fsm.state = "MasterRegistration.confirm"
      <3>1. Heard("m:registration:confirm", fsm.state)
        BY <1>3, Tapped DEF ConfirmMaster
      <3> QED
        BY <3>1, MasterRegistrationTaps
    <2>2. Coherent(fsm', chat', consent)
      BY <1>3, ConfirmMasterKeeps
    <2>3. consent' = consent /\ registered' \in {registered, TRUE}
      BY <1>3 DEF ConfirmMaster
    <2>4. ~fsm.halted => consent
      BY <1>1, <2>1 DEF Data, Carries, FormStates
    <2> QED
      BY <1>1, <2>2, <2>3, <2>4
  <1>4. CASE AgreeClient(i)
    <2>1. Coherent(fsm', chat', consent')
      BY <1>4, AgreeClientKeeps
    <2>2. \/ consent' = consent /\ registered' = registered
          \/ consent' = TRUE /\ (registered' = registered \/ registered' = TRUE)
      BY <1>4 DEF AgreeClient
    <2>3. CASE consent' = consent /\ registered' = registered
      BY <1>1, <2>1, <2>3
    <2>4. CASE consent' = TRUE /\ (registered' = registered \/ registered' = TRUE)
      <3>1. registered' \in BOOLEAN /\ consent' \in BOOLEAN /\ consent'
        BY <1>1, <2>4
      <3> QED
        BY <2>1, <3>1
    <2> QED
      BY <2>2, <2>3, <2>4
  <1>5. CASE ConfirmClient(i)
    <2>1. fsm.state = "ClientRegistration.confirm"
      <3>1. Heard("c:registration:confirm", fsm.state)
        BY <1>5, Tapped DEF ConfirmClient
      <3> QED
        BY <3>1, ClientRegistrationTaps
    <2>2. Coherent(fsm', chat', consent)
      BY <1>5, ConfirmClientKeeps
    <2>3. consent' = consent /\ registered' \in {registered, TRUE}
      BY <1>5 DEF ConfirmClient
    <2>4. ~fsm.halted => consent
      BY <1>1, <2>1 DEF Data, Carries, FormStates
    <2> QED
      BY <1>1, <2>2, <2>3, <2>4
  <1> QED
    BY <1>2, <1>3, <1>4, <1>5 DEF Register

\* A step keeps the data and the messages right for the consent there is then, and
\* registers nobody without one
LEMMA StepKeeps ==
    ASSUME IInv, [Next]_vars
    PROVE  /\ Coherent(fsm', chat', consent')
           /\ role' = role /\ registered' \in BOOLEAN /\ consent' \in BOOLEAN
           /\ registered' /\ ~registered /\ ~fsm.halted => consent'
  <1> USE DEF Quietly
  <1>1. registered \in BOOLEAN /\ consent \in BOOLEAN
    BY DEF IInv
  <1>2. CASE UNCHANGED vars
    BY <1>1, <1>2 DEF vars, IInv
  <1>3. CASE Quietly(Start) \/ Quietly(Typed) \/ Quietly(EditTyped)
    BY <1>1, <1>3, StartKeeps, TypedKeeps, EditTypedKeeps
  <1>4. CASE SaveField /\ UNCHANGED <<role, registered, consent>>
    BY <1>1, <1>4, SaveFieldKeeps
  <1>5. CASE Quietly(OpenCard)
    BY <1>1, <1>5, OpenCardKeeps
  <1>6. CASE Quietly(Abandon)
    BY <1>1, <1>6, ForgetEnds DEF Abandon
  <1>7. CASE /\ StartMasterRegistration \/ StartClientRegistration
             /\ act' = NoAct /\ UNCHANGED role
    <2>1. Coherent(fsm', chat', consent)
      BY <1>7, StartMasterRegistrationKeeps, StartClientRegistrationKeeps
    <2>2. consent' = consent
      BY <1>7 DEF StartMasterRegistration, StartClientRegistration
    <2>3. registered' = registered \/ (registered' = TRUE /\ consent)
      <3>1. CASE StartMasterRegistration
        BY <3>1 DEF StartMasterRegistration
      <3>2. CASE StartClientRegistration
        BY <3>2 DEF StartClientRegistration
      <3> QED
        BY <1>7, <3>1, <3>2
    <2>4. CASE registered' = registered
      BY <1>1, <1>7, <2>1, <2>2, <2>4
    <2>5. CASE registered' = TRUE /\ consent
      BY <1>1, <1>7, <2>1, <2>2, <2>5
    <2> QED
      BY <2>3, <2>4, <2>5
  <1>8. ASSUME NEW i \in DOMAIN chat,
               Quietly(Quiet(i)) \/ Quietly(ProfileQuiet(i)) \/ Quietly(EditQuiet(i))
        PROVE  /\ Coherent(fsm', chat', consent)
               /\ UNCHANGED <<role, registered, consent>>
    BY <1>8, QuietKeeps, ProfileQuietKeeps, EditQuietKeeps
  <1>9. ASSUME NEW i \in DOMAIN chat, DeletePersonalData(i), UNCHANGED role
        PROVE  /\ Coherent(fsm', chat', consent') /\ role' = role
               /\ registered' = FALSE /\ consent' = FALSE
    <2>1. Coherent(fsm', chat', FALSE)
      BY <1>9, DeletePersonalDataKeeps
    <2>2. registered' = FALSE /\ consent' = FALSE
      BY <1>9 DEF DeletePersonalData
    <2> QED
      BY <1>9, <2>1, <2>2
  <1>10. ASSUME NEW i \in DOMAIN chat, Quietly(Close(i))
         PROVE  /\ Coherent(fsm', chat', consent)
                /\ UNCHANGED <<role, registered, consent>>
    BY <1>10, CloseKeeps
  <1>11. ASSUME NEW i \in DOMAIN chat, Commit(i) \/ OverrideDay(i),
                UNCHANGED <<role, registered, consent>>
         PROVE  /\ Coherent(fsm', chat', consent)
                /\ UNCHANGED <<role, registered, consent>>
    BY <1>11, ConfirmBookingKeeps, AddConfirmKeeps, ConfirmMoveKeeps, OverrideDayKeeps DEF Commit
  <1>12. CASE \E i \in DOMAIN chat :
                 \/ Quietly(Quiet(i)) \/ Quietly(ProfileQuiet(i)) \/ Quietly(EditQuiet(i))
                 \/ DeletePersonalData(i) /\ act' = NoAct /\ UNCHANGED role
                 \/ Quietly(Close(i))
                 \/ Register(i) /\ act' = NoAct /\ UNCHANGED role
                 \/ (Commit(i) \/ OverrideDay(i)) /\ UNCHANGED <<role, registered, consent>>
    <2>1. PICK i \in DOMAIN chat :
             \/ Quietly(Quiet(i)) \/ Quietly(ProfileQuiet(i)) \/ Quietly(EditQuiet(i))
             \/ DeletePersonalData(i) /\ act' = NoAct /\ UNCHANGED role
             \/ Quietly(Close(i))
             \/ Register(i) /\ act' = NoAct /\ UNCHANGED role
             \/ (Commit(i) \/ OverrideDay(i)) /\ UNCHANGED <<role, registered, consent>>
      BY <1>12
    <2>2. CASE \/ Quietly(Quiet(i)) \/ Quietly(ProfileQuiet(i)) \/ Quietly(EditQuiet(i))
               \/ Quietly(Close(i))
               \/ (Commit(i) \/ OverrideDay(i)) /\ UNCHANGED <<role, registered, consent>>
      <3>1. Coherent(fsm', chat', consent) /\ UNCHANGED <<role, registered, consent>>
        BY <1>8, <1>10, <1>11, <2>2
      <3> QED
        BY <1>1, <3>1
    <2>3. CASE DeletePersonalData(i) /\ act' = NoAct /\ UNCHANGED role
      BY <1>9, <2>3
    <2>4. CASE Register(i) /\ act' = NoAct /\ UNCHANGED role
      BY <2>4, RegisterKeeps
    <2> QED
      BY <2>1, <2>2, <2>3, <2>4
  <1> QED
    BY <1>2, <1>3, <1>4, <1>5, <1>6, <1>7, <1>12 DEF Next

LEMMA InitIInv == Init => IInv
  <1> SUFFICES ASSUME Init PROVE IInv
    OBVIOUS
  <1>1. fsm = Blank /\ chat = <<>>
    BY DEF Init
  <1>2. <<>> \in Chats
    <2>1. <<>> \in Seq(Messages) /\ Len(<<>>) <= MaxScreens /\ OneFront(<<>>)
      BY ChatConstants DEF OneFront
    <2> QED
      BY <2>1, ChatType
  <1>3. Fitting(Blank, <<>>)
    BY DEF Fitting
  <1>4. Coherent(fsm, chat, consent)
    BY <1>1, <1>2, <1>3, BlankIs, BlankData DEF Coherent
  <1> QED
    BY <1>4 DEF IInv, Init

LEMMA NextIInv == IInv /\ [Next]_vars => IInv'
  <1> SUFFICES ASSUME IInv, [Next]_vars PROVE IInv'
    OBVIOUS
  <1>1. /\ Coherent(fsm', chat', consent')
        /\ role' = role /\ registered' \in BOOLEAN /\ consent' \in BOOLEAN
    BY StepKeeps
  <1>2. role \in {"client", "master"}
    BY DEF IInv
  <1> QED
    BY <1>1, <1>2 DEF IInv, Coherent

\* The invariant: whatever the user taps, types or starts, the data is what the state asks
\* for and every message on the screen says nothing the data does not.
THEOREM SpecIInv == Spec => []IInv
  BY InitIInv, NextIInv, PTL DEF Spec

-----------------------------------------------------------------------------
(* What that means for the user.                                           *)

\* Dialogs' type invariant: the data and the messages are of their types, no more messages
\* than can be reached, and at most one is the dialog's own.
THEOREM TypeCorrect == Spec => []TypeOK
  <1>1. IInv => TypeOK
    <2> SUFFICES ASSUME IInv PROVE TypeOK
      OBVIOUS
    <2>1. chat \in Seq(Messages) /\ Len(chat) <= MaxScreens /\ OneFront(chat)
      BY TapBasis, ChatType
    <2>2. fsm \in Fsms
      BY TapBasis
    <2>3. role \in {"client", "master"} /\ registered \in BOOLEAN /\ consent \in BOOLEAN
      BY DEF IInv
    <2> QED
      BY <2>1, <2>2, <2>3 DEF TypeOK, Fsms, Messages, Shown, OneFront
  <1> QED
    BY <1>1, SpecIInv, PTL

\* In each state the data its handlers read is there, however the user got to it, unless a
\* handler was cut short: the data of every dialog, through every way back.
THEOREM ContextIsKeptHolds == Spec => []ContextIsKept
  <1>1. IInv => ContextIsKept
    BY TapBasis DEF ContextIsKept, Data, Carries, Ready
  <1> QED
    BY <1>1, SpecIInv, PTL

\* Where the user is asked to confirm, confirm_in_progress is not left over from before.
THEOREM ConfirmIsTakenUpHolds == Spec => []ConfirmIsTakenUp
  <1>1. IInv => ConfirmIsTakenUp
    BY TapBasis DEF ConfirmIsTakenUp, Data, Carries
  <1> QED
    BY <1>1, SpecIInv, PTL

\* The buttons of a message that have a handler in the state the dialog is in
LEMMA LiveIs ==
    ASSUME IInv, NEW i \in DOMAIN chat
    PROVE  /\ \A b : b \in Keyboard[chat[i].kind] <=> <<chat[i].kind, b>> \in Keyboards
           /\ \A b : b \in Live(i) <=> /\ <<chat[i].kind, b>> \in Keyboards
                                       /\ Heard(b, fsm.state)
  <1>1. chat[i].kind \in Kinds
    BY TapBasis, ChatDomain DEF Messages
  <1>2. \A b : b \in Keyboard[chat[i].kind] <=> <<chat[i].kind, b>> \in Keyboards
    BY <1>1, KeyboardRows
  <1> QED
    BY <1>2, FilterRows DEF Live

\* Every button of the message a dialog last drew has a handler in the state the dialog went
\* on to, but for the two cancel buttons of a client's consent.
THEOREM NoDeadButtonHolds == Spec => []NoDeadButton
  <1>1. IInv => NoDeadButton
    <2> SUFFICES ASSUME IInv, NEW i \in DOMAIN chat, chat[i].front, ~fsm.lost, ~fsm.halted,
                        NEW b \in Keyboard[chat[i].kind], b \notin Live(i)
                 PROVE  /\ chat[i].kind \in {"creg.consent", "creg.declined"}
                        /\ b = "c:registration:cancel"
      BY DEF NoDeadButton
    <2>1. Works(chat[i].kind, fsm.state)
      BY TapBasis DEF Fitting, Fits, Own, Answers
    <2>2. <<chat[i].kind, b>> \in Keyboards /\ ~Heard(b, fsm.state)
      BY LiveIs
    <2> QED
      BY <2>1, <2>2 DEF Works
  <1> QED
    BY <1>1, SpecIInv, PTL

\* Even when the drawing failed and the state went on without it, the old message has a
\* button that works, but for a client's confirmation and the consent screens.
THEOREM AlwaysAWayOnHolds == Spec => []AlwaysAWayOn
  <1>1. IInv => AlwaysAWayOn
    <2> SUFFICES ASSUME IInv, NEW i \in DOMAIN chat, chat[i].front, ~fsm.halted,
                        Keyboard[chat[i].kind] # {}, Live(i) = {}
                 PROVE  fsm.lost /\ chat[i].kind \in Stuck
      BY DEF AlwaysAWayOn, Stuck
    <2>1. \/ chat[i].kind \in {"paywall", "bare"}
          \/ Away(chat[i].kind, fsm.state)
          \/ fsm.lost /\ chat[i].kind \in Stuck
      BY TapBasis DEF Fitting, Fits, Own, Answers
    <2>2. ~Away(chat[i].kind, fsm.state)
      BY LiveIs DEF Away
    <2>3. chat[i].kind \notin {"paywall", "bare"}
      BY LiveIs, OtherKeys
    <2> QED
      BY <2>1, <2>2, <2>3
  <1> QED
    BY <1>1, SpecIInv, PTL

\* Nobody becomes a client or a master without his consent on record, whatever he deletes,
\* restarts or begins in between, unless a handler was cut short.
THEOREM ConsentComesFirstHolds == Spec => ConsentComesFirst
  <1>1. IInv /\ [Next]_vars => [registered' /\ ~registered /\ ~fsm.halted => consent']_vars
    BY StepKeeps
  <1> QED
    BY <1>1, SpecIInv, PTL DEF Spec, ConsentComesFirst

\* What the message that a step commits something through says
LEMMA CommitsWhatItShows ==
    ASSUME IInv, Next
    PROVE  act'.what # "none" /\ act'.front /\ (act'.what \in {"override", "edit"} => ~fsm.halted)
               => act'.used = act'.shown
  <1>1. \A n \in DOMAIN chat : chat[n].front => Own(fsm, chat[n].kind, chat[n].shows)
    BY TapBasis DEF Fitting, Fits
  <1>2. CASE act' = NoAct
    BY <1>2 DEF NoAct
  <1>3. ASSUME NEW i \in DOMAIN chat, ConfirmBooking(i)
        PROVE  act'.front => act'.used = act'.shown
    <2>1. chat[i].kind = "book.confirm" /\ fsm.state = "ClientBooking.confirm"
      BY <1>3, Tapped, ClientBookingTaps DEF ConfirmBooking
    <2> QED
      BY <1>1, <1>3, <2>1 DEF ConfirmBooking, Act, Own, Asks
  <1>4. ASSUME NEW i \in DOMAIN chat, AddConfirm(i)
        PROVE  act'.front => act'.used = act'.shown
    <2>1. chat[i].kind = "add.confirm" /\ fsm.state = "AddBooking.confirm"
      BY <1>4, Tapped, AddBookingTaps DEF AddConfirm
    <2>2. fsm.picked # NoDay
      BY <1>4, TapBasis, HasIs DEF AddConfirm, AddReady
    <2> QED
      BY <1>1, <1>4, <2>1, <2>2 DEF AddConfirm, Act, Own, Asks
  <1>5. ASSUME NEW i \in DOMAIN chat, ConfirmMove(i)
        PROVE  act'.front => act'.used = act'.shown
    <2>1. chat[i].kind = "move.confirm" /\ fsm.state = "Reschedule.confirm"
      BY <1>5, Tapped, RescheduleTaps DEF ConfirmMove
    <2>2. fsm.picked # NoDay
      BY <1>5, TapBasis, HasIs DEF ConfirmMove, MoveReady
    <2> QED
      BY <1>1, <1>5, <2>1, <2>2 DEF ConfirmMove, Act, Own, Asks
  <1>6. ASSUME NEW i \in DOMAIN chat, OverrideDay(i)
        PROVE  act'.front /\ (act'.what = "override" => ~fsm.halted) => act'.used = act'.shown
    <2>1. PICK b \in {"m:overrides:make_day_off", "m:overrides:make_working"} : On(i, b)
      BY <1>6 DEF OverrideDay
    <2>2. <<chat[i].kind, b>> \in Keyboards /\ Heard(b, fsm.state)
      BY <2>1, Tapped
    <2>3. chat[i].kind = "day.menu" /\ fsm.state \in DayStates
      BY <2>1, <2>2, WorkdayTaps DEF DayStates
    <2>4. act' = Act("override", i, fsm.day)
      BY <1>6 DEF OverrideDay
    <2> QED
      BY <1>1, <2>3, <2>4 DEF Act, Own, Edits
  <1>7. ASSUME SaveField
        PROVE  /\ act'.what # "none" /\ act'.front /\ (act'.what = "edit" => ~fsm.halted)
               => act'.used = act'.shown
    <2> DEFINE asked == {i \in DOMAIN chat : chat[i].front /\ chat[i].kind = "edit.input"}
    <2>1. /\ fsm.state \in Asked
          /\ act' = IF asked = {} THEN NoAct ELSE Act("edit", CHOOSE i \in asked : TRUE, fsm.who)
      BY <1>7 DEF SaveField
    <2>2. CASE asked = {}
      BY <2>1, <2>2 DEF NoAct
    <2>3. CASE asked # {}
      <3>1. PICK i \in asked : act' = Act("edit", i, fsm.who)
        BY <2>1, <2>3
      <3>2. Own(fsm, "edit.input", chat[i].shows)
        BY <1>1, <3>1
      <3> QED
        BY <2>1, <3>1, <3>2 DEF Act, Own, Edits
    <2> QED
      BY <2>2, <2>3
  <1>8. \/ act' = NoAct
        \/ SaveField
        \/ \E i \in DOMAIN chat :
              ConfirmBooking(i) \/ AddConfirm(i) \/ ConfirmMove(i) \/ OverrideDay(i)
    BY DEF Next, Quietly, Commit
  <1> QED
    BY <1>2, <1>3, <1>4, <1>5, <1>6, <1>7, <1>8

\* What is booked, moved, overridden or saved through the dialog's own message is what that
\* message says.
THEOREM DoesWhatItShowsHolds == Spec => DoesWhatItShows
  <1>1. IInv /\ [Next]_vars =>
            [act'.what # "none" /\ act'.front
                 /\ (act'.what \in {"override", "edit"} => ~fsm.halted)
             => act'.used = act'.shown]_vars
    BY CommitsWhatItShows
  <1> QED
    BY <1>1, SpecIInv, PTL DEF Spec, DoesWhatItShows

=============================================================================
