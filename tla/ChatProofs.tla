------------------------------ MODULE ChatProofs ------------------------------
(***************************************************************************)
(* Lemmas about Chat: which kinds of message a button is on and in which   *)
(* states it is heard, and what the operators make of a chat.              *)
(***************************************************************************)
EXTENDS Chat, SequenceTheorems, TLAPS

-----------------------------------------------------------------------------
(* The tables.                                                             *)

Pairs(table) == \A r \in table : r = <<r[1], r[2]>>

LEMMA PairsProduct ==
    ASSUME NEW S, NEW T
    PROVE  Pairs(S \X T)
  BY DEF Pairs

LEMMA PairsUnion ==
    ASSUME NEW S, NEW T, Pairs(S), Pairs(T)
    PROVE  Pairs(S \cup T)
  BY DEF Pairs

LEMMA KeyboardPairs == Pairs(Keyboards)
  <1>1. /\ Pairs(ClientBookingKeyboards) /\ Pairs(AddBookingKeyboards)
        /\ Pairs(RescheduleKeyboards) /\ Pairs(WorkdayKeyboards)
    BY PairsProduct, PairsUnion DEF ClientBookingKeyboards, AddBookingKeyboards,
           RescheduleKeyboards, WorkdayKeyboards
  <1>2. /\ Pairs(MasterRegistrationKeyboards) /\ Pairs(ClientRegistrationKeyboards)
        /\ Pairs(AddClientKeyboards)
    BY PairsProduct, PairsUnion DEF MasterRegistrationKeyboards, ClientRegistrationKeyboards,
           AddClientKeyboards
  <1>3. Pairs(EditClientKeyboards) /\ Pairs(SettingsKeyboards) /\ Pairs(OtherKeyboards)
    BY PairsProduct, PairsUnion DEF EditClientKeyboards, SettingsKeyboards, OtherKeyboards
  <1> QED
    BY <1>1, <1>2, <1>3, PairsUnion DEF Keyboards

LEMMA FilterPairs == Pairs(Filters)
  <1>1. /\ Pairs(ClientBookingFilters) /\ Pairs(AddBookingFilters)
        /\ Pairs(RescheduleFilters) /\ Pairs(WorkdayFilters)
    BY PairsProduct, PairsUnion DEF ClientBookingFilters, AddBookingFilters,
           RescheduleFilters, WorkdayFilters
  <1>2. /\ Pairs(MasterRegistrationFilters) /\ Pairs(ClientRegistrationFilters)
        /\ Pairs(AddClientFilters) /\ Pairs(EditClientFilters)
    BY PairsProduct, PairsUnion DEF MasterRegistrationFilters, ClientRegistrationFilters,
           AddClientFilters, EditClientFilters
  <1> QED
    BY <1>1, <1>2, PairsUnion DEF Filters

LEMMA KeyboardRows == \A k \in Kinds : \A b : b \in Keyboard[k] <=> <<k, b>> \in Keyboards
  BY KeyboardPairs DEF Keyboard, Column, Pairs

\* A button has a handler in a state
Heard(b, s) == <<b, s>> \in Filters \/ \A t : <<b, t>> \notin Filters

LEMMA FilterRows == \A b, s : Accepts(b, s) <=> Heard(b, s)
  <1>1. \A b : b \in Rows(Filters) <=> \E t : <<b, t>> \in Filters
    BY FilterPairs DEF Rows, Pairs
  <1>2. \A b \in Rows(Filters) : \A s : s \in Filter[b] <=> <<b, s>> \in Filters
    BY FilterPairs DEF Filter, Column, Pairs
  <1>3. DOMAIN Filter = Rows(Filters)
    BY DEF Filter
  <1>4. \A b, s : (b \in Rows(Filters) => s \in Filter[b]) <=> Heard(b, s)
    BY <1>1, <1>2 DEF Heard
  <1> QED
    BY <1>3, <1>4 DEF Accepts

-----------------------------------------------------------------------------
(* The kinds of message each button is on, and the states it is heard in.  *)

LEMMA ClientBookingTaps ==
    ASSUME NEW k, NEW s
    PROVE  /\ <<k, "book:back:calendar">> \in Keyboards => k = "book.slots"
           /\ <<k, "book:back:slots">> \in Keyboards => k = "book.confirm"
           /\ <<k, "book:confirm">> \in Keyboards => k = "book.confirm"
           /\ <<k, "book:master">> \in Keyboards => k = "book.masters"
           /\ <<k, "book:mc:d">> \in Keyboards => k = "book.calendar"
           /\ <<k, "book:mc:m">> \in Keyboards => k = "book.calendar"
           /\ <<k, "book:slot">> \in Keyboards => k = "book.slots"
           /\ Heard("book:back:calendar", s) => s = "ClientBooking.selecting_slot"
           /\ Heard("book:back:slots", s) => s = "ClientBooking.confirm"
           /\ Heard("book:confirm", s) => s = "ClientBooking.confirm"
           /\ Heard("book:master", s) => s = "ClientBooking.selecting_master"
           /\ Heard("book:mc:d", s) => s = "ClientBooking.selecting_date"
           /\ Heard("book:mc:m", s) => s = "ClientBooking.selecting_date"
           /\ Heard("book:slot", s) => s = "ClientBooking.selecting_slot"
  <1>1. /\ <<k, "book:back:calendar">> \in Keyboards => k = "book.slots"
        /\ <<k, "book:back:slots">> \in Keyboards => k = "book.confirm"
        /\ <<k, "book:confirm">> \in Keyboards => k = "book.confirm"
        /\ <<k, "book:master">> \in Keyboards => k = "book.masters"
        /\ <<k, "book:mc:d">> \in Keyboards => k = "book.calendar"
        /\ <<k, "book:mc:m">> \in Keyboards => k = "book.calendar"
        /\ <<k, "book:slot">> \in Keyboards => k = "book.slots"
    BY DEF Keyboards, ClientBookingKeyboards, AddBookingKeyboards, RescheduleKeyboards,
           WorkdayKeyboards, MasterRegistrationKeyboards, ClientRegistrationKeyboards,
           AddClientKeyboards, EditClientKeyboards, SettingsKeyboards, OtherKeyboards
  <1>2. /\ <<"book:back:calendar", "ClientBooking.selecting_slot">> \in Filters
        /\ <<"book:back:slots", "ClientBooking.confirm">> \in Filters
        /\ <<"book:confirm", "ClientBooking.confirm">> \in Filters
        /\ <<"book:master", "ClientBooking.selecting_master">> \in Filters
        /\ <<"book:mc:d", "ClientBooking.selecting_date">> \in Filters
        /\ <<"book:mc:m", "ClientBooking.selecting_date">> \in Filters
        /\ <<"book:slot", "ClientBooking.selecting_slot">> \in Filters
    BY DEF Filters, ClientBookingFilters
  <1>3. /\ Heard("book:back:calendar", s) => s = "ClientBooking.selecting_slot"
        /\ Heard("book:back:slots", s) => s = "ClientBooking.confirm"
        /\ Heard("book:confirm", s) => s = "ClientBooking.confirm"
        /\ Heard("book:master", s) => s = "ClientBooking.selecting_master"
        /\ Heard("book:mc:d", s) => s = "ClientBooking.selecting_date"
        /\ Heard("book:mc:m", s) => s = "ClientBooking.selecting_date"
        /\ Heard("book:slot", s) => s = "ClientBooking.selecting_slot"
    BY <1>2 DEF Heard, Filters, ClientBookingFilters, AddBookingFilters,
           RescheduleFilters, WorkdayFilters, MasterRegistrationFilters,
           ClientRegistrationFilters, AddClientFilters, EditClientFilters, AddBookingCancel,
           EditClientOpen
  <1> QED
    BY <1>1, <1>3

LEMMA AddBookingTaps ==
    ASSUME NEW k, NEW s
    PROVE  /\ <<k, "m:add_booking:client">> \in Keyboards => k = "add.clients"
           /\ <<k, "m:add_booking:confirm">> \in Keyboards => k = "add.confirm"
           /\ <<k, "m:add_booking:confirm:back">> \in Keyboards => k = "add.confirm"
           /\ <<k, "m:add_booking:mc:cancel">> \in Keyboards => k = "add.calendar"
           /\ <<k, "m:add_booking:mc:d">> \in Keyboards => k = "add.calendar"
           /\ <<k, "m:add_booking:mc:m">> \in Keyboards => k \in {"add.calendar", "add.paywall"}
           /\ <<k, "m:add_booking:mc:pro">> \in Keyboards => k = "add.calendar"
           /\ <<k, "m:add_booking:no_clients:add_client">> \in Keyboards => k = "add.noclients"
           /\ <<k, "m:add_booking:slot">> \in Keyboards => k = "add.slots"
           /\ <<k, "m:add_booking:slots:back">> \in Keyboards => k = "add.slots"
           /\ Heard("m:add_booking:client", s) => s = "AddBooking.search_client"
           /\ Heard("m:add_booking:confirm", s) => s = "AddBooking.confirm"
           /\ Heard("m:add_booking:confirm:back", s) => s = "AddBooking.confirm"
           /\ Heard("m:add_booking:mc:cancel", s) => s = "AddBooking.selecting_date"
           /\ Heard("m:add_booking:mc:d", s) => s = "AddBooking.selecting_date"
           /\ Heard("m:add_booking:mc:m", s) => s = "AddBooking.selecting_date"
           /\ Heard("m:add_booking:mc:pro", s) => s = "AddBooking.selecting_date"
           /\ Heard("m:add_booking:no_clients:add_client", s) => s = "AddBooking.no_clients"
           /\ Heard("m:add_booking:slot", s) => s = "AddBooking.selecting_slot"
           /\ Heard("m:add_booking:slots:back", s) => s = "AddBooking.selecting_slot"
  <1>1. /\ <<k, "m:add_booking:client">> \in Keyboards => k = "add.clients"
        /\ <<k, "m:add_booking:confirm">> \in Keyboards => k = "add.confirm"
        /\ <<k, "m:add_booking:confirm:back">> \in Keyboards => k = "add.confirm"
        /\ <<k, "m:add_booking:mc:cancel">> \in Keyboards => k = "add.calendar"
        /\ <<k, "m:add_booking:mc:d">> \in Keyboards => k = "add.calendar"
        /\ <<k, "m:add_booking:mc:m">> \in Keyboards => k \in {"add.calendar", "add.paywall"}
        /\ <<k, "m:add_booking:mc:pro">> \in Keyboards => k = "add.calendar"
        /\ <<k, "m:add_booking:no_clients:add_client">> \in Keyboards => k = "add.noclients"
        /\ <<k, "m:add_booking:slot">> \in Keyboards => k = "add.slots"
        /\ <<k, "m:add_booking:slots:back">> \in Keyboards => k = "add.slots"
    BY DEF Keyboards, ClientBookingKeyboards, AddBookingKeyboards, RescheduleKeyboards,
           WorkdayKeyboards, MasterRegistrationKeyboards, ClientRegistrationKeyboards,
           AddClientKeyboards, EditClientKeyboards, SettingsKeyboards, OtherKeyboards
  <1>2. /\ <<"m:add_booking:client", "AddBooking.search_client">> \in Filters
        /\ <<"m:add_booking:confirm", "AddBooking.confirm">> \in Filters
        /\ <<"m:add_booking:confirm:back", "AddBooking.confirm">> \in Filters
        /\ <<"m:add_booking:mc:cancel", "AddBooking.selecting_date">> \in Filters
        /\ <<"m:add_booking:mc:d", "AddBooking.selecting_date">> \in Filters
        /\ <<"m:add_booking:mc:m", "AddBooking.selecting_date">> \in Filters
        /\ <<"m:add_booking:mc:pro", "AddBooking.selecting_date">> \in Filters
        /\ <<"m:add_booking:no_clients:add_client", "AddBooking.no_clients">> \in Filters
        /\ <<"m:add_booking:slot", "AddBooking.selecting_slot">> \in Filters
        /\ <<"m:add_booking:slots:back", "AddBooking.selecting_slot">> \in Filters
    BY DEF Filters, AddBookingFilters
  <1>3. /\ Heard("m:add_booking:client", s) => s = "AddBooking.search_client"
        /\ Heard("m:add_booking:confirm", s) => s = "AddBooking.confirm"
        /\ Heard("m:add_booking:confirm:back", s) => s = "AddBooking.confirm"
        /\ Heard("m:add_booking:mc:cancel", s) => s = "AddBooking.selecting_date"
        /\ Heard("m:add_booking:mc:d", s) => s = "AddBooking.selecting_date"
        /\ Heard("m:add_booking:mc:m", s) => s = "AddBooking.selecting_date"
        /\ Heard("m:add_booking:mc:pro", s) => s = "AddBooking.selecting_date"
        /\ Heard("m:add_booking:no_clients:add_client", s) => s = "AddBooking.no_clients"
        /\ Heard("m:add_booking:slot", s) => s = "AddBooking.selecting_slot"
        /\ Heard("m:add_booking:slots:back", s) => s = "AddBooking.selecting_slot"
    BY <1>2 DEF Heard, Filters, ClientBookingFilters, AddBookingFilters,
           RescheduleFilters, WorkdayFilters, MasterRegistrationFilters,
           ClientRegistrationFilters, AddClientFilters, EditClientFilters, AddBookingCancel,
           EditClientOpen
  <1> QED
    BY <1>1, <1>3

LEMMA RescheduleTaps ==
    ASSUME NEW k, NEW s
    PROVE  /\ <<k, "m:reschedule:back_calendar">> \in Keyboards => k = "move.slots"
           /\ <<k, "m:reschedule:back_card">> \in Keyboards => k = "move.calendar"
           /\ <<k, "m:reschedule:back_slots">> \in Keyboards => k = "move.confirm"
           /\ <<k, "m:reschedule:confirm">> \in Keyboards => k = "move.confirm"
           /\ <<k, "m:reschedule:mc:d">> \in Keyboards => k = "move.calendar"
           /\ <<k, "m:reschedule:mc:m">> \in Keyboards => k \in {"move.calendar", "move.paywall"}
           /\ <<k, "m:reschedule:mc:pro">> \in Keyboards => k = "move.calendar"
           /\ <<k, "m:reschedule:slot">> \in Keyboards => k = "move.slots"
           /\ Heard("m:reschedule:back_calendar", s) => s = "Reschedule.selecting_slot"
           /\ Heard("m:reschedule:back_card", s) => s = "Reschedule.selecting_date"
           /\ Heard("m:reschedule:back_slots", s) => s = "Reschedule.confirm"
           /\ Heard("m:reschedule:confirm", s) => s = "Reschedule.confirm"
           /\ Heard("m:reschedule:mc:d", s) => s = "Reschedule.selecting_date"
           /\ Heard("m:reschedule:mc:m", s) => s = "Reschedule.selecting_date"
           /\ Heard("m:reschedule:mc:pro", s) => s = "Reschedule.selecting_date"
           /\ Heard("m:reschedule:slot", s) => s = "Reschedule.selecting_slot"
  <1>1. /\ <<k, "m:reschedule:back_calendar">> \in Keyboards => k = "move.slots"
        /\ <<k, "m:reschedule:back_card">> \in Keyboards => k = "move.calendar"
        /\ <<k, "m:reschedule:back_slots">> \in Keyboards => k = "move.confirm"
        /\ <<k, "m:reschedule:confirm">> \in Keyboards => k = "move.confirm"
        /\ <<k, "m:reschedule:mc:d">> \in Keyboards => k = "move.calendar"
        /\ <<k, "m:reschedule:mc:m">> \in Keyboards => k \in {"move.calendar", "move.paywall"}
        /\ <<k, "m:reschedule:mc:pro">> \in Keyboards => k = "move.calendar"
        /\ <<k, "m:reschedule:slot">> \in Keyboards => k = "move.slots"
    BY DEF Keyboards, ClientBookingKeyboards, AddBookingKeyboards, RescheduleKeyboards,
           WorkdayKeyboards, MasterRegistrationKeyboards, ClientRegistrationKeyboards,
           AddClientKeyboards, EditClientKeyboards, SettingsKeyboards, OtherKeyboards
  <1>2. /\ <<"m:reschedule:back_calendar", "Reschedule.selecting_slot">> \in Filters
        /\ <<"m:reschedule:back_card", "Reschedule.selecting_date">> \in Filters
        /\ <<"m:reschedule:back_slots", "Reschedule.confirm">> \in Filters
        /\ <<"m:reschedule:confirm", "Reschedule.confirm">> \in Filters
        /\ <<"m:reschedule:mc:d", "Reschedule.selecting_date">> \in Filters
        /\ <<"m:reschedule:mc:m", "Reschedule.selecting_date">> \in Filters
        /\ <<"m:reschedule:mc:pro", "Reschedule.selecting_date">> \in Filters
        /\ <<"m:reschedule:slot", "Reschedule.selecting_slot">> \in Filters
    BY DEF Filters, RescheduleFilters
  <1>3. /\ Heard("m:reschedule:back_calendar", s) => s = "Reschedule.selecting_slot"
        /\ Heard("m:reschedule:back_card", s) => s = "Reschedule.selecting_date"
        /\ Heard("m:reschedule:back_slots", s) => s = "Reschedule.confirm"
        /\ Heard("m:reschedule:confirm", s) => s = "Reschedule.confirm"
        /\ Heard("m:reschedule:mc:d", s) => s = "Reschedule.selecting_date"
        /\ Heard("m:reschedule:mc:m", s) => s = "Reschedule.selecting_date"
        /\ Heard("m:reschedule:mc:pro", s) => s = "Reschedule.selecting_date"
        /\ Heard("m:reschedule:slot", s) => s = "Reschedule.selecting_slot"
    BY <1>2 DEF Heard, Filters, ClientBookingFilters, AddBookingFilters,
           RescheduleFilters, WorkdayFilters, MasterRegistrationFilters,
           ClientRegistrationFilters, AddClientFilters, EditClientFilters, AddBookingCancel,
           EditClientOpen
  <1> QED
    BY <1>1, <1>3

LEMMA WorkdayTaps ==
    ASSUME NEW k, NEW s
    PROVE  /\ <<k, "m:overrides:back_day">> \in Keyboards => k = "day.back"
           /\ <<k, "m:overrides:back_schedule">> \in Keyboards => k \in {"day.calendar", "day.menu"}
           /\ <<k, "m:overrides:make_day_off">> \in Keyboards => k = "day.menu"
           /\ <<k, "m:overrides:make_working">> \in Keyboards => k = "day.menu"
           /\ <<k, "m:overrides:mc:d">> \in Keyboards => k = "day.calendar"
           /\ <<k, "m:overrides:mc:m">> \in Keyboards => k = "day.calendar"
           /\ <<k, "m:overrides:set_hours">> \in Keyboards => k = "day.menu"
           /\ <<k, "m:overrides:start">> \in Keyboards => k = "schedule"
           /\ Heard("m:overrides:back_day", s) => s \in {"Workday.choosing_action",
                  "Workday.setting_start", "Workday.setting_end"}
           /\ Heard("m:overrides:back_schedule", s) => s \in {"Workday.picking_date",
                  "Workday.choosing_action"}
           /\ Heard("m:overrides:make_day_off", s) => s = "Workday.choosing_action"
           /\ Heard("m:overrides:make_working", s) => s = "Workday.choosing_action"
           /\ Heard("m:overrides:mc:d", s) => s = "Workday.picking_date"
           /\ Heard("m:overrides:mc:m", s) => s = "Workday.picking_date"
           /\ Heard("m:overrides:set_hours", s) => s = "Workday.choosing_action"
  <1>1. /\ <<k, "m:overrides:back_day">> \in Keyboards => k = "day.back"
        /\ <<k, "m:overrides:back_schedule">> \in Keyboards => k \in {"day.calendar", "day.menu"}
        /\ <<k, "m:overrides:make_day_off">> \in Keyboards => k = "day.menu"
        /\ <<k, "m:overrides:make_working">> \in Keyboards => k = "day.menu"
        /\ <<k, "m:overrides:mc:d">> \in Keyboards => k = "day.calendar"
        /\ <<k, "m:overrides:mc:m">> \in Keyboards => k = "day.calendar"
        /\ <<k, "m:overrides:set_hours">> \in Keyboards => k = "day.menu"
        /\ <<k, "m:overrides:start">> \in Keyboards => k = "schedule"
    BY DEF Keyboards, ClientBookingKeyboards, AddBookingKeyboards, RescheduleKeyboards,
           WorkdayKeyboards, MasterRegistrationKeyboards, ClientRegistrationKeyboards,
           AddClientKeyboards, EditClientKeyboards, SettingsKeyboards, OtherKeyboards
  <1>2. /\ <<"m:overrides:back_day", "Workday.choosing_action">> \in Filters
        /\ <<"m:overrides:back_schedule", "Workday.picking_date">> \in Filters
        /\ <<"m:overrides:make_day_off", "Workday.choosing_action">> \in Filters
        /\ <<"m:overrides:make_working", "Workday.choosing_action">> \in Filters
        /\ <<"m:overrides:mc:d", "Workday.picking_date">> \in Filters
        /\ <<"m:overrides:mc:m", "Workday.picking_date">> \in Filters
        /\ <<"m:overrides:set_hours", "Workday.choosing_action">> \in Filters
    BY DEF Filters, WorkdayFilters
  <1>3. /\ Heard("m:overrides:back_day", s) => s \in {"Workday.choosing_action",
           "Workday.setting_start", "Workday.setting_end"}
        /\ Heard("m:overrides:back_schedule", s) => s \in {"Workday.picking_date",
               "Workday.choosing_action"}
        /\ Heard("m:overrides:make_day_off", s) => s = "Workday.choosing_action"
        /\ Heard("m:overrides:make_working", s) => s = "Workday.choosing_action"
        /\ Heard("m:overrides:mc:d", s) => s = "Workday.picking_date"
        /\ Heard("m:overrides:mc:m", s) => s = "Workday.picking_date"
        /\ Heard("m:overrides:set_hours", s) => s = "Workday.choosing_action"
    BY <1>2 DEF Heard, Filters, ClientBookingFilters, AddBookingFilters,
           RescheduleFilters, WorkdayFilters, MasterRegistrationFilters,
           ClientRegistrationFilters, AddClientFilters, EditClientFilters, AddBookingCancel,
           EditClientOpen
  <1> QED
    BY <1>1, <1>3

LEMMA MasterRegistrationTaps ==
    ASSUME NEW k, NEW s
    PROVE  /\ <<k, "m:pd:agree">> \in Keyboards => k = "mreg.consent"
           /\ <<k, "m:pd:back">> \in Keyboards => k = "mreg.declined"
           /\ <<k, "m:pd:disagree">> \in Keyboards => k = "mreg.consent"
           /\ <<k, "m:pd:policy">> \in Keyboards => k = "mreg.consent"
           /\ <<k, "m:registration:confirm">> \in Keyboards => k = "mreg.confirm"
           /\ <<k, "m:registration:restart">> \in Keyboards => k = "mreg.confirm"
           /\ Heard("m:pd:agree", s) => s = "MasterRegistration.consent"
           /\ Heard("m:pd:back", s) => s = "MasterRegistration.consent_declined"
           /\ Heard("m:pd:disagree", s) => s = "MasterRegistration.consent"
           /\ Heard("m:pd:policy", s) => s = "MasterRegistration.consent"
           /\ Heard("m:registration:confirm", s) => s = "MasterRegistration.confirm"
           /\ Heard("m:registration:restart", s) => s = "MasterRegistration.confirm"
  <1>1. /\ <<k, "m:pd:agree">> \in Keyboards => k = "mreg.consent"
        /\ <<k, "m:pd:back">> \in Keyboards => k = "mreg.declined"
        /\ <<k, "m:pd:disagree">> \in Keyboards => k = "mreg.consent"
        /\ <<k, "m:pd:policy">> \in Keyboards => k = "mreg.consent"
        /\ <<k, "m:registration:confirm">> \in Keyboards => k = "mreg.confirm"
        /\ <<k, "m:registration:restart">> \in Keyboards => k = "mreg.confirm"
    BY DEF Keyboards, ClientBookingKeyboards, AddBookingKeyboards, RescheduleKeyboards,
           WorkdayKeyboards, MasterRegistrationKeyboards, ClientRegistrationKeyboards,
           AddClientKeyboards, EditClientKeyboards, SettingsKeyboards, OtherKeyboards
  <1>2. /\ <<"m:pd:agree", "MasterRegistration.consent">> \in Filters
        /\ <<"m:pd:back", "MasterRegistration.consent_declined">> \in Filters
        /\ <<"m:pd:disagree", "MasterRegistration.consent">> \in Filters
        /\ <<"m:pd:policy", "MasterRegistration.consent">> \in Filters
        /\ <<"m:registration:confirm", "MasterRegistration.confirm">> \in Filters
        /\ <<"m:registration:restart", "MasterRegistration.confirm">> \in Filters
    BY DEF Filters, MasterRegistrationFilters
  <1>3. /\ Heard("m:pd:agree", s) => s = "MasterRegistration.consent"
        /\ Heard("m:pd:back", s) => s = "MasterRegistration.consent_declined"
        /\ Heard("m:pd:disagree", s) => s = "MasterRegistration.consent"
        /\ Heard("m:pd:policy", s) => s = "MasterRegistration.consent"
        /\ Heard("m:registration:confirm", s) => s = "MasterRegistration.confirm"
        /\ Heard("m:registration:restart", s) => s = "MasterRegistration.confirm"
    BY <1>2 DEF Heard, Filters, ClientBookingFilters, AddBookingFilters,
           RescheduleFilters, WorkdayFilters, MasterRegistrationFilters,
           ClientRegistrationFilters, AddClientFilters, EditClientFilters, AddBookingCancel,
           EditClientOpen
  <1> QED
    BY <1>1, <1>3

LEMMA ClientRegistrationTaps ==
    ASSUME NEW k, NEW s
    PROVE  /\ <<k, "c:pd:agree">> \in Keyboards => k = "creg.consent"
           /\ <<k, "c:pd:back">> \in Keyboards => k = "creg.declined"
           /\ <<k, "c:pd:disagree">> \in Keyboards => k = "creg.consent"
           /\ <<k, "c:pd:policy">> \in Keyboards => k = "creg.consent"
           /\ <<k, "c:registration:confirm">> \in Keyboards => k = "creg.confirm"
           /\ <<k, "c:registration:restart">> \in Keyboards => k = "creg.confirm"
           /\ Heard("c:pd:agree", s) => s = "ClientRegistration.consent"
           /\ Heard("c:pd:back", s) => s = "ClientRegistration.consent_declined"
           /\ Heard("c:pd:disagree", s) => s = "ClientRegistration.consent"
           /\ Heard("c:pd:policy", s) => s = "ClientRegistration.consent"
           /\ Heard("c:registration:confirm", s) => s = "ClientRegistration.confirm"
           /\ Heard("c:registration:restart", s) => s = "ClientRegistration.confirm"
  <1>1. /\ <<k, "c:pd:agree">> \in Keyboards => k = "creg.consent"
        /\ <<k, "c:pd:back">> \in Keyboards => k = "creg.declined"
        /\ <<k, "c:pd:disagree">> \in Keyboards => k = "creg.consent"
        /\ <<k, "c:pd:policy">> \in Keyboards => k = "creg.consent"
        /\ <<k, "c:registration:confirm">> \in Keyboards => k = "creg.confirm"
        /\ <<k, "c:registration:restart">> \in Keyboards => k = "creg.confirm"
    BY DEF Keyboards, ClientBookingKeyboards, AddBookingKeyboards, RescheduleKeyboards,
           WorkdayKeyboards, MasterRegistrationKeyboards, ClientRegistrationKeyboards,
           AddClientKeyboards, EditClientKeyboards, SettingsKeyboards, OtherKeyboards
  <1>2. /\ <<"c:pd:agree", "ClientRegistration.consent">> \in Filters
        /\ <<"c:pd:back", "ClientRegistration.consent_declined">> \in Filters
        /\ <<"c:pd:disagree", "ClientRegistration.consent">> \in Filters
        /\ <<"c:pd:policy", "ClientRegistration.consent">> \in Filters
        /\ <<"c:registration:confirm", "ClientRegistration.confirm">> \in Filters
        /\ <<"c:registration:restart", "ClientRegistration.confirm">> \in Filters
    BY DEF Filters, ClientRegistrationFilters
  <1>3. /\ Heard("c:pd:agree", s) => s = "ClientRegistration.consent"
        /\ Heard("c:pd:back", s) => s = "ClientRegistration.consent_declined"
        /\ Heard("c:pd:disagree", s) => s = "ClientRegistration.consent"
        /\ Heard("c:pd:policy", s) => s = "ClientRegistration.consent"
        /\ Heard("c:registration:confirm", s) => s = "ClientRegistration.confirm"
        /\ Heard("c:registration:restart", s) => s = "ClientRegistration.confirm"
    BY <1>2 DEF Heard, Filters, ClientBookingFilters, AddBookingFilters,
           RescheduleFilters, WorkdayFilters, MasterRegistrationFilters,
           ClientRegistrationFilters, AddClientFilters, EditClientFilters, AddBookingCancel,
           EditClientOpen
  <1> QED
    BY <1>1, <1>3

LEMMA AddClientTaps ==
    ASSUME NEW k, NEW s
    PROVE  /\ <<k, "m:add_client:confirm">> \in Keyboards => k = "client.confirm"
           /\ <<k, "m:add_client:restart">> \in Keyboards => k = "client.confirm"
           /\ Heard("m:add_client:confirm", s) => s = "AddClient.confirm"
           /\ Heard("m:add_client:restart", s) => s = "AddClient.confirm"
  <1>1. /\ <<k, "m:add_client:confirm">> \in Keyboards => k = "client.confirm"
        /\ <<k, "m:add_client:restart">> \in Keyboards => k = "client.confirm"
    BY DEF Keyboards, ClientBookingKeyboards, AddBookingKeyboards, RescheduleKeyboards,
           WorkdayKeyboards, MasterRegistrationKeyboards, ClientRegistrationKeyboards,
           AddClientKeyboards, EditClientKeyboards, SettingsKeyboards, OtherKeyboards
  <1>2. /\ <<"m:add_client:confirm", "AddClient.confirm">> \in Filters
        /\ <<"m:add_client:restart", "AddClient.confirm">> \in Filters
    BY DEF Filters, AddClientFilters
  <1>3. /\ Heard("m:add_client:confirm", s) => s = "AddClient.confirm"
        /\ Heard("m:add_client:restart", s) => s = "AddClient.confirm"
    BY <1>2 DEF Heard, Filters, ClientBookingFilters, AddBookingFilters,
           RescheduleFilters, WorkdayFilters, MasterRegistrationFilters,
           ClientRegistrationFilters, AddClientFilters, EditClientFilters, AddBookingCancel,
           EditClientOpen
  <1> QED
    BY <1>1, <1>3

LEMMA EditClientTaps ==
    ASSUME NEW k, NEW s
    PROVE  /\ <<k, "m:edit_client:book">> \in Keyboards => k = "edit.view"
           /\ <<k, "m:edit_client:edit_menu">> \in Keyboards => k \in {"edit.view", "edit.input"}
           /\ <<k, "m:edit_client:edit_name">> \in Keyboards => k = "edit.menu"
           /\ <<k, "m:edit_client:edit_phone">> \in Keyboards => k = "edit.menu"
           /\ <<k, "m:edit_client:open">> \in Keyboards => k = "client card"
           /\ <<k, "m:edit_client:pick">> \in Keyboards => k \in {"edit.results", "edit.picked"}
           /\ <<k, "m:edit_client:view">> \in Keyboards => k = "edit.menu"
           /\ Heard("m:edit_client:edit_name", s) => s = "EditClient.action"
           /\ Heard("m:edit_client:edit_phone", s) => s = "EditClient.action"
           /\ Heard("m:edit_client:pick", s) => s = "EditClient.choosing"
  <1>1. /\ <<k, "m:edit_client:book">> \in Keyboards => k = "edit.view"
        /\ <<k, "m:edit_client:edit_menu">> \in Keyboards => k \in {"edit.view", "edit.input"}
        /\ <<k, "m:edit_client:edit_name">> \in Keyboards => k = "edit.menu"
        /\ <<k, "m:edit_client:edit_phone">> \in Keyboards => k = "edit.menu"
        /\ <<k, "m:edit_client:open">> \in Keyboards => k = "client card"
        /\ <<k, "m:edit_client:pick">> \in Keyboards => k \in {"edit.results", "edit.picked"}
        /\ <<k, "m:edit_client:view">> \in Keyboards => k = "edit.menu"
    BY DEF Keyboards, ClientBookingKeyboards, AddBookingKeyboards, RescheduleKeyboards,
           WorkdayKeyboards, MasterRegistrationKeyboards, ClientRegistrationKeyboards,
           AddClientKeyboards, EditClientKeyboards, SettingsKeyboards, OtherKeyboards
  <1>2. /\ <<"m:edit_client:edit_name", "EditClient.action">> \in Filters
        /\ <<"m:edit_client:edit_phone", "EditClient.action">> \in Filters
        /\ <<"m:edit_client:pick", "EditClient.choosing">> \in Filters
    BY DEF Filters, EditClientFilters
  <1>3. /\ Heard("m:edit_client:edit_name", s) => s = "EditClient.action"
        /\ Heard("m:edit_client:edit_phone", s) => s = "EditClient.action"
        /\ Heard("m:edit_client:pick", s) => s = "EditClient.choosing"
    BY <1>2 DEF Heard, Filters, ClientBookingFilters, AddBookingFilters,
           RescheduleFilters, WorkdayFilters, MasterRegistrationFilters,
           ClientRegistrationFilters, AddClientFilters, EditClientFilters, AddBookingCancel,
           EditClientOpen
  <1> QED
    BY <1>1, <1>3

LEMMA OtherTaps ==
    ASSUME NEW k, NEW s
    PROVE  /\ <<k, "m:b:reschedule">> \in Keyboards => k = "schedule"
           /\ <<k, "m:clients:book">> \in Keyboards => k = "client card"
           /\ <<k, "masters:alias">> \in Keyboards => k = "master card"
           /\ <<k, "masters:book">> \in Keyboards => k = "master card"
           /\ <<k, "masters:close">> \in Keyboards => k = "master card"
           /\ <<k, "masters:open">> \in Keyboards => k = "alias.prompt"
  <1>1. /\ <<k, "m:b:reschedule">> \in Keyboards => k = "schedule"
        /\ <<k, "m:clients:book">> \in Keyboards => k = "client card"
        /\ <<k, "masters:alias">> \in Keyboards => k = "master card"
        /\ <<k, "masters:book">> \in Keyboards => k = "master card"
        /\ <<k, "masters:close">> \in Keyboards => k = "master card"
        /\ <<k, "masters:open">> \in Keyboards => k = "alias.prompt"
    BY DEF Keyboards, ClientBookingKeyboards, AddBookingKeyboards, RescheduleKeyboards,
           WorkdayKeyboards, MasterRegistrationKeyboards, ClientRegistrationKeyboards,
           AddClientKeyboards, EditClientKeyboards, SettingsKeyboards, OtherKeyboards
  <1> QED
    BY <1>1

-----------------------------------------------------------------------------
(* The buttons of each kind of message, and the states the kind belongs to. *)

\* Every button of a message of kind k has a handler in state s
Home(k, s) == \A b : <<k, b>> \in Keyboards => Heard(b, s)

\* ... or asks for no state
Free(k) == \A b, t : <<k, b>> \in Keyboards => <<b, t>> \notin Filters

LEMMA ClientBookingKeys ==
    ASSUME NEW b
    PROVE  /\ <<"book.masters", b>> \in Keyboards <=> b \in {"book:master", "book:cancel_flow"}
           /\ <<"book.calendar", b>> \in Keyboards <=> b \in {"book:mc:m", "book:mc:d",
                  "book:cancel_flow"}
           /\ <<"book.slots", b>> \in Keyboards <=> b \in {"book:slot", "book:back:calendar",
                  "book:cancel_flow"}
           /\ <<"book.confirm", b>> \in Keyboards <=> b \in {"book:confirm", "book:back:slots",
                  "book:cancel"}
  BY DEF Keyboards, ClientBookingKeyboards, AddBookingKeyboards, RescheduleKeyboards,
           WorkdayKeyboards, MasterRegistrationKeyboards, ClientRegistrationKeyboards,
           AddClientKeyboards, EditClientKeyboards, SettingsKeyboards, OtherKeyboards

LEMMA AddBookingKeys ==
    ASSUME NEW b
    PROVE  /\ <<"add.noclients",
                  b>> \in Keyboards <=> b \in {"m:add_booking:no_clients:add_client",
                         "m:add_booking:cancel"}
           /\ <<"add.prompt", b>> \in Keyboards <=> b \in {"m:add_booking:cancel"}
           /\ <<"add.clients", b>> \in Keyboards <=> b \in {"m:add_booking:client",
                  "m:add_booking:cancel"}
           /\ <<"add.calendar", b>> \in Keyboards <=> b \in {"m:add_booking:mc:m",
                  "m:add_booking:mc:d", "m:add_booking:mc:pro",
                        "m:add_booking:mc:cancel", "m:add_booking:cancel"}
           /\ <<"add.paywall", b>> \in Keyboards <=> b \in {"m:add_booking:mc:m"}
           /\ <<"add.slots", b>> \in Keyboards <=> b \in {"m:add_booking:slot",
                  "m:add_booking:slots:back",
                        "m:add_booking:cancel"}
           /\ <<"add.confirm", b>> \in Keyboards <=> b \in {"m:add_booking:confirm",
                  "m:add_booking:confirm:back",
                        "m:add_booking:cancel"}
  BY DEF Keyboards, ClientBookingKeyboards, AddBookingKeyboards, RescheduleKeyboards,
           WorkdayKeyboards, MasterRegistrationKeyboards, ClientRegistrationKeyboards,
           AddClientKeyboards, EditClientKeyboards, SettingsKeyboards, OtherKeyboards

LEMMA RescheduleKeys ==
    ASSUME NEW b
    PROVE  /\ <<"move.calendar", b>> \in Keyboards <=> b \in {"m:reschedule:mc:m",
                  "m:reschedule:mc:d", "m:reschedule:mc:pro",
                        "m:reschedule:back_card", "m:close"}
           /\ <<"move.paywall", b>> \in Keyboards <=> b \in {"m:reschedule:mc:m"}
           /\ <<"move.slots", b>> \in Keyboards <=> b \in {"m:reschedule:slot",
                  "m:reschedule:back_calendar", "m:close"}
           /\ <<"move.confirm", b>> \in Keyboards <=> b \in {"m:reschedule:confirm",
                  "m:reschedule:back_slots", "m:close"}
  BY DEF Keyboards, ClientBookingKeyboards, AddBookingKeyboards, RescheduleKeyboards,
           WorkdayKeyboards, MasterRegistrationKeyboards, ClientRegistrationKeyboards,
           AddClientKeyboards, EditClientKeyboards, SettingsKeyboards, OtherKeyboards

LEMMA WorkdayKeys ==
    ASSUME NEW b
    PROVE  /\ <<"day.calendar", b>> \in Keyboards <=> b \in {"m:overrides:mc:m",
                  "m:overrides:mc:d", "m:overrides:back_schedule",
                        "m:close"}
           /\ <<"day.menu", b>> \in Keyboards <=> b \in {"m:overrides:make_day_off",
                  "m:overrides:make_working",
                        "m:overrides:set_hours", "m:overrides:back_schedule", "m:close"}
           /\ <<"day.back", b>> \in Keyboards <=> b \in {"m:overrides:back_day", "m:close"}
  BY DEF Keyboards, ClientBookingKeyboards, AddBookingKeyboards, RescheduleKeyboards,
           WorkdayKeyboards, MasterRegistrationKeyboards, ClientRegistrationKeyboards,
           AddClientKeyboards, EditClientKeyboards, SettingsKeyboards, OtherKeyboards

LEMMA MasterRegistrationKeys ==
    ASSUME NEW b
    PROVE  /\ <<"mreg.consent", b>> \in Keyboards <=> b \in {"m:pd:agree", "m:pd:disagree",
                  "m:pd:policy"}
           /\ <<"mreg.declined", b>> \in Keyboards <=> b \in {"m:pd:understood", "m:pd:back",
                  "m:close"}
           /\ <<"mreg.cancel", b>> \in Keyboards <=> b \in {"m:registration:cancel", "m:close"}
           /\ <<"mreg.confirm", b>> \in Keyboards <=> b \in {"m:registration:confirm",
                  "m:registration:restart",
                        "m:registration:cancel", "m:close"}
  BY DEF Keyboards, ClientBookingKeyboards, AddBookingKeyboards, RescheduleKeyboards,
           WorkdayKeyboards, MasterRegistrationKeyboards, ClientRegistrationKeyboards,
           AddClientKeyboards, EditClientKeyboards, SettingsKeyboards, OtherKeyboards

LEMMA ClientRegistrationKeys ==
    ASSUME NEW b
    PROVE  /\ <<"creg.consent", b>> \in Keyboards <=> b \in {"c:pd:agree", "c:pd:disagree",
                  "c:pd:policy", "c:registration:cancel"}
           /\ <<"creg.declined", b>> \in Keyboards <=> b \in {"c:pd:understood", "c:pd:back",
                  "c:registration:cancel"}
           /\ <<"creg.cancel", b>> \in Keyboards <=> b \in {"c:registration:cancel"}
           /\ <<"creg.confirm", b>> \in Keyboards <=> b \in {"c:registration:confirm",
                  "c:registration:restart",
                        "c:registration:cancel"}
  BY DEF Keyboards, ClientBookingKeyboards, AddBookingKeyboards, RescheduleKeyboards,
           WorkdayKeyboards, MasterRegistrationKeyboards, ClientRegistrationKeyboards,
           AddClientKeyboards, EditClientKeyboards, SettingsKeyboards, OtherKeyboards

LEMMA AddClientKeys ==
    ASSUME NEW b
    PROVE  /\ <<"client.cancel", b>> \in Keyboards <=> b \in {"m:add_client:cancel"}
           /\ <<"client.confirm", b>> \in Keyboards <=> b \in {"m:add_client:confirm",
                  "m:add_client:restart", "m:add_client:cancel"}
  BY DEF Keyboards, ClientBookingKeyboards, AddBookingKeyboards, RescheduleKeyboards,
           WorkdayKeyboards, MasterRegistrationKeyboards, ClientRegistrationKeyboards,
           AddClientKeyboards, EditClientKeyboards, SettingsKeyboards, OtherKeyboards

LEMMA EditClientKeys ==
    ASSUME NEW b
    PROVE  /\ <<"edit.prompt", b>> \in Keyboards <=> b \in {"m:edit_client:cancel"}
           /\ <<"edit.results", b>> \in Keyboards <=> b \in {"m:edit_client:pick",
                  "m:edit_client:back", "m:edit_client:cancel"}
           /\ <<"edit.picked", b>> \in Keyboards <=> b \in {"m:edit_client:pick",
                  "m:edit_client:back", "m:edit_client:cancel"}
           /\ <<"edit.view", b>> \in Keyboards <=> b \in {"m:edit_client:book",
                  "m:edit_client:edit_menu", "m:edit_client:back",
                        "m:edit_client:cancel"}
           /\ <<"edit.menu", b>> \in Keyboards <=> b \in {"m:edit_client:edit_name",
                  "m:edit_client:edit_phone",
                        "m:edit_client:view"}
           /\ <<"edit.input", b>> \in Keyboards <=> b \in {"m:edit_client:edit_menu"}
  BY DEF Keyboards, ClientBookingKeyboards, AddBookingKeyboards, RescheduleKeyboards,
           WorkdayKeyboards, MasterRegistrationKeyboards, ClientRegistrationKeyboards,
           AddClientKeyboards, EditClientKeyboards, SettingsKeyboards, OtherKeyboards

LEMMA SettingsKeys ==
    ASSUME NEW b
    PROVE  /\ <<"settings", b>> \in Keyboards <=> b \in {"settings:menu", "settings:edit",
                  "settings:back",
                        "settings:delete_confirm"}
           /\ <<"settings.prompt", b>> \in Keyboards <=> b \in {"settings:cancel_edit"}
  BY DEF Keyboards, ClientBookingKeyboards, AddBookingKeyboards, RescheduleKeyboards,
           WorkdayKeyboards, MasterRegistrationKeyboards, ClientRegistrationKeyboards,
           AddClientKeyboards, EditClientKeyboards, SettingsKeyboards, OtherKeyboards

LEMMA OtherKeys ==
    ASSUME NEW b
    PROVE  /\ <<"schedule", b>> \in Keyboards <=> b \in {"m:b:reschedule", "m:overrides:start"}
           /\ <<"client card", b>> \in Keyboards <=> b \in {"m:clients:book", "m:edit_client:open"}
           /\ <<"master card", b>> \in Keyboards <=> b \in {"masters:book", "masters:alias",
                  "masters:close"}
           /\ <<"alias.prompt", b>> \in Keyboards <=> b \in {"masters:open"}
           /\ <<"paywall", b>> \in Keyboards <=> b \in {}
           /\ <<"bare", b>> \in Keyboards <=> b \in {}
  BY DEF Keyboards, ClientBookingKeyboards, AddBookingKeyboards, RescheduleKeyboards,
           WorkdayKeyboards, MasterRegistrationKeyboards, ClientRegistrationKeyboards,
           AddClientKeyboards, EditClientKeyboards, SettingsKeyboards, OtherKeyboards

LEMMA Unfiltered ==
    ASSUME NEW t
    PROVE  /\ <<"m:b:reschedule", t>> \notin Filters
           /\ <<"m:clients:book", t>> \notin Filters
           /\ <<"m:close", t>> \notin Filters
           /\ <<"m:edit_client:book", t>> \notin Filters
           /\ <<"m:edit_client:edit_menu", t>> \notin Filters
           /\ <<"m:edit_client:open", t>> \notin Filters
           /\ <<"m:edit_client:view", t>> \notin Filters
           /\ <<"m:overrides:start", t>> \notin Filters
           /\ <<"masters:alias", t>> \notin Filters
           /\ <<"masters:book", t>> \notin Filters
           /\ <<"masters:close", t>> \notin Filters
           /\ <<"masters:open", t>> \notin Filters
           /\ <<"settings:back", t>> \notin Filters
           /\ <<"settings:cancel_edit", t>> \notin Filters
           /\ <<"settings:delete_confirm", t>> \notin Filters
           /\ <<"settings:edit", t>> \notin Filters
           /\ <<"settings:menu", t>> \notin Filters
  BY DEF Filters, ClientBookingFilters, AddBookingFilters,
           RescheduleFilters, WorkdayFilters, MasterRegistrationFilters,
           ClientRegistrationFilters, AddClientFilters, EditClientFilters, AddBookingCancel,
           EditClientOpen

LEMMA ClientBookingHome ==
    /\ Home("book.masters", "ClientBooking.selecting_master")
    /\ Home("book.calendar", "ClientBooking.selecting_date")
    /\ Home("book.slots", "ClientBooking.selecting_slot")
    /\ Home("book.confirm", "ClientBooking.confirm")
  BY ClientBookingKeys DEF Home, Heard, Filters, ClientBookingFilters

LEMMA AddBookingHome ==
    /\ Home("add.noclients", "AddBooking.no_clients")
    /\ Home("add.prompt", "AddBooking.search_client")
    /\ Home("add.clients", "AddBooking.search_client")
    /\ Home("add.calendar", "AddBooking.selecting_date")
    /\ Home("add.paywall", "AddBooking.selecting_date")
    /\ Home("add.slots", "AddBooking.selecting_slot")
    /\ Home("add.confirm", "AddBooking.confirm")
  BY AddBookingKeys DEF Home, Heard, Filters, AddBookingFilters, AddBookingCancel

LEMMA RescheduleHome ==
    /\ Home("move.calendar", "Reschedule.selecting_date")
    /\ Home("move.paywall", "Reschedule.selecting_date")
    /\ Home("move.slots", "Reschedule.selecting_slot")
    /\ Home("move.confirm", "Reschedule.confirm")
  BY RescheduleKeys, Unfiltered DEF Home, Heard, Filters, RescheduleFilters

LEMMA WorkdayHome ==
    /\ Home("day.calendar", "Workday.picking_date")
    /\ Home("day.menu", "Workday.choosing_action")
    /\ Home("day.back", "Workday.choosing_action")
    /\ Home("day.back", "Workday.setting_start")
    /\ Home("day.back", "Workday.setting_end")
  BY WorkdayKeys, Unfiltered DEF Home, Heard, Filters, WorkdayFilters

LEMMA MasterRegistrationHome ==
    /\ Home("mreg.consent", "MasterRegistration.consent")
    /\ Home("mreg.declined", "MasterRegistration.consent_declined")
    /\ Home("mreg.cancel", "MasterRegistration.name")
    /\ Home("mreg.cancel", "MasterRegistration.phone")
    /\ Home("mreg.cancel", "MasterRegistration.work_days")
    /\ Home("mreg.cancel", "MasterRegistration.work_time")
    /\ Home("mreg.cancel", "MasterRegistration.slot_size")
    /\ Home("mreg.confirm", "MasterRegistration.confirm")
  <1>1. Home("mreg.consent", "MasterRegistration.consent")
    BY MasterRegistrationKeys DEF Home, Heard, Filters, MasterRegistrationFilters
  <1>2. Home("mreg.declined", "MasterRegistration.consent_declined")
    BY MasterRegistrationKeys, Unfiltered DEF Home, Heard, Filters, MasterRegistrationFilters
  <1>3. \A s \in {"MasterRegistration.name", "MasterRegistration.phone",
                  "MasterRegistration.work_days", "MasterRegistration.work_time",
                  "MasterRegistration.slot_size"} :
           Heard("m:registration:cancel", s) /\ Heard("m:close", s)
    BY Unfiltered DEF Heard, Filters, MasterRegistrationFilters
  <1>4. /\ Home("mreg.cancel", "MasterRegistration.name")
        /\ Home("mreg.cancel", "MasterRegistration.phone")
        /\ Home("mreg.cancel", "MasterRegistration.work_days")
        /\ Home("mreg.cancel", "MasterRegistration.work_time")
        /\ Home("mreg.cancel", "MasterRegistration.slot_size")
    BY <1>3, MasterRegistrationKeys DEF Home
  <1>5. Home("mreg.confirm", "MasterRegistration.confirm")
    BY MasterRegistrationKeys, Unfiltered DEF Home, Heard, Filters, MasterRegistrationFilters
  <1> QED
    BY <1>1, <1>2, <1>4, <1>5

LEMMA ClientRegistrationHome ==
    /\ Home("creg.cancel", "ClientRegistration.name")
    /\ Home("creg.cancel", "ClientRegistration.phone")
    /\ Home("creg.confirm", "ClientRegistration.confirm")
  BY ClientRegistrationKeys DEF Home, Heard, Filters, ClientRegistrationFilters

LEMMA AddClientHome ==
    /\ Home("client.cancel", "AddClient.name")
    /\ Home("client.cancel", "AddClient.phone")
    /\ Home("client.confirm", "AddClient.confirm")
  BY AddClientKeys DEF Home, Heard, Filters, AddClientFilters

LEMMA EditClientHome ==
    /\ Home("edit.prompt", "EditClient.query")
    /\ Home("edit.prompt", "EditClient.action")
    /\ Home("edit.prompt", "EditClient.edit_name")
    /\ Home("edit.prompt", "EditClient.edit_phone")
    /\ Home("edit.results", "EditClient.choosing")
    /\ Home("edit.picked", "EditClient.choosing")
    /\ Home("edit.view", "EditClient.action")
    /\ Home("edit.menu", "EditClient.action")
  BY EditClientKeys, Unfiltered DEF Home, Heard, Filters, EditClientFilters, EditClientOpen

LEMMA FreeKinds ==
    \A k \in {"settings", "settings.prompt", "schedule", "client card", "master card",
            "alias.prompt", "paywall", "bare", "edit.input"} : Free(k)
  <1>1. /\ Free("settings")
        /\ Free("settings.prompt")
        /\ Free("schedule")
        /\ Free("client card")
        /\ Free("master card")
        /\ Free("alias.prompt")
        /\ Free("paywall")
        /\ Free("bare")
        /\ Free("edit.input")
    BY EditClientKeys, SettingsKeys, OtherKeys, Unfiltered DEF Free
  <1> QED
    BY <1>1

\* The kinds of message of a table
LEMMA WorkdayKinds == Rows(WorkdayKeyboards) = {"day.calendar", "day.menu", "day.back"}
  <1>1. Pairs(WorkdayKeyboards)
    BY PairsProduct, PairsUnion DEF WorkdayKeyboards
  <1>2. \A k : k \in Rows(WorkdayKeyboards) <=> \E b : <<k, b>> \in WorkdayKeyboards
    BY <1>1 DEF Rows, Pairs
  <1>3. \A k, b : <<k, b>> \in WorkdayKeyboards => k \in {"day.calendar", "day.menu", "day.back"}
    BY DEF WorkdayKeyboards
  <1>4. /\ <<"day.calendar", "m:close">> \in WorkdayKeyboards
        /\ <<"day.menu", "m:close">> \in WorkdayKeyboards
        /\ <<"day.back", "m:close">> \in WorkdayKeyboards
    BY DEF WorkdayKeyboards
  <1> QED
    BY <1>2, <1>3, <1>4

LEMMA EditClientKinds ==
    Rows(EditClientKeyboards) =
        {"edit.prompt", "edit.results", "edit.picked", "edit.view", "edit.menu", "edit.input"}
  <1>1. Pairs(EditClientKeyboards)
    BY PairsProduct, PairsUnion DEF EditClientKeyboards
  <1>2. \A k : k \in Rows(EditClientKeyboards) <=> \E b : <<k, b>> \in EditClientKeyboards
    BY <1>1 DEF Rows, Pairs
  <1>3. \A k, b : <<k, b>> \in EditClientKeyboards =>
            k \in {"edit.prompt", "edit.results", "edit.picked", "edit.view", "edit.menu",
                   "edit.input"}
    BY DEF EditClientKeyboards
  <1>4. /\ <<"edit.prompt", "m:edit_client:cancel">> \in EditClientKeyboards
        /\ <<"edit.results", "m:edit_client:cancel">> \in EditClientKeyboards
        /\ <<"edit.picked", "m:edit_client:cancel">> \in EditClientKeyboards
        /\ <<"edit.view", "m:edit_client:cancel">> \in EditClientKeyboards
        /\ <<"edit.menu", "m:edit_client:view">> \in EditClientKeyboards
        /\ <<"edit.input", "m:edit_client:edit_menu">> \in EditClientKeyboards
    BY DEF EditClientKeyboards
  <1> QED
    BY <1>2, <1>3, <1>4

LEMMA SettingsKinds == Rows(SettingsKeyboards) = {"settings", "settings.prompt"}
  <1>1. Pairs(SettingsKeyboards)
    BY PairsProduct, PairsUnion DEF SettingsKeyboards
  <1>2. \A k : k \in Rows(SettingsKeyboards) <=> \E b : <<k, b>> \in SettingsKeyboards
    BY <1>1 DEF Rows, Pairs
  <1>3. \A k, b : <<k, b>> \in SettingsKeyboards => k \in {"settings", "settings.prompt"}
    BY DEF SettingsKeyboards
  <1>4. /\ <<"settings", "settings:menu">> \in SettingsKeyboards
        /\ <<"settings.prompt", "settings:cancel_edit">> \in SettingsKeyboards
    BY DEF SettingsKeyboards
  <1> QED
    BY <1>2, <1>3, <1>4

LEMMA KindNames ==
    {"book.masters", "book.calendar", "book.slots", "book.confirm", "add.noclients",
     "add.prompt", "add.clients", "add.calendar", "add.paywall", "add.slots", "add.confirm",
     "move.calendar", "move.paywall", "move.slots", "move.confirm", "day.calendar", "day.menu",
     "day.back", "mreg.consent", "mreg.declined", "mreg.cancel", "mreg.confirm",
     "creg.consent", "creg.declined", "creg.cancel", "creg.confirm", "client.cancel",
     "client.confirm", "edit.prompt", "edit.results", "edit.picked", "edit.view", "edit.menu",
     "edit.input", "settings", "settings.prompt", "schedule", "client card", "master card",
     "alias.prompt", "paywall", "bare"} \subseteq Kinds
  <1>1. \A k, b : <<k, b>> \in Keyboards => k \in Kinds
    BY DEF Kinds, Rows
  <1>2. {"paywall", "bare"} \subseteq Kinds
    BY DEF Kinds
  <1>3. {"book.masters", "book.calendar", "book.slots", "book.confirm"} \subseteq Kinds
    BY <1>1, ClientBookingKeys
  <1>4. {"add.noclients", "add.prompt", "add.clients", "add.calendar", "add.paywall",
        "add.slots", "add.confirm"} \subseteq Kinds
    BY <1>1, AddBookingKeys
  <1>5. {"move.calendar", "move.paywall", "move.slots", "move.confirm"} \subseteq Kinds
    BY <1>1, RescheduleKeys
  <1>6. {"day.calendar", "day.menu", "day.back"} \subseteq Kinds
    BY <1>1, WorkdayKeys
  <1>7. {"mreg.consent", "mreg.declined", "mreg.cancel", "mreg.confirm"} \subseteq Kinds
    BY <1>1, MasterRegistrationKeys
  <1>8. {"creg.consent", "creg.declined", "creg.cancel", "creg.confirm"} \subseteq Kinds
    BY <1>1, ClientRegistrationKeys
  <1>9. {"client.cancel", "client.confirm"} \subseteq Kinds
    BY <1>1, AddClientKeys
  <1>10. {"edit.prompt", "edit.results", "edit.picked", "edit.view", "edit.menu",
         "edit.input"} \subseteq Kinds
    BY <1>1, EditClientKeys
  <1>11. {"settings", "settings.prompt"} \subseteq Kinds
    BY <1>1, SettingsKeys
  <1>12. {"schedule", "client card", "master card", "alias.prompt"} \subseteq Kinds
    BY <1>1, OtherKeys
  <1> QED
    BY <1>2, <1>3, <1>4, <1>5, <1>6, <1>7, <1>8, <1>9, <1>10, <1>11, <1>12

LEMMA StateNames ==
    {"none", "Settings.edit", "Masters.edit_alias", "AddBooking.confirm",
     "AddBooking.no_clients", "AddBooking.search_client", "AddBooking.selecting_date",
     "AddBooking.selecting_slot", "AddClient.confirm", "AddClient.name", "AddClient.phone",
     "ClientBooking.confirm", "ClientBooking.selecting_date", "ClientBooking.selecting_master",
     "ClientBooking.selecting_slot", "ClientRegistration.confirm",
     "ClientRegistration.consent", "ClientRegistration.consent_declined",
     "ClientRegistration.name", "ClientRegistration.phone", "EditClient.action",
     "EditClient.choosing", "EditClient.edit_name", "EditClient.edit_phone",
     "EditClient.query", "MasterRegistration.confirm", "MasterRegistration.consent",
     "MasterRegistration.consent_declined", "MasterRegistration.name",
     "MasterRegistration.phone", "MasterRegistration.slot_size",
     "MasterRegistration.work_days", "MasterRegistration.work_time", "Reschedule.confirm",
     "Reschedule.selecting_date", "Reschedule.selecting_slot", "Workday.choosing_action",
     "Workday.picking_date", "Workday.setting_end", "Workday.setting_start"} \subseteq States
  <1>1. \A b, s : <<b, s>> \in Filters => s \in States
    BY DEF States
  <1>2. {"none", "Settings.edit", "Masters.edit_alias"} \subseteq States
    BY DEF States
  <1>3. {"ClientBooking.confirm", "ClientBooking.selecting_date",
        "ClientBooking.selecting_master", "ClientBooking.selecting_slot"} \subseteq States
    BY <1>1 DEF Filters, ClientBookingFilters
  <1>4. {"AddBooking.confirm", "AddBooking.no_clients", "AddBooking.search_client",
        "AddBooking.selecting_date", "AddBooking.selecting_slot"} \subseteq States
    BY <1>1 DEF Filters, AddBookingFilters, AddBookingCancel
  <1>5. {"Reschedule.confirm", "Reschedule.selecting_date",
        "Reschedule.selecting_slot"} \subseteq States
    BY <1>1 DEF Filters, RescheduleFilters
  <1>6. {"Workday.choosing_action", "Workday.picking_date", "Workday.setting_end",
        "Workday.setting_start"} \subseteq States
    BY <1>1 DEF Filters, WorkdayFilters
  <1>7. {"MasterRegistration.confirm", "MasterRegistration.consent",
        "MasterRegistration.consent_declined", "MasterRegistration.name",
        "MasterRegistration.phone", "MasterRegistration.slot_size",
        "MasterRegistration.work_days", "MasterRegistration.work_time"} \subseteq States
    BY <1>1 DEF Filters, MasterRegistrationFilters
  <1>8. {"ClientRegistration.confirm", "ClientRegistration.consent",
        "ClientRegistration.consent_declined", "ClientRegistration.name",
        "ClientRegistration.phone"} \subseteq States
    BY <1>1 DEF Filters, ClientRegistrationFilters
  <1>9. {"AddClient.confirm", "AddClient.name", "AddClient.phone"} \subseteq States
    BY <1>1 DEF Filters, AddClientFilters
  <1>10. {"EditClient.action", "EditClient.choosing", "EditClient.edit_name",
        "EditClient.edit_phone", "EditClient.query"} \subseteq States
    BY <1>1 DEF Filters, EditClientFilters, EditClientOpen
  <1> QED
    BY <1>2, <1>3, <1>4, <1>5, <1>6, <1>7, <1>8, <1>9, <1>10

-----------------------------------------------------------------------------
(* Chats, and what a message becomes.                                      *)

Shown == Days \cup People \cup {NoDay}

Messages == [kind : Kinds, shows : Shown, tracked : BOOLEAN, front : BOOLEAN, main : BOOLEAN]

OneFront(c) == \A i, j \in DOMAIN c : c[i].front /\ c[j].front => i = j

Chats == {c \in UNION {[1..n -> Messages] : n \in 0..MaxScreens} : OneFront(c)}

\* What is left of a message once a handler has gone over it without drawing it
Weaker(m, m0) ==
    /\ m.kind \in {m0.kind, "bare"}
    /\ m.shows = m0.shows
    /\ m.front => m0.front
    /\ m.main => m0.main

Below(c, d) == \A n \in DOMAIN c : \E k \in DOMAIN d : Weaker(c[n], d[k])

\* ... and it is not the dialog's own any more
Faint(m, d) == ~m.front /\ \E k \in DOMAIN d : Weaker(m, d[k])

-----------------------------------------------------------------------------
(* What the operators of Chat make of a chat.                              *)

LEMMA ChatType ==
    ASSUME NEW c
    PROVE  c \in Chats <=> /\ c \in Seq(Messages) /\ Len(c) <= MaxScreens /\ OneFront(c)
  <1>1. MaxScreens \in Nat
    BY ChatConstants
  <1>2. ASSUME c \in Seq(Messages), Len(c) <= MaxScreens
        PROVE  c \in UNION {[1..n -> Messages] : n \in 0..MaxScreens}
    <2>1. Len(c) \in 0..MaxScreens /\ c \in [1..Len(c) -> Messages]
      BY <1>1, <1>2
    <2> QED
      BY <2>1
  <1>3. ASSUME NEW n \in 0..MaxScreens, c \in [1..n -> Messages]
        PROVE  c \in Seq(Messages) /\ Len(c) <= MaxScreens
    <2>1. c \in Seq(Messages)
      BY <1>3
    <2>2. Len(c) = n
      BY <1>3
    <2> QED
      BY <2>1, <2>2, <1>1
  <1> QED
    BY <1>2, <1>3 DEF Chats

LEMMA ChatDomain ==
    ASSUME NEW c \in Chats
    PROVE  /\ \E n \in 0..MaxScreens : DOMAIN c = 1..n
           /\ \A i \in DOMAIN c : c[i] \in Messages
           /\ \A i, j \in DOMAIN c : c[i].front /\ c[j].front => i = j
  BY DEF Chats, OneFront

LEMMA MadeAlike ==
    ASSUME NEW c \in Chats, NEW d, d = [n \in DOMAIN c |-> d[n]],
           \A n \in DOMAIN c : d[n] \in Messages, OneFront(d)
    PROVE  d \in Chats
  <1>1. PICK k \in 0..MaxScreens : DOMAIN c = 1..k
    BY ChatDomain
  <1>2. d \in [1..k -> Messages]
    BY <1>1
  <1> QED
    BY <1>2 DEF Chats

LEMMA Touched ==
    ASSUME NEW m \in Messages, NEW b \in BOOLEAN
    PROVE  /\ [m EXCEPT !.front = b] \in Messages /\ [m EXCEPT !.front = b].front = b
           /\ [m EXCEPT !.tracked = b] \in Messages
           /\ [m EXCEPT !.main = b] \in Messages
           /\ [m EXCEPT !.kind = "bare"] \in Messages
  BY DEF Messages, Kinds

LEMMA BelowChain ==
    ASSUME NEW c, NEW d, NEW e, Below(c, d), Below(d, e)
    PROVE  Below(c, e)
  BY DEF Below, Weaker

LEMMA BelowSame == \A c : Below(c, c)
  BY DEF Below, Weaker

LEMMA FadedIs ==
    ASSUME NEW c \in Chats
    PROVE  /\ Faded(c) \in Chats /\ DOMAIN Faded(c) = DOMAIN c
           /\ \A n \in DOMAIN c : Faint(Faded(c)[n], c) /\ Faded(c)[n].main = c[n].main
  <1>1. \A n \in DOMAIN c : /\ Faded(c)[n] = [c[n] EXCEPT !.front = FALSE]
                            /\ c[n] \in Messages
    BY ChatDomain DEF Faded
  <1>2. \A n \in DOMAIN c : Faded(c)[n] \in Messages /\ ~Faded(c)[n].front
    BY <1>1, Touched
  <1>3. Faded(c) = [n \in DOMAIN c |-> Faded(c)[n]]
    BY DEF Faded
  <1>4. OneFront(Faded(c))
    BY <1>2, <1>3 DEF OneFront
  <1>5. Faded(c) \in Chats
    BY <1>2, <1>3, <1>4, MadeAlike
  <1>6. \A n \in DOMAIN c : Weaker(Faded(c)[n], c[n]) /\ Faded(c)[n].main = c[n].main
    BY <1>1, <1>2 DEF Weaker, Messages
  <1> QED
    BY <1>2, <1>3, <1>5, <1>6 DEF Faint

LEMMA InFrontIs ==
    ASSUME NEW c \in Chats, NEW i \in DOMAIN c
    PROVE  /\ InFront(c, i) \in Chats /\ DOMAIN InFront(c, i) = DOMAIN c
           /\ \A n \in DOMAIN c \ {i} : Faint(InFront(c, i)[n], c)
           /\ InFront(c, i)[i] = [c[i] EXCEPT !.front = TRUE]
  <1>1. \A n \in DOMAIN c : /\ Faded(c)[n] = [c[n] EXCEPT !.front = FALSE]
                            /\ c[n] \in Messages
    BY ChatDomain DEF Faded
  <1>2. /\ Faded(c) \in Chats /\ DOMAIN Faded(c) = DOMAIN c
        /\ \A n \in DOMAIN c : Faint(Faded(c)[n], c) /\ ~Faded(c)[n].front
    BY FadedIs DEF Faint
  <1>3. /\ DOMAIN InFront(c, i) = DOMAIN c
        /\ \A n \in DOMAIN c \ {i} : InFront(c, i)[n] = Faded(c)[n]
        /\ InFront(c, i)[i] = [Faded(c)[i] EXCEPT !.front = TRUE]
    BY <1>2 DEF InFront, Chats
  <1>4. InFront(c, i)[i] = [c[i] EXCEPT !.front = TRUE] /\ InFront(c, i)[i] \in Messages
    BY <1>1, <1>3 DEF Messages
  <1>5. InFront(c, i) \in Chats
    <2>1. \A n \in DOMAIN c : InFront(c, i)[n] \in Messages
      BY <1>3, <1>4, <1>2, ChatDomain
    <2>2. OneFront(InFront(c, i))
      BY <1>2, <1>3 DEF OneFront
    <2>3. InFront(c, i) = [n \in DOMAIN c |-> InFront(c, i)[n]]
      BY <1>2 DEF InFront, Chats
    <2> QED
      BY <2>1, <2>2, <2>3, MadeAlike
  <1> QED
    BY <1>2, <1>3, <1>4, <1>5

LEMMA DrawnIs ==
    ASSUME NEW c \in Chats, NEW i \in DOMAIN c, NEW kind \in Kinds, NEW shows \in Shown
    PROVE  LET d == Drawn(c, i, kind, shows)
           IN  /\ d \in Chats /\ DOMAIN d = DOMAIN c
               /\ \A n \in DOMAIN c \ {i} : Faint(d[n], c)
               /\ d[i].kind = kind /\ d[i].shows = shows /\ d[i].front
               /\ d[i].main = c[i].main
  <1> DEFINE new == [Screen(kind, shows, c[i].tracked) EXCEPT !.main = c[i].main]
             d == Drawn(c, i, kind, shows)
  <1>1. /\ Faded(c) \in Chats /\ DOMAIN Faded(c) = DOMAIN c
        /\ \A n \in DOMAIN c : Faint(Faded(c)[n], c) /\ ~Faded(c)[n].front
    BY FadedIs DEF Faint
  <1>2. c[i] \in Messages
    BY ChatDomain
  <1>3. /\ new \in Messages /\ new.kind = kind /\ new.shows = shows /\ new.front
        /\ new.main = c[i].main
    BY <1>2 DEF Screen, Messages
  <1>4. /\ d = [n \in DOMAIN c |-> d[n]]
        /\ d[i] = new
        /\ \A n \in DOMAIN c \ {i} : d[n] = Faded(c)[n]
    BY <1>1 DEF Drawn, Chats
  <1> HIDE DEF new, d
  <1>5. \A n \in DOMAIN c : d[n] \in Messages
    BY <1>1, <1>3, <1>4, ChatDomain
  <1>6. OneFront(d)
    BY <1>1, <1>4 DEF OneFront
  <1>7. d \in Chats
    BY <1>4, <1>5, <1>6, MadeAlike
  <1>8. DOMAIN d = DOMAIN c
    BY <1>4
  <1> QED
    BY <1>1, <1>3, <1>4, <1>7, <1>8 DEF d

LEMMA BareIs ==
    ASSUME NEW c \in Chats, NEW i \in DOMAIN c
    PROVE  /\ Bare(c, i) \in Chats /\ Below(Bare(c, i), c) /\ DOMAIN Bare(c, i) = DOMAIN c
           /\ Bare(c, i)[i] = [c[i] EXCEPT !.kind = "bare"]
  <1> DEFINE d == Bare(c, i)
  <1>1. /\ d = [n \in DOMAIN c |-> d[n]]
        /\ d[i] = [c[i] EXCEPT !.kind = "bare"]
        /\ \A n \in DOMAIN c \ {i} : d[n] = c[n]
    BY DEF Bare, Chats
  <1>2. \A n \in DOMAIN c : c[n] \in Messages
    BY ChatDomain
  <1> HIDE DEF d
  <1>3. \A n \in DOMAIN c : d[n] \in Messages
    BY <1>1, <1>2, Touched
  <1>4. \A n \in DOMAIN c : Weaker(d[n], c[n]) /\ d[n].front = c[n].front
    BY <1>1, <1>2 DEF Weaker, Messages
  <1>5. DOMAIN d = DOMAIN c
    BY <1>1
  <1>6. OneFront(d)
    BY <1>4, <1>5, ChatDomain DEF OneFront
  <1>7. d \in Chats
    BY <1>1, <1>3, <1>6, MadeAlike
  <1> QED
    BY <1>1, <1>4, <1>5, <1>7 DEF Below, d

LEMMA TurnedIs ==
    ASSUME NEW c \in Chats, NEW i \in DOMAIN c, NEW kind \in Kinds, NEW shows \in Shown
    PROVE  LET d == Turned(c, i, kind, shows)
           IN  /\ d \in Chats /\ DOMAIN d = DOMAIN c
               /\ \A n \in DOMAIN c \ {i} : d[n] = c[n]
               /\ d[i].kind = kind /\ d[i].shows = shows
               /\ d[i].front = c[i].front /\ d[i].main = c[i].main
  <1> DEFINE d == Turned(c, i, kind, shows)
  <1>1. /\ d = [n \in DOMAIN c |-> d[n]]
        /\ d[i] = [[c[i] EXCEPT !.kind = kind] EXCEPT !.shows = shows]
        /\ \A n \in DOMAIN c \ {i} : d[n] = c[n]
    BY DEF Turned, Chats
  <1>2. \A n \in DOMAIN c : c[n] \in Messages
    BY ChatDomain
  <1> HIDE DEF d
  <1>3. /\ d[i] \in Messages /\ d[i].kind = kind /\ d[i].shows = shows
        /\ d[i].front = c[i].front /\ d[i].main = c[i].main
    BY <1>1, <1>2 DEF Messages
  <1>4. \A n \in DOMAIN c : d[n] \in Messages /\ d[n].front = c[n].front
    BY <1>1, <1>2, <1>3
  <1>5. DOMAIN d = DOMAIN c
    BY <1>1
  <1>6. OneFront(d)
    BY <1>4, <1>5, ChatDomain DEF OneFront
  <1>7. d \in Chats
    BY <1>1, <1>4, <1>6, MadeAlike
  <1> QED
    BY <1>1, <1>3, <1>5, <1>7 DEF d

\* Track and Untrack
LEMMA TrackedIs ==
    ASSUME NEW c \in Chats, NEW i \in DOMAIN c, NEW b \in BOOLEAN
    PROVE  LET d == [c EXCEPT ![i].tracked = b]
           IN  /\ d \in Chats /\ Below(d, c) /\ DOMAIN d = DOMAIN c
               /\ d[i].kind = c[i].kind /\ d[i].shows = c[i].shows
               /\ d[i].front = c[i].front /\ d[i].main = c[i].main
               /\ \A n \in DOMAIN c \ {i} : d[n] = c[n]
  <1> DEFINE d == [c EXCEPT ![i].tracked = b]
  <1>1. /\ d = [n \in DOMAIN c |-> d[n]]
        /\ d[i] = [c[i] EXCEPT !.tracked = b]
        /\ \A n \in DOMAIN c \ {i} : d[n] = c[n]
    BY DEF Chats
  <1>2. \A n \in DOMAIN c : c[n] \in Messages
    BY ChatDomain
  <1> HIDE DEF d
  <1>3. \A n \in DOMAIN c : d[n] \in Messages
    <2>1. [c[i] EXCEPT !.tracked = b] \in Messages
      BY <1>2, Touched
    <2> QED
      BY <1>1, <1>2, <2>1
  <1>4. \A n \in DOMAIN c : /\ d[n].kind = c[n].kind /\ d[n].shows = c[n].shows
                            /\ d[n].front = c[n].front /\ d[n].main = c[n].main
    BY <1>1, <1>2 DEF Messages
  <1>5. DOMAIN d = DOMAIN c
    BY <1>1
  <1>6. OneFront(d)
    BY <1>4, <1>5, ChatDomain DEF OneFront
  <1>7. d \in Chats
    BY <1>1, <1>3, <1>6, MadeAlike
  <1>8. Below(d, c)
    BY <1>4, <1>5 DEF Below, Weaker
  <1> QED
    BY <1>1, <1>4, <1>5, <1>7, <1>8 DEF d

LEMMA MainedIs ==
    ASSUME NEW c \in Chats, NEW i \in DOMAIN c, NEW b \in BOOLEAN
    PROVE  LET d == [c EXCEPT ![i].main = b]
           IN  /\ d \in Chats /\ DOMAIN d = DOMAIN c /\ d[i].main = b
               /\ \A n \in DOMAIN c : /\ d[n].kind = c[n].kind /\ d[n].shows = c[n].shows
                                      /\ d[n].front = c[n].front
               /\ \A n \in DOMAIN c \ {i} : d[n] = c[n]
  <1> DEFINE d == [c EXCEPT ![i].main = b]
  <1>1. /\ d = [n \in DOMAIN c |-> d[n]]
        /\ d[i] = [c[i] EXCEPT !.main = b]
        /\ \A n \in DOMAIN c \ {i} : d[n] = c[n]
    BY DEF Chats
  <1>2. \A n \in DOMAIN c : c[n] \in Messages
    BY ChatDomain
  <1> HIDE DEF d
  <1>3. \A n \in DOMAIN c : d[n] \in Messages
    <2>1. [c[i] EXCEPT !.main = b] \in Messages
      BY <1>2, Touched
    <2> QED
      BY <1>1, <1>2, <2>1
  <1>4. \A n \in DOMAIN c : /\ d[n].kind = c[n].kind /\ d[n].shows = c[n].shows
                            /\ d[n].front = c[n].front
    BY <1>1, <1>2 DEF Messages
  <1>5. DOMAIN d = DOMAIN c
    BY <1>1
  <1>6. OneFront(d)
    BY <1>4, <1>5, ChatDomain DEF OneFront
  <1>7. d \in Chats
    BY <1>1, <1>3, <1>6, MadeAlike
  <1>8. d[i].main = b
    BY <1>1, <1>2 DEF Messages
  <1> QED
    BY <1>1, <1>4, <1>5, <1>7, <1>8 DEF d

LEMMA ClearedIs ==
    ASSUME NEW c \in Chats
    PROVE  /\ Cleared(c) \in Chats /\ DOMAIN Cleared(c) = DOMAIN c /\ Below(Cleared(c), c)
           /\ \A n \in DOMAIN c : /\ Faint(Cleared(c)[n], c) /\ ~Cleared(c)[n].main
                                  /\ Cleared(c)[n].kind = c[n].kind
                                  /\ Cleared(c)[n].shows = c[n].shows
  <1> DEFINE d == Cleared(c)
  <1>1. \A n \in DOMAIN c :
            d[n] = [[[c[n] EXCEPT !.tracked = FALSE] EXCEPT !.front = FALSE] EXCEPT !.main = FALSE]
    BY DEF Cleared
  <1>2. d = [n \in DOMAIN c |-> d[n]]
    BY DEF Cleared
  <1>3. \A n \in DOMAIN c : c[n] \in Messages
    BY ChatDomain
  <1> HIDE DEF d
  <1>4. \A n \in DOMAIN c : /\ d[n] \in Messages /\ ~d[n].front /\ ~d[n].main
                            /\ d[n].kind = c[n].kind /\ d[n].shows = c[n].shows
    BY <1>1, <1>3 DEF Messages
  <1>5. DOMAIN d = DOMAIN c
    BY <1>2
  <1>6. OneFront(d)
    BY <1>4, <1>5 DEF OneFront
  <1>7. d \in Chats
    BY <1>2, <1>4, <1>6, MadeAlike
  <1>8. \A n \in DOMAIN c : Weaker(d[n], c[n])
    BY <1>4 DEF Weaker
  <1> QED
    BY <1>4, <1>5, <1>7, <1>8 DEF Below, Faint, d

LEMMA AppendedIs ==
    ASSUME NEW c \in Chats, NEW m \in Messages, ~m.front \/ \A n \in DOMAIN c : ~c[n].front
    PROVE  LET d == Appended(c, m)
           IN  /\ d \in Chats
               /\ \A n \in DOMAIN d : d[n] = m \/ \E k \in DOMAIN c : d[n] = c[k]
  <1> DEFINE short == IF Len(c) = MaxScreens THEN Tail(c) ELSE c
             d == Append(short, m)
  <1>1. /\ c \in Seq(Messages) /\ Len(c) <= MaxScreens /\ OneFront(c)
        /\ MaxScreens \in Nat \ {0} /\ Len(c) \in Nat /\ DOMAIN c = 1..Len(c)
    BY ChatType, ChatConstants
  <1>2. /\ short \in Seq(Messages) /\ Len(short) < MaxScreens /\ Len(short) \in Nat
        /\ \/ \A n \in 1..Len(short) : n \in DOMAIN c /\ short[n] = c[n]
           \/ \A n \in 1..Len(short) : n + 1 \in DOMAIN c /\ short[n] = c[n + 1]
    <2>1. CASE Len(c) = MaxScreens
      <3>1. /\ Tail(c) \in Seq(Messages) /\ Len(Tail(c)) = Len(c) - 1
            /\ \A n \in 1..(Len(c) - 1) : Tail(c)[n] = c[n + 1]
        BY <1>1, <2>1
      <3> QED
        BY <1>1, <2>1, <3>1
    <2>2. CASE Len(c) # MaxScreens
      <3>1. short = c
        BY <2>2
      <3>2. \A n \in 1..Len(c) : n \in DOMAIN c
        BY <1>1
      <3>3. Len(c) < MaxScreens
        <4>1. \A x \in Nat : x <= MaxScreens /\ x # MaxScreens => x < MaxScreens
          BY <1>1
        <4> QED
          BY <1>1, <2>2, <4>1
      <3> HIDE DEF short
      <3> QED
        BY <1>1, <3>1, <3>2, <3>3
    <2> QED
      BY <2>1, <2>2
  <1> HIDE DEF short
  <1>3. /\ d \in Seq(Messages) /\ Len(d) = Len(short) + 1 /\ DOMAIN d = 1..(Len(short) + 1)
        /\ \A n \in 1..Len(short) : d[n] = short[n]
        /\ d[Len(short) + 1] = m
    BY <1>2
  <1> HIDE DEF d
  <1>4. \A n \in DOMAIN d : n = Len(short) + 1 \/ n \in 1..Len(short)
    BY <1>2, <1>3
  <1>5. OneFront(d)
    <2> SUFFICES ASSUME NEW i \in DOMAIN d, NEW j \in DOMAIN d, d[i].front, d[j].front
                 PROVE  i = j
      BY DEF OneFront
    <2>1. CASE m.front
      <3>1. \A n \in 1..Len(short) : ~d[n].front
        BY <1>2, <1>3, <2>1
      <3> QED
        BY <1>4, <3>1
    <2>2. CASE ~m.front
      <3>1. i \in 1..Len(short) /\ j \in 1..Len(short)
        BY <1>3, <1>4, <2>2
      <3>2. short[i].front /\ short[j].front
        BY <1>3, <3>1
      <3>3. i \in Nat /\ j \in Nat
        BY <3>1
      <3>4. CASE \A n \in 1..Len(short) : n \in DOMAIN c /\ short[n] = c[n]
        BY <1>1, <3>1, <3>2, <3>4 DEF OneFront
      <3>5. CASE \A n \in 1..Len(short) : n + 1 \in DOMAIN c /\ short[n] = c[n + 1]
        <4>1. i + 1 = j + 1
          BY <1>1, <3>1, <3>2, <3>5 DEF OneFront
        <4> QED
          BY <3>3, <4>1
      <3> QED
        BY <1>2, <3>4, <3>5
    <2> QED
      BY <2>1, <2>2
  <1>6. Len(d) <= MaxScreens
    BY <1>1, <1>2, <1>3
  <1>7. d \in Chats
    BY <1>3, <1>5, <1>6, ChatType
  <1>8. \A n \in DOMAIN d : d[n] = m \/ \E k \in DOMAIN c : d[n] = c[k]
    BY <1>2, <1>3, <1>4
  <1> QED
    BY <1>7, <1>8 DEF Appended, d, short

LEMMA SentIs ==
    ASSUME NEW c \in Chats, NEW kind \in Kinds, NEW shows \in Shown
    PROVE  LET d == Sent(c, kind, shows)
           IN  /\ d \in Chats
               /\ \A n \in DOMAIN d : \/ Faint(d[n], c)
                                      \/ /\ d[n].kind = kind /\ d[n].shows = shows
                                         /\ d[n].front /\ ~d[n].main
  <1> DEFINE m == Screen(kind, shows, TRUE)
             d == Sent(c, kind, shows)
  <1>1. m \in Messages /\ m.kind = kind /\ m.shows = shows /\ m.front /\ ~m.main
    BY DEF Screen, Messages
  <1>2. /\ Faded(c) \in Chats /\ DOMAIN Faded(c) = DOMAIN c
        /\ \A n \in DOMAIN c : Faint(Faded(c)[n], c) /\ ~Faded(c)[n].front
    BY FadedIs DEF Faint
  <1> HIDE DEF m
  <1>3. /\ Appended(Faded(c), m) \in Chats
        /\ \A n \in DOMAIN Appended(Faded(c), m) :
              \/ Appended(Faded(c), m)[n] = m
              \/ \E k \in DOMAIN Faded(c) : Appended(Faded(c), m)[n] = Faded(c)[k]
    BY <1>1, <1>2, AppendedIs
  <1>4. d = Appended(Faded(c), m)
    BY DEF Sent, m
  <1> QED
    BY <1>1, <1>2, <1>3, <1>4 DEF d

LEMMA SweptIs ==
    ASSUME NEW C, C \subseteq Chats, NEW buckets, NEW d \in Swept(C, buckets)
    PROVE  d \in Chats /\ \E c \in C : Below(d, c)
  <1>1. PICK c \in C : \E p \in Remainders(c) :
          d = [n \in DOMAIN p |-> [c[p[n]] EXCEPT !.tracked = @ /\ p[n] \notin In(c, buckets)]]
    BY DEF Swept
  <1>2. c \in Chats
    BY <1>1
  <1>a. PICK p \in Remainders(c) :
          d = [n \in DOMAIN p |-> [c[p[n]] EXCEPT !.tracked = @ /\ p[n] \notin In(c, buckets)]]
    BY <1>1
  <1>3. PICK k \in 0..Len(c) :
          p \in [1..k -> DOMAIN c] /\ \A m, n \in 1..k : m < n => p[m] < p[n]
    BY <1>a DEF Remainders
  <1>4. k \in 0..MaxScreens /\ DOMAIN c \subseteq Nat
    <2>1. Len(c) \in Nat /\ Len(c) <= MaxScreens /\ DOMAIN c = 1..Len(c)
      BY <1>2, ChatType
    <2> QED
      BY <2>1, <1>3, ChatConstants
  <1>5. \A n \in 1..k : c[p[n]] \in Messages /\ p[n] \in DOMAIN c
    BY <1>2, <1>3, ChatDomain
  <1>6. ASSUME NEW n \in 1..k
        PROVE  /\ d[n] \in Messages /\ Weaker(d[n], c[p[n]])
               /\ d[n].front = c[p[n]].front
    <2>1. d[n] = [c[p[n]] EXCEPT !.tracked = c[p[n]].tracked /\ p[n] \notin In(c, buckets)]
      BY <1>a, <1>3
    <2> QED
      BY <2>1, <1>5 DEF Messages, Weaker
  <1>7. DOMAIN d = 1..k /\ d = [n \in 1..k |-> d[n]]
    BY <1>a, <1>3
  <1>8. OneFront(d)
    <2> SUFFICES ASSUME NEW i \in 1..k, NEW j \in 1..k, d[i].front, d[j].front
                 PROVE  i = j
      BY <1>7 DEF OneFront
    <2>1. p[i] = p[j]
      BY <1>2, <1>5, <1>6, ChatDomain
    <2>2. i \in Nat /\ j \in Nat /\ p[i] \in Nat /\ p[j] \in Nat
      BY <1>4, <1>5
    <2> QED
      BY <1>3, <2>1, <2>2
  <1>9. d \in Chats
    BY <1>4, <1>6, <1>7, <1>8 DEF Chats
  <1>10. Below(d, c)
    BY <1>5, <1>6, <1>7 DEF Below
  <1> QED
    BY <1>1, <1>9, <1>10

LEMMA RemovedIs ==
    ASSUME NEW c \in Chats, NEW i \in DOMAIN c
    PROVE  RemoveAt(c, i) \in Chats /\ Below(RemoveAt(c, i), c)
  <1> DEFINE d == RemoveAt(c, i)
  <1>1. /\ c \in Seq(Messages) /\ Len(c) <= MaxScreens /\ OneFront(c)
        /\ Len(c) \in Nat /\ DOMAIN c = 1..Len(c) /\ i \in 1..Len(c) /\ MaxScreens \in Nat
    BY ChatType, ChatConstants
  <1>2. /\ SubSeq(c, 1, i - 1) \in Seq(Messages) /\ Len(SubSeq(c, 1, i - 1)) = i - 1
        /\ \A n \in 1..(i - 1) : SubSeq(c, 1, i - 1)[n] = c[n]
    BY <1>1
  <1>3. /\ SubSeq(c, i + 1, Len(c)) \in Seq(Messages)
        /\ Len(SubSeq(c, i + 1, Len(c))) = Len(c) - i
        /\ \A n \in 1..(Len(c) - i) : SubSeq(c, i + 1, Len(c))[n] = c[n + i]
    BY <1>1
  <1>4. /\ d \in Seq(Messages) /\ Len(d) = Len(c) - 1 /\ DOMAIN d = 1..(Len(c) - 1)
        /\ \A n \in 1..(i - 1) : d[n] = c[n]
        /\ \A n \in i..(Len(c) - 1) : d[n] = c[n + 1]
    <2> DEFINE s == SubSeq(c, 1, i - 1)
               t == SubSeq(c, i + 1, Len(c))
    <2>1. d = s \o t
      BY DEF RemoveAt
    <2>2. s \in Seq(Messages) /\ t \in Seq(Messages) /\ Len(s) = i - 1 /\ Len(t) = Len(c) - i
      BY <1>2, <1>3
    <2> HIDE DEF d
    <2>3. /\ \A n \in 1..(i - 1) : s[n] = c[n]
          /\ \A n \in 1..(Len(c) - i) : t[n] = c[n + i]
      BY <1>2, <1>3
    <2> HIDE DEF s, t
    <2>4. /\ d \in Seq(Messages) /\ Len(d) = Len(s) + Len(t) /\ DOMAIN d = 1..(Len(s) + Len(t))
          /\ \A n \in 1..(Len(s) + Len(t)) : d[n] = IF n <= Len(s) THEN s[n] ELSE t[n - Len(s)]
      BY <2>1, <2>2, ConcatProperties
    <2>5. \A n \in i..(Len(c) - 1) : d[n] = c[n + 1]
      <3> TAKE n \in i..(Len(c) - 1)
      <3>1. n - (i - 1) \in 1..(Len(c) - i) /\ n \in 1..(Len(s) + Len(t)) /\ ~(n <= Len(s))
        BY <1>1, <2>2
      <3>2. d[n] = t[n - (i - 1)]
        BY <2>2, <2>4, <3>1
      <3>3. t[n - (i - 1)] = c[(n - (i - 1)) + i] /\ (n - (i - 1)) + i = n + 1
        BY <1>1, <2>3, <3>1
      <3> QED
        BY <3>2, <3>3
    <2> QED
      BY <1>1, <2>2, <2>3, <2>4, <2>5
  <1> HIDE DEF d
  <1>5. \A n \in DOMAIN d : \/ n < i /\ n \in DOMAIN c /\ d[n] = c[n]
                            \/ i <= n /\ n + 1 \in DOMAIN c /\ d[n] = c[n + 1]
    BY <1>1, <1>4
  <1>6. OneFront(d)
    BY <1>1, <1>4, <1>5 DEF OneFront
  <1>7. d \in Chats
    BY <1>1, <1>4, <1>6, ChatType
  <1>8. Below(d, c)
    BY <1>5 DEF Below, Weaker
  <1> QED
    BY <1>7, <1>8 DEF d

LEMMA MainIsIs ==
    ASSUME NEW c \in Chats, NEW i \in DOMAIN c, NEW kinds
    PROVE  LET d == MainIs(c, i, kinds)
           IN  /\ d \in Chats /\ DOMAIN d = DOMAIN c
               /\ \A n \in DOMAIN c : /\ d[n].kind = c[n].kind /\ d[n].shows = c[n].shows
                                      /\ d[n].front = c[n].front
               /\ \A n \in DOMAIN c \ {i} :
                     d[n].main => c[n].main /\ c[n].kind \notin kinds
  <1> DEFINE d == MainIs(c, i, kinds)
  <1>1. d = [n \in DOMAIN c |-> d[n]]
    BY DEF MainIs
  <1>2. \A n \in DOMAIN c : c[n] \in Messages
    BY ChatDomain
  <1>3. ASSUME NEW n \in DOMAIN c
        PROVE  /\ d[n] \in Messages
               /\ d[n].kind = c[n].kind /\ d[n].shows = c[n].shows /\ d[n].front = c[n].front
               /\ n # i /\ d[n].main => c[n].main /\ c[n].kind \notin kinds
    <2>1. d[n] = [c[n] EXCEPT !.main = IF n = i THEN TRUE ELSE c[n].main /\ n \notin Main(c, kinds)]
      BY DEF MainIs
    <2>2. n \in Main(c, kinds) <=> c[n].main /\ c[n].kind \in kinds
      BY DEF Main
    <2> QED
      BY <1>2, <2>1, <2>2 DEF Messages
  <1> HIDE DEF d
  <1>4. DOMAIN d = DOMAIN c
    BY <1>1
  <1>5. OneFront(d)
    BY <1>3, <1>4, ChatDomain DEF OneFront
  <1>6. d \in Chats
    BY <1>1, <1>3, <1>5, MadeAlike
  <1> QED
    BY <1>3, <1>4, <1>6 DEF d
=============================================================================
