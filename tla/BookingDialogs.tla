--------------------------- MODULE BookingDialogs ---------------------------
(***************************************************************************)
(* The dialogs that end in a booking: a client books                       *)
(* (handlers/client/booking.py), a master books for a client               *)
(* (handlers/master/add_booking.py) and moves a booking                    *)
(* (handlers/master/reschedule.py).  Which slots are free is Workdays'     *)
(* affair and what the booking then goes through Bookings'; here a day has *)
(* slots or not, and a confirmation is accepted or refused.                *)
(***************************************************************************)
EXTENDS Chat

\* the calendar starts a new list
Listed(f, d) == [f EXCEPT !.day = d]

Picked(f, d) == [f EXCEPT !.picked = d]

Unlisted(f) == [f EXCEPT !.day = NoDay, !.picked = NoDay]

-----------------------------------------------------------------------------
(* The client's.  Every tapped message is tracked.                         *)

\* A calendar in a new message; or the master's limit is reached
StartForMaster(C, f) ==
    \/ Reset(C, "client_booking")
    \/ Send(C, Put(f, {"master_id"}), "ClientBooking.selecting_date", "book.calendar", NoDay)

\* From the menu, whatever dialog is open: nothing is cleaned up or cleared
StartBooking ==
    /\ role = "client" /\ AtMenu
    /\ LET f == Put(fsm, {"client_id"})
       IN  \/ Send({chat}, f, "ClientBooking.selecting_master", "book.masters", NoDay)
           \/ StartForMaster({chat}, f)

BookFromCard(i) ==
    /\ On(i, "masters:book")
    /\ \/ fsm' = Blank /\ chat' = Cleared(chat)
       \/ LET c == Cleared(chat)
              d == [Drawn(c, i, "book.calendar", NoDay) EXCEPT ![i].tracked = TRUE]
              f == Put(Blank, {"client_id", "master_id"})
          IN  \/ fsm' = To(f, "ClientBooking.selecting_date") /\ chat' = d
              \/ /\ fsm' = [To(f, "ClientBooking.selecting_date") EXCEPT !.lost = TRUE]
                 /\ chat' = [InFront(c, i) EXCEPT ![i].tracked = TRUE]
              \/ CutShort(f) /\ chat' \in {c, d}

SelectMaster(i) == On(i, "book:master") /\ StartForMaster({Track(i)}, fsm)

\* A calendar without its master or zone only answers with an alert
TurnCalendar(i) ==
    /\ On(i, "book:mc:m")
    /\ IF {"master_id", "client_id"} \subseteq Has(fsm)
       THEN Refresh(Track(i), i, "book.calendar") ELSE Refuse(Track(i))

PickBookingDay(i) ==
    /\ On(i, "book:mc:d")
    /\ \/ ~ {"master_id", "client_id"} \subseteq Has(fsm) /\ Refuse(Track(i))
       \/ /\ {"master_id", "client_id"} \subseteq Has(fsm)
          /\ \/ Refresh(Track(i), i, "book.calendar")
             \/ \E d \in Days : Redraw(Track(i), i, Listed(fsm, d),
                                       "ClientBooking.selecting_slot", "book.slots", d)

\* Mutant: the slot of another button is taken.
SelectAnySlot(i) ==
    /\ On(i, "book:slot") /\ "day" \in Has(fsm)
    /\ \E d \in Days : Redraw(Track(i), i, Picked(fsm, fsm.day), "ClientBooking.confirm",
                              "book.confirm", d)

\* The message then shows the slot of the list in the data
SelectSlot(i) ==
    /\ On(i, "book:slot")
    /\ IF {"day", "client_id"} \subseteq Has(fsm)
       THEN Redraw(Track(i), i, Picked(fsm, fsm.day), "ClientBooking.confirm",
                   "book.confirm", fsm.day)
       ELSE LoseContext({Track(i)}, "client_booking")

\* Mutant: the state is left as it is.
BookingBackToCalendarOnly(i) ==
    /\ On(i, "book:back:calendar")
    /\ Redraw(Track(i), i, Unlisted(fsm), "ClientBooking.selecting_slot", "book.calendar", NoDay)

BookingBackToCalendar(i) ==
    /\ On(i, "book:back:calendar")
    /\ Redraw(Track(i), i, Unlisted(fsm), "ClientBooking.selecting_date", "book.calendar", NoDay)

BookingBackToSlots(i) ==
    /\ On(i, "book:back:slots")
    /\ IF {"day", "client_id"} \subseteq Has(fsm)
       THEN Redraw(Track(i), i, Picked(fsm, NoDay), "ClientBooking.selecting_slot",
                   "book.slots", fsm.day)
       ELSE LoseContext({Track(i)}, "client_booking")

CancelBooking(i) ==
    /\ \E b \in {"book:cancel", "book:cancel_flow"} : On(i, b)
    /\ Reset({chat}, "client_booking")

\* The slot was taken: the day's slots again, or the calendar if none is left
RecoverSlots(i) ==
    \/ Redraw(Track(i), i, Picked(fsm, NoDay), "ClientBooking.selecting_slot",
              "book.slots", fsm.day)
    \/ Redraw(Track(i), i, fsm, "ClientBooking.selecting_date", "book.calendar", NoDay)

BookingReady == {"master_id", "client_id", "day", "slot"} \subseteq Has(fsm)

\* A refusal for any other reason leaves the dialog as it is
ConfirmRefused(i) ==
    /\ On(i, "book:confirm")
    /\ IF BookingReady
       THEN RecoverSlots(i) \/ Refuse(Track(i))
       ELSE LoseContext({Track(i)}, "client_booking")

\* The slot booked is read off the list: slots_iso[index]
ConfirmBooking(i) ==
    /\ On(i, "book:confirm") /\ BookingReady
    /\ Reset({Track(i)}, "client_booking")
    /\ act' = Act("book", i, fsm.day)

-----------------------------------------------------------------------------
(* The master's, for a client.                                             *)

\* Into whatever dialog is open; nothing is cleared unless it is refused.  f: the
\* data, C: the chats so far
StartAddClientFrom(C, f) ==
    \/ Send(C, f, "AddClient.name", "client.cancel", NoDay)
    \/ Reset(C, "master_add_client")

StartAddBooking ==
    /\ role = "master" /\ AtMenu
    /\ \/ Reset({chat}, "master_add_booking")
       \/ \/ Send(Fresh({chat}, "master_add_booking"), Blank, "AddBooking.no_clients",
                  "add.noclients", NoDay)
          \/ Send(Fresh({chat}, "master_add_booking"), Blank, "AddBooking.search_client",
                  "add.prompt", NoDay)

NoClientsAddClient(i) ==
    /\ On(i, "m:add_booking:no_clients:add_client")
    /\ StartAddClientFrom(Fresh({Untrack(i)}, "master_add_booking"), Blank)

\* Anything typed: no match, or a list of the clients found
SearchClient ==
    /\ fsm.state = "AddBooking.search_client"
    /\ \/ Reset({chat}, "master_add_booking")
       \/ Send({chat}, fsm, "AddBooking.search_client", "add.prompt", NoDay)
       \/ Send({chat}, Put(fsm, {"master_id", "clients"}), "AddBooking.search_client",
               "add.clients", NoDay)

\* The client is looked up in the data: an older list's may be missing there
ChooseClient(i) ==
    /\ On(i, "m:add_booking:client")
    /\ \/ Refuse(Track(i))
       \/ /\ "clients" \in fsm.keys
          /\ RedrawOrSend(Track(i), i, Put(fsm, {"client"}), "AddBooking.selecting_date",
                          "add.calendar", NoDay)

\* From a client's card; only the list of clients says where to return to
BookForCard(i) ==
    /\ On(i, "m:clients:book")
    /\ \E return \in SUBSET {"return_to"} :
          \/ Redraw(Cleared(chat), i, Put(Blank, {"master_id", "client"} \cup return),
                    "AddBooking.selecting_date", "add.calendar", NoDay)

TurnAddCalendar(i) ==
    /\ On(i, "m:add_booking:mc:m")
    /\ Refresh(Track(i), i, "add.calendar")

ShowAddPaywall(i) ==
    /\ On(i, "m:add_booking:mc:pro")
    /\ Refresh(Track(i), i, "add.paywall")

\* "To the clients": the list found before, the card it was started from, or the end
CalendarCancel(i) ==
    /\ On(i, "m:add_booking:mc:cancel")
    /\ CASE "clients" \in fsm.keys ->
              RedrawOrSend(Track(i), i, Unlisted(Drop(fsm, {"client"})),
                           "AddBooking.search_client", "add.clients", NoDay)
         [] "clients" \notin fsm.keys /\ "return_to" \in fsm.keys ->
              \/ fsm' = Blank /\ chat' \in {Cleared(Drawn(chat, i, "client card", NoDay)),
                                            Cleared(chat)}
              \/ CutShort(fsm) /\ chat' = Drawn(Track(i), i, "client card", NoDay)
         [] OTHER -> Reset({Track(i)}, "master_add_booking")

PickAddDay(i) ==
    /\ On(i, "m:add_booking:mc:d")
    /\ \/ "master_id" \notin fsm.keys /\ Refuse(Track(i))
       \/ /\ "master_id" \in fsm.keys
          /\ \/ Refresh(Track(i), i, "add.calendar")
             \/ chat' = Sent(Track(i), "add.calendar", NoDay) /\ UNCHANGED fsm
             \/ \E d \in Days : RedrawOrSend(Track(i), i, Listed(fsm, d),
                                             "AddBooking.selecting_slot", "add.slots", d)

PickAddSlot(i) ==
    /\ On(i, "m:add_booking:slot")
    /\ IF "day" \in Has(fsm)
       THEN RedrawOrSend(Track(i), i, Picked(fsm, fsm.day), "AddBooking.confirm",
                         "add.confirm", fsm.day)
       ELSE LoseContext({Track(i)}, "master_add_booking")

AddBackToCalendar(i) ==
    /\ On(i, "m:add_booking:slots:back")
    /\ RedrawOrSend(Track(i), i, Unlisted(fsm), "AddBooking.selecting_date",
                    "add.calendar", NoDay)

\* What back_to_slots has written by the time it looks for the slots
Unconfirmed == Drop(Picked(fsm, NoDay), {"confirm_in_progress"})

AddBackToSlots(i) ==
    /\ On(i, "m:add_booking:confirm:back")
    /\ IF {"day", "master_id"} \subseteq Has(fsm)
       THEN RedrawOrSend(Track(i), i, Unconfirmed, "AddBooking.selecting_slot",
                         "add.slots", fsm.day)
       ELSE LoseContext({Track(i)}, "master_add_booking")

Busy(f) == "confirm_in_progress" \in f.keys

\* A confirmation is taken up once: the flag is set and the buttons are removed
\* (which may fail) before anything else.  The chats it may then be in
Taken(i) == {Track(i), Bare(Track(i), i)}

Marked == Put(fsm, {"confirm_in_progress"})

\* ... and is cut short there
TakenOnly(i) == CutShort(Marked) /\ chat' \in Taken(i)

\* Mutant: the flag stays up.
AddSlotTakenBusy(i) ==
    \/ "day" \in Has(fsm) /\ RedrawOrSend(Track(i), i, Marked, "AddBooking.selecting_slot",
                                          "add.slots", fsm.day)
    \/ "day" \notin Has(fsm) /\ RedrawOrSend(Track(i), i, Marked, "AddBooking.selecting_date",
                                             "add.calendar", NoDay)

\* The same list again, or the calendar
AddSlotTaken(i) ==
    LET f == Drop(fsm, {"confirm_in_progress"}) IN
    IF "day" \in Has(fsm)
    THEN RedrawOrSend(Track(i), i, f, "AddBooking.selecting_slot", "add.slots", fsm.day)
    ELSE RedrawOrSend(Track(i), i, f, "AddBooking.selecting_date", "add.calendar", NoDay)

\* The paywall replaces the tapped message
AddQuotaExceeded(i) ==
    /\ fsm' = Blank
    /\ chat' \in {Cleared(Drawn(c, i, "paywall", NoDay)) : c \in Taken(i)}
                 \cup Fresh(Taken(i), "master_add_booking")

AddReady == {"master_id", "client", "slot"} \subseteq Has(fsm)

AddConfirmRefused(i) ==
    /\ On(i, "m:add_booking:confirm")
    /\ \/ Busy(fsm) /\ Refuse(Track(i))
       \/ ~Busy(fsm) /\ TakenOnly(i)
       \/ ~Busy(fsm) /\ Reset(Taken(i), "master_add_booking")
       \/ ~Busy(fsm) /\ AddReady /\ (AddSlotTaken(i) \/ AddQuotaExceeded(i))

AddConfirm(i) ==
    /\ On(i, "m:add_booking:confirm") /\ ~Busy(fsm) /\ AddReady
    /\ Reset(Taken(i), "master_add_booking") \/ TakenOnly(i)
    /\ act' = Act("book", i, fsm.picked)

CancelAddBooking(i) ==
    /\ On(i, "m:add_booking:cancel")
    /\ Reset({chat}, "master_add_booking")

-----------------------------------------------------------------------------
(* Moving a booking.  The dialog goes on in the message it was started     *)
(* from, which is not tracked.                                             *)

StartReschedule(i) ==
    /\ On(i, "m:b:reschedule")
    /\ \/ Refuse(chat)
       \/ Refresh(chat, i, "paywall")
       \/ CutShort(fsm) /\ chat' \in {chat} \cup Swept({chat}, {"master_reschedule"})
       \/ \E c \in Fresh({chat}, "master_reschedule") : \E j \in Still(c, i) :
             RedrawOrSend(c, j, Put(Blank, {"booking"}), "Reschedule.selecting_date",
                          "move.calendar", NoDay)

\* Another month, or the calendar again
TurnMoveCalendar(i) ==
    /\ On(i, "m:reschedule:mc:m")
    /\ IF "booking" \in fsm.keys THEN Refresh(chat, i, "move.calendar") ELSE Refuse(chat)

ShowMovePaywall(i) ==
    /\ On(i, "m:reschedule:mc:pro")
    /\ IF "booking" \in fsm.keys THEN Refresh(chat, i, "move.paywall") ELSE Refuse(chat)

PickMoveDay(i) ==
    /\ On(i, "m:reschedule:mc:d")
    /\ \/ "booking" \notin fsm.keys /\ Refuse(chat)
       \/ /\ "booking" \in fsm.keys
          /\ \/ Refresh(chat, i, "move.calendar")
             \/ chat' = Sent(chat, "move.calendar", NoDay) /\ UNCHANGED fsm
             \/ \E d \in Days : RedrawOrSend(chat, i, Listed(fsm, d),
                                             "Reschedule.selecting_slot", "move.slots", d)

\* The dialog is over and the message, if it is still there, is the schedule's again
ReturnToSchedule(C, i) ==
    /\ fsm' = Blank
    /\ chat' \in Fresh(C, "master_reschedule")
                 \cup {Cleared(Drawn(c, i, "schedule", NoDay)) : c \in C}

BackToCard(i) ==
    /\ On(i, "m:reschedule:back_card")
    /\ \/ Reset({chat}, "master_reschedule")
       \/ "booking" \in fsm.keys /\ ReturnToSchedule({chat}, i)

MoveBackToCalendar(i) ==
    /\ On(i, "m:reschedule:back_calendar")
    /\ RedrawOrSend(chat, i, Unlisted(fsm), "Reschedule.selecting_date", "move.calendar", NoDay)

MoveBackToSlots(i) ==
    /\ On(i, "m:reschedule:back_slots")
    /\ IF "day" \in Has(fsm)
       THEN RedrawOrSend(chat, i, Unconfirmed, "Reschedule.selecting_slot", "move.slots", fsm.day)
       ELSE LoseContext({chat}, "master_reschedule")

PickMoveSlot(i) ==
    /\ On(i, "m:reschedule:slot")
    /\ IF "day" \in Has(fsm)
       THEN RedrawOrSend(chat, i, Picked(fsm, fsm.day), "Reschedule.confirm",
                         "move.confirm", fsm.day)
       ELSE LoseContext({chat}, "master_reschedule")

MoveReady == {"booking", "slot"} \subseteq Has(fsm)

\* Taken up once, as in add_booking
ConfirmMoveRefused(i) ==
    LET C == {chat, Bare(chat, i)} IN
    /\ On(i, "m:reschedule:confirm")
    /\ \/ Busy(fsm) /\ Refuse(chat)
       \/ ~Busy(fsm) /\ CutShort(Marked) /\ chat' \in C
       \/ ~Busy(fsm) /\ ~MoveReady /\ LoseContext(C, "master_reschedule")
       \/ ~Busy(fsm) /\ MoveReady
          /\ \/ RedrawOrSend(chat, i, Drop(fsm, {"confirm_in_progress"}),
                             "Reschedule.selecting_date", "move.calendar", NoDay)
             \/ ReturnToSchedule(C, i)

ConfirmMove(i) ==
    LET C == {chat, Bare(chat, i)} IN
    /\ On(i, "m:reschedule:confirm") /\ ~Busy(fsm) /\ MoveReady
    /\ ReturnToSchedule(C, i) \/ (CutShort(Marked) /\ chat' \in C)
    /\ act' = Act("move", i, fsm.picked)

-----------------------------------------------------------------------------
Quiet(i) ==
    \/ BookFromCard(i) \/ SelectMaster(i) \/ TurnCalendar(i) \/ PickBookingDay(i)
    \/ SelectSlot(i) \/ BookingBackToCalendar(i) \/ BookingBackToSlots(i)
    \/ CancelBooking(i) \/ ConfirmRefused(i)
    \/ NoClientsAddClient(i) \/ ChooseClient(i) \/ BookForCard(i) \/ TurnAddCalendar(i)
    \/ ShowAddPaywall(i) \/ CalendarCancel(i) \/ PickAddDay(i) \/ PickAddSlot(i)
    \/ AddBackToCalendar(i) \/ AddBackToSlots(i) \/ AddConfirmRefused(i) \/ CancelAddBooking(i)
    \/ StartReschedule(i) \/ TurnMoveCalendar(i) \/ ShowMovePaywall(i) \/ PickMoveDay(i)
    \/ BackToCard(i) \/ MoveBackToCalendar(i) \/ MoveBackToSlots(i) \/ PickMoveSlot(i)
    \/ ConfirmMoveRefused(i)

Commit(i) == ConfirmBooking(i) \/ AddConfirm(i) \/ ConfirmMove(i)

Start == StartBooking \/ StartAddBooking \/ SearchClient

\* What each state takes from the data
BookingNeeds ==
           {"ClientBooking.selecting_master"} \X {"client_id"}
      \cup {"ClientBooking.selecting_date"} \X {"client_id", "master_id"}
      \cup {"ClientBooking.selecting_slot"} \X {"client_id", "master_id", "day"}
      \cup {"ClientBooking.confirm"} \X {"client_id", "master_id", "day", "slot"}
      \cup {"AddBooking.selecting_date"} \X {"master_id", "client"}
      \cup {"AddBooking.selecting_slot"} \X {"master_id", "client", "day"}
      \cup {"AddBooking.confirm"} \X {"master_id", "client", "day", "slot"}
      \cup {"Reschedule.selecting_date"} \X {"booking"}
      \cup {"Reschedule.selecting_slot"} \X {"booking", "day"}
      \cup {"Reschedule.confirm"} \X {"booking", "day", "slot"}
=============================================================================
