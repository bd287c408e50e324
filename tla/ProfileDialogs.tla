--------------------------- MODULE ProfileDialogs ---------------------------
(***************************************************************************)
(* The dialogs in which profiles are made and a day's hours are set: a     *)
(* master registers (handlers/master/register.py), a client accepts an     *)
(* invite (handlers/client/register.py), a master adds a client without    *)
(* Telegram (handlers/master/add_client.py) and overrides the hours of a   *)
(* day (handlers/master/workday_overrides.py).  What the profiles and the  *)
(* hours then are is Clients' and Workdays' affair.                        *)
(***************************************************************************)
EXTENDS Chat

\* A form: the states in which something is typed, each with the data it gives, and
\* the state in which it is confirmed.  A wrong answer is asked for again; every
\* question is a new message
Answer(form, cancel, confirm) ==
    \E n \in 1..(Len(form) - 1) :
        /\ fsm.state = form[n].state
        /\ \/ Send({chat}, fsm, fsm.state, cancel, NoDay)
           \/ Send({chat}, Put(fsm, {form[n].key}), form[n + 1].state,
                   IF n + 1 = Len(form) THEN confirm ELSE cancel, NoDay)

-----------------------------------------------------------------------------
(* A master registers.                                                     *)

MasterForm ==
    << [state |-> "MasterRegistration.name",      key |-> "name"],
       [state |-> "MasterRegistration.phone",     key |-> "phone"],
       [state |-> "MasterRegistration.work_days", key |-> "work_days"],
       [state |-> "MasterRegistration.work_time", key |-> "work_time"],
       [state |-> "MasterRegistration.slot_size", key |-> "slot_size_min"],
       [state |-> "MasterRegistration.confirm",   key |-> ""] >>

\* Already a master, no invite, a wrong one: the end.  Otherwise the name, if he has
\* consented, or the consent
StartMasterRegistration ==
    LET C == Fresh({chat}, "master_registration") IN
    /\ role = "master"
    /\ \/ Reset({chat}, "master_registration")
       \/ /\ ~registered
          /\ IF consent
             THEN Send(C, Put(Blank, {"token"}), "MasterRegistration.name", "mreg.cancel", NoDay)
             ELSE Send(C, Put(Blank, {"token"}), "MasterRegistration.consent", "mreg.consent",
                       NoDay)
    /\ UNCHANGED <<registered, consent>>

\* master_reg_pd_decline, _back, _policy
MasterConsent(i) ==
    \/ On(i, "m:pd:policy") /\ Refuse(Track(i))
    \/ /\ On(i, "m:pd:disagree")
       /\ \E c \in {Track(i), Bare(Track(i), i)} :
             Redraw(c, i, fsm, "MasterRegistration.consent_declined", "mreg.declined", NoDay)
    \/ On(i, "m:pd:back") /\ Redraw(Track(i), i, fsm, "MasterRegistration.consent",
                                    "mreg.consent", NoDay)

\* Mutant: the consent is not written down.
AgreeMasterOnly(i) ==
    /\ On(i, "m:pd:agree")
    /\ Redraw(Track(i), i, fsm, "MasterRegistration.name", "mreg.cancel", NoDay)
    /\ UNCHANGED <<registered, consent>>

AgreeMaster(i) ==
    /\ On(i, "m:pd:agree")
    /\ Redraw(Track(i), i, fsm, "MasterRegistration.name", "mreg.cancel", NoDay)
    /\ consent' = TRUE
    /\ UNCHANGED registered

AnswerMaster == Answer(MasterForm, "mreg.cancel", "mreg.confirm")

MasterBusy == "confirm_in_progress" \in fsm.keys

MasterData == {MasterForm[n].key : n \in 1..5}

\* The flag, the buttons, then the profile; the answer ends the dialog whatever it is
ConfirmMaster(i) ==
    LET C == {Track(i), Bare(Track(i), i)}
        marked == Put(fsm, {"confirm_in_progress"})
    IN  /\ On(i, "m:registration:confirm")
        /\ \/ MasterBusy /\ Refuse(Track(i)) /\ UNCHANGED registered
           \/ /\ ~MasterBusy /\ MasterData \subseteq fsm.keys
              /\ registered' = TRUE
              /\ \/ CutShort(marked) /\ chat' \in C \cup Swept(C, {"master_registration"})
                 \/ fsm' = Blank /\ chat' \in Fresh(C, "master_registration")
           \/ /\ ~MasterBusy
              /\ UNCHANGED registered
              /\ \/ CutShort(marked) /\ chat' \in C
                 \/ fsm' = Blank /\ chat' \in Fresh(C, "master_registration")
        /\ UNCHANGED consent

\* The author of the message it starts again from is the bot: it has not consented,
\* and may be over its rate
RestartMaster(i) ==
    /\ On(i, "m:registration:restart")
    /\ \/ Reset({chat}, "master_registration")
       \/ Send(Fresh({chat}, "master_registration"), Put(Blank, {"token"}),
               "MasterRegistration.consent", "mreg.consent", NoDay)

CancelMaster(i) ==
    /\ \E b \in {"m:registration:cancel", "m:pd:understood"} : On(i, b)
    /\ Reset({chat}, "master_registration")

-----------------------------------------------------------------------------
(* A client accepts an invite.                                             *)

ClientForm ==
    << [state |-> "ClientRegistration.name",    key |-> "name"],
       [state |-> "ClientRegistration.phone",   key |-> "phone"],
       [state |-> "ClientRegistration.confirm", key |-> ""] >>

\* The invite is accepted at once if nothing is missing, refused, or the name is asked
StartClientRegistration ==
    LET C == Fresh({chat}, "client_registration") IN
    /\ role = "client"
    /\ \/ Reset({chat}, "client_registration") /\ UNCHANGED registered
       \/ ~consent /\ UNCHANGED registered
          /\ Send(C, Put(Blank, {"invite_token"}), "ClientRegistration.consent",
                  "creg.consent", NoDay)
       \/ consent /\ UNCHANGED registered
          /\ Send(C, Put(Blank, {"invite_token", "invite_data"}), "ClientRegistration.name",
                  "creg.cancel", NoDay)
       \/ consent /\ registered' = TRUE /\ Reset(C, "client_registration")
    /\ UNCHANGED consent

\* client_reg_pd_decline, _back, _policy
ClientConsent(i) ==
    \/ On(i, "c:pd:policy") /\ Refuse(Track(i))
    \/ On(i, "c:pd:disagree") /\ Redraw(Track(i), i, fsm, "ClientRegistration.consent_declined",
                                        "creg.declined", NoDay)
    \/ On(i, "c:pd:back") /\ Redraw(Track(i), i, fsm, "ClientRegistration.consent",
                                    "creg.consent", NoDay)

\* The consent and the acceptance are one transaction
AgreeClient(i) ==
    /\ On(i, "c:pd:agree")
    /\ \/ /\ "invite_token" \notin fsm.keys
          /\ LoseContext({Track(i)}, "client_registration")
          /\ UNCHANGED <<registered, consent>>
       \/ /\ "invite_token" \in fsm.keys
          /\ CutShort(fsm) /\ chat' = Track(i)
          /\ UNCHANGED <<registered, consent>>
       \/ /\ "invite_token" \in fsm.keys
          /\ consent' = TRUE
          /\ \/ Reset({Track(i)}, "client_registration") /\ registered' \in {registered, TRUE}
             \/ /\ Redraw(Track(i), i, Put(fsm, {"invite_data"}), "ClientRegistration.name",
                          "creg.cancel", NoDay)
                /\ UNCHANGED registered

AnswerClient == Answer(ClientForm, "creg.cancel", "creg.confirm")

ClientData == {"invite_data", "name", "phone"}

\* No flag: only the buttons are removed.  The answer ends the dialog whatever it is
ConfirmClient(i) ==
    LET C == {Track(i), Bare(Track(i), i)} IN
    /\ On(i, "c:registration:confirm")
    /\ Reset(C, "client_registration")
    /\ registered' \in {registered} \cup {r \in {TRUE} : ClientData \subseteq fsm.keys}
    /\ UNCHANGED consent

\* Mutant: nothing is kept.
RestartClientAnew(i) ==
    /\ On(i, "c:registration:restart")
    /\ Send(Fresh({Track(i)}, "client_registration"), Blank, "ClientRegistration.name",
            "creg.cancel", NoDay)

\* Only the invite is kept, even one that outlived a handler that was cut short
RestartClient(i) ==
    /\ On(i, "c:registration:restart")
    /\ IF "invite_data" \in fsm.keys
       THEN Send(Fresh({Track(i)}, "client_registration"),
                 [Put(Blank, {"invite_data"}) EXCEPT !.halted = fsm.halted],
                 "ClientRegistration.name", "creg.cancel", NoDay)
       ELSE LoseContext({Track(i)}, "client_registration")

CancelClient(i) ==
    /\ \E b \in {"c:registration:cancel", "c:pd:understood"} : On(i, b)
    /\ Reset({chat}, "client_registration")

-----------------------------------------------------------------------------
(* A master adds a client.                                                 *)

AddClientForm ==
    << [state |-> "AddClient.name",    key |-> "name"],
       [state |-> "AddClient.phone",   key |-> "phone"],
       [state |-> "AddClient.confirm", key |-> ""] >>

\* Into whatever dialog is open: nothing is cleared unless it is refused
StartAddClient ==
    /\ role = "master" /\ registered
    /\ \/ Send({chat}, fsm, "AddClient.name", "client.cancel", NoDay)
       \/ Reset({chat}, "master_add_client")

AnswerAddClient == Answer(AddClientForm, "client.cancel", "client.confirm")

\* A phone already known is asked for again, and the flag dropped last
ConfirmAddClient(i) ==
    LET C == {Track(i), Bare(Track(i), i)}
        marked == Put(fsm, {"confirm_in_progress"})
        dropped == To(Drop(fsm, {"confirm_in_progress"}), "AddClient.phone")
        asked == {Sent(c, "client.cancel", NoDay) : c \in C}
    IN  /\ On(i, "m:add_client:confirm")
        /\ \/ "confirm_in_progress" \in fsm.keys /\ Refuse(Track(i))
           \/ /\ "confirm_in_progress" \notin fsm.keys
              /\ \/ CutShort(marked) /\ chat' \in C \cup asked
                 \/ Reset(C, "master_add_client")
                 \/ /\ {"name", "phone"} \subseteq fsm.keys
                    /\ chat' \in asked
                    /\ fsm' = dropped \/ CutShort(To(marked, "AddClient.phone"))
                 \/ /\ {"name", "phone"} \subseteq fsm.keys
                    /\ fsm' = Blank
                    /\ chat' \in {Cleared(Drawn(c, i, "paywall", NoDay)) : c \in C}

RestartAddClient(i) ==
    LET C == Fresh({Track(i)}, "master_add_client") IN
    /\ On(i, "m:add_client:restart")
    /\ \/ Reset({Track(i)}, "master_add_client")
       \/ Send(C, Blank, "AddClient.name", "client.cancel", NoDay)

CancelAddClient(i) ==
    /\ On(i, "m:add_client:cancel")
    /\ Reset({chat}, "master_add_client")

-----------------------------------------------------------------------------
(* A master overrides a day.  One main message is edited, whichever was    *)
(* tapped; that it could not be is only logged.                            *)

EditDay(f, state, kind, shows) == EditMain(chat, Overrides, f, state, kind, shows)

\* The message first, the day and the state after it
RenderDayMenu(d) ==
    \/ EditDay([fsm EXCEPT !.day = d], "Workday.choosing_action", "day.menu", d)
    \/ CutShort(fsm)
       /\ chat' \in {chat} \cup {Drawn(chat, i, "day.menu", d) : i \in Main(chat, Overrides)}

StartOverrides(i) ==
    /\ On(i, "m:overrides:start")
    /\ \/ CutShort(fsm) /\ UNCHANGED chat
       \/ Redraw([Cleared(chat) EXCEPT ![i].main = TRUE], i, Blank, "Workday.picking_date",
                 "day.calendar", NoDay)

TurnOverrideCalendar(i) ==
    /\ On(i, "m:overrides:mc:m")
    /\ Refresh(chat, i, "day.calendar")

PickOverrideDay(i) ==
    /\ On(i, "m:overrides:mc:d")
    /\ Forget \/ \E d \in Days : RenderDayMenu(d)

\* If the message cannot be edited the dialog stays as it is
BackToSchedule(i) ==
    /\ On(i, "m:overrides:back_schedule")
    /\ \/ Refuse(chat)
       \/ fsm' = Blank /\ chat' = Cleared(Drawn(chat, i, "schedule", NoDay))
       \/ CutShort(fsm) /\ chat' = Drawn(chat, i, "schedule", NoDay)

\* Bookings in the way are listed, and the state stays
Conflicted == EditDay(fsm, fsm.state, "day.back", NoDay)

OverrideRefused(i) ==
    /\ \E b \in {"m:overrides:make_day_off", "m:overrides:make_working"} : On(i, b)
    /\ Forget \/ ("day" \in Has(fsm) /\ Conflicted)

\* make_day_off, make_working
OverrideDay(i) ==
    /\ \E b \in {"m:overrides:make_day_off", "m:overrides:make_working"} : On(i, b)
    /\ "day" \in Has(fsm)
    /\ RenderDayMenu(fsm.day)
    /\ act' = Act("override", i, fsm.day)

PromptStart(i) ==
    /\ On(i, "m:overrides:set_hours")
    /\ EditDay(fsm, "Workday.setting_start", "day.back", NoDay)

ReadStart ==
    /\ fsm.state = "Workday.setting_start"
    /\ \/ EditDay(fsm, fsm.state, "day.back", NoDay)
       \/ EditDay(Put(fsm, {"override_start"}), "Workday.setting_end", "day.back", NoDay)

\* Asked again, a conflict, or the hours are set
ReadEnd ==
    /\ fsm.state = "Workday.setting_end"
    /\ IF {"day", "override_start"} \subseteq Has(fsm)
       THEN EditDay(fsm, fsm.state, "day.back", NoDay) \/ RenderDayMenu(fsm.day) \/ Forget
       ELSE Forget

BackToDay(i) ==
    /\ On(i, "m:overrides:back_day")
    /\ IF "day" \in Has(fsm) THEN RenderDayMenu(fsm.day) ELSE Forget

-----------------------------------------------------------------------------
ProfileQuiet(i) ==
    \/ MasterConsent(i) \/ RestartMaster(i) \/ CancelMaster(i)
    \/ ClientConsent(i) \/ RestartClient(i) \/ CancelClient(i)
    \/ ConfirmAddClient(i) \/ RestartAddClient(i) \/ CancelAddClient(i)
    \/ StartOverrides(i) \/ TurnOverrideCalendar(i) \/ PickOverrideDay(i) \/ BackToSchedule(i)
    \/ OverrideRefused(i) \/ PromptStart(i) \/ BackToDay(i)

Typed == AnswerMaster \/ AnswerClient \/ StartAddClient \/ AnswerAddClient \/ ReadStart \/ ReadEnd

Register(i) == AgreeMaster(i) \/ ConfirmMaster(i) \/ AgreeClient(i) \/ ConfirmClient(i)

ProfileNeeds ==
           {"MasterRegistration.consent", "MasterRegistration.consent_declined",
            "MasterRegistration.name"} \X {"token"}
      \cup {"MasterRegistration.phone"} \X {"token", "name"}
      \cup {"MasterRegistration.work_days"} \X {"token", "name", "phone"}
      \cup {"MasterRegistration.work_time"} \X {"token", "name", "phone", "work_days"}
      \cup {"MasterRegistration.slot_size"}
              \X {"token", "name", "phone", "work_days", "work_time"}
      \cup {"MasterRegistration.confirm"} \X ({"token"} \cup MasterData)
      \cup {"ClientRegistration.consent", "ClientRegistration.consent_declined"}
              \X {"invite_token"}
      \cup {"ClientRegistration.name"} \X {"invite_data"}
      \cup {"ClientRegistration.phone"} \X {"invite_data", "name"}
      \cup {"ClientRegistration.confirm"} \X ClientData
      \cup {"AddClient.phone"} \X {"name"}
      \cup {"AddClient.confirm"} \X {"name", "phone"}
      \cup {"Workday.choosing_action", "Workday.setting_start"} \X {"day"}
      \cup {"Workday.setting_end"} \X {"day", "override_start"}
=============================================================================
