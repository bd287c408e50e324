----------------------------- MODULE EditDialogs -----------------------------
(***************************************************************************)
(* The dialogs that change one field: a master finds a client of his and   *)
(* gives him another name or phone (handlers/master/edit_client.py), either *)
(* role changes his settings (handlers/client/settings.py,                 *)
(* handlers/master/settings.py), a client renames a master for himself     *)
(* (handlers/client/list_masters.py).  Which client is edited is in the    *)
(* data; what the messages say of it may be another.                       *)
(***************************************************************************)
EXTENDS Chat

Selected(f, p) == [f EXCEPT !.who = p]

-----------------------------------------------------------------------------
(* A client is found and edited.                                           *)

SearchBucket == {"master_edit_client"}

EditBuckets == {"master_edit_client", "master_edit_client_card"}

\* start_edit_client and back: what was sent before is deleted, the search begins anew
AskQuery ==
    \/ CutShort(fsm) /\ chat' \in {chat} \cup Swept({chat}, EditBuckets)
    \/ Send({Cleared(c) : c \in Swept({chat}, EditBuckets)}, Blank, "EditClient.query",
            "edit.prompt", NoDay)

StartSearch == role = "master" /\ registered /\ AskQuery

BackToSearch(i) == On(i, "m:edit_client:back") /\ AskQuery

\* Nothing typed, nobody found, or a list
ReadQuery ==
    LET C == Swept({chat}, SearchBucket) IN
    /\ fsm.state = "EditClient.query"
    /\ \/ Send({chat} \cup C, fsm, fsm.state, "edit.prompt", NoDay)
       \/ Send(C, Put(fsm, {"results"}), "EditClient.choosing", "edit.results", NoDay)

\* Whoever was found last is in the data: the client of an older list may not be
PickClient(i) ==
    LET c == [chat EXCEPT ![i].kind = "edit.picked", ![i].tracked = TRUE] IN
    /\ On(i, "m:edit_client:pick")
    /\ \/ Refuse(c)
       \/ /\ "results" \in fsm.keys
          /\ \E p \in People : Redraw(MainIs(c, i, EditClient), i, Selected(fsm, p),
                                      "EditClient.action", "edit.view", p)

\* Back to what was there before the menu; the dialog does not notice
ViewClient(i) ==
    /\ On(i, "m:edit_client:view")
    /\ chat' \in {chat, Turned(chat, i, "edit.view", chat[i].shows),
                  Turned(chat, i, "client card", NoDay)}
    /\ UNCHANGED fsm

\* c: the chat, f: the data before the client the menu is for is written to it
ShowEditMenu(c, i, f, p) ==
    Redraw(MainIs(c, i, EditClient), i, Put(Selected(f, p), {"results"}), "EditClient.action",
           "edit.menu", p)

\* The menu for the client of the tapped message, whoever was selected
EditMenu(i) ==
    /\ On(i, "m:edit_client:edit_menu")
    /\ Refuse(chat) \/ ShowEditMenu(chat, i, fsm, chat[i].shows)

OpenClientDirect(i) ==
    LET C == Swept({chat}, EditBuckets) IN
    /\ On(i, "m:edit_client:open")
    /\ \/ CutShort(fsm) /\ chat' \in {chat} \cup C
       \/ fsm' = Blank /\ chat' \in {Cleared(c) : c \in C}
       \/ \E c \in {Cleared(d) : d \in C} : \E j \in Still(c, i), p \in People :
             ShowEditMenu(c, j, Blank, p)

\* book_client: on to add_booking
BookFromView(i) ==
    /\ On(i, "m:edit_client:book")
    /\ \/ Refuse(chat)
       \/ Redraw(Cleared(chat), i, Put(Blank, {"master_id", "client"}),
                 "AddBooking.selecting_date", "add.calendar", NoDay)

\* The question is about the client selected, whose menu was tapped; the phone of one with
\* Telegram is refused
AskField(i, button, state) ==
    LET c == MainIs(chat, i, EditClient) IN
    /\ On(i, button)
    /\ \/ fsm.who = NoDay /\ Forget
       \/ fsm.who # NoDay /\ state = "EditClient.edit_phone" /\ Refuse(c)
       \/ fsm.who # NoDay /\ Redraw(c, i, fsm, state, "edit.input", fsm.who)

StartEditField(i) ==
    \/ AskField(i, "m:edit_client:edit_name", "EditClient.edit_name")
    \/ AskField(i, "m:edit_client:edit_phone", "EditClient.edit_phone")

Asked == {"EditClient.edit_name", "EditClient.edit_phone"}

\* Not valid, or somebody else's phone: asked again.  A phone that may not be edited any
\* more ends in a call with an argument missing, and the state stays
ReadFieldRefused ==
    LET C == Swept({chat}, SearchBucket) IN
    /\ fsm.state \in Asked
    /\ IF fsm.who = NoDay THEN Forget
       ELSE \/ \E c \in {chat} \cup C : EditMain(c, EditClient, fsm, fsm.state, "edit.input", fsm.who)
            \/ fsm' = Blank /\ chat' \in {Cleared(c) : c \in C}
            \/ fsm.state = "EditClient.edit_phone" /\ chat' \in C /\ UNCHANGED fsm

\* save_name, save_phone.  What the question, if it could be drawn, says of whom
SaveField ==
    /\ fsm.state \in Asked /\ fsm.who # NoDay
    /\ \E c \in Swept({chat}, SearchBucket) :
          EditMain(c, EditClient, fsm, "EditClient.action", "edit.menu", fsm.who)
    /\ LET asked == {i \in DOMAIN chat : chat[i].front /\ chat[i].kind = "edit.input"}
       IN  act' = IF asked = {} THEN NoAct ELSE Act("edit", CHOOSE i \in asked : TRUE, fsm.who)

CancelEdit(i) ==
    /\ On(i, "m:edit_client:cancel")
    /\ \/ CutShort(fsm) /\ chat' \in {chat} \cup Swept({chat}, EditBuckets)
       \/ fsm' = Blank /\ chat' \in {Cleared(c) : c \in Swept({chat}, EditBuckets)}

-----------------------------------------------------------------------------
(* The settings, all their pages as one.  The client's questions are asked *)
(* in the tapped message, the master's in a new one; all else is drawn in  *)
(* one main message, whichever was tapped.  Which it is is left open: it   *)
(* may be an older one, out of reach or gone.                              *)

SettingsIn(c) ==
    {i \in DOMAIN c : c[i].kind \in IF role = "client" THEN Rows(SettingsKeyboards)
                                    ELSE {"settings"}}

\* The main message is drawn, or cannot be
MainDrawn(C, kind) ==
    C \cup UNION {{Drawn(c, i, kind, NoDay) : i \in SettingsIn(c)} : c \in C}

WithSettings(c) == Appended(Faded(c), Screen("settings", NoDay, FALSE))

WithoutSettings(c) == {c} \cup {RemoveAt(c, i) : i \in SettingsIn(c)}

\* The client's clear the state before they are drawn; the master's keep the data, and the
\* messages of the dialog they interrupt
OpenSettings ==
    /\ AtMenu
    /\ \/ /\ role = "client" /\ fsm' = Blank
          /\ chat' \in {Cleared(chat), WithSettings(Cleared(chat))}
       \/ /\ role = "master" /\ fsm' = To(fsm, "none")
          /\ \E c \in Swept({chat}, {"settings"}) :
                chat' \in {WithSettings(d) : d \in WithoutSettings(c)}
       \/ /\ role = "master" /\ CutShort(To(fsm, "none"))
          /\ chat' \in Swept({chat}, {"settings"})

\* Another page; the dialog that is open goes on.  The client who cannot be shown it has
\* lost that too
TurnSettings(i) ==
    /\ On(i, "settings:menu")
    /\ \/ UNCHANGED fsm /\ chat' \in {chat} \cup {Turned(chat, m, "settings", NoDay) :
                                                   m \in SettingsIn(chat)}
       \/ role = "client" /\ Forget

\* edit_name, edit_phone and the master's hours
EditSetting(i) ==
    /\ On(i, "settings:edit")
    /\ \/ role = "client" /\ Forget
       \/ /\ role = "client"
          /\ fsm' = To(fsm, "Settings.edit") /\ chat' = Drawn(chat, i, "settings.prompt", NoDay)
       \/ /\ role = "master"
          /\ fsm' = To(fsm, "Settings.edit") /\ chat' = Sent(chat, "settings.prompt", NoDay)
       \/ (CutShort(fsm) \/ CutShort(To(fsm, "Settings.edit"))) /\ UNCHANGED chat

\* The client is asked again in the main message; the master is only told
SettingRefused ==
    /\ fsm.state = "Settings.edit"
    /\ \/ role = "master" /\ Refuse(chat)
       \/ role = "client" /\ UNCHANGED fsm /\ chat' \in MainDrawn({chat}, "settings.prompt")
       \/ role = "client" /\ Forget

\* The dialog is over.  C: the chats; the settings again, or, for a master who has none,
\* a new message
LeaveSettings(C) ==
    /\ fsm' = To(fsm, "none") \/ CutShort(fsm)
    /\ chat' \in MainDrawn(C, "settings")
                 \cup {WithSettings(c) : c \in {d \in C : role = "master"}}

SaveSetting == fsm.state = "Settings.edit" /\ LeaveSettings(Swept({chat}, {"settings"}))

\* cancel_edit, and the client's back_menu, which leaves whatever dialog is open
KeepSetting(i) ==
    /\ \/ On(i, "settings:cancel_edit")
       \/ On(i, "settings:menu") /\ role = "client"
    /\ \/ LeaveSettings({Faded(c) : c \in Swept({chat}, {"settings"})})
       \/ role = "client" /\ Forget

\* "Close" and "support": the tapped message goes, and so does the dialog that is open
CloseSettings(i) ==
    /\ On(i, "settings:back")
    /\ fsm' = To(fsm, "none") \/ CutShort(fsm)
    /\ chat' \in {Faded(c) : c \in Swept({chat, RemoveAt(chat, i)}, {"settings"})}

\* The profile and the consent are deleted first
DeletePersonalData(i) ==
    LET C == Swept({chat, RemoveAt(chat, i)}, {"settings"}) IN
    /\ On(i, "settings:delete_confirm")
    /\ registered' = FALSE /\ consent' = FALSE
    /\ \/ CutShort(fsm) /\ chat' \in {chat} \cup C
       \/ fsm' = Blank /\ chat' \in {Cleared(c) : c \in C}

-----------------------------------------------------------------------------
(* A client gives a master another name.                                   *)

StartEditAlias(i) ==
    /\ On(i, "masters:alias")
    /\ \/ Refuse(chat)
       \/ Redraw(chat, i, Put(fsm, {"alias"}), "Masters.edit_alias", "alias.prompt", NoDay)

\* Back to the card.  The state stays: what is typed next is a name still
OpenMasterCard(i) ==
    /\ On(i, "masters:open")
    /\ chat' \in {chat, Turned(chat, i, "master card", NoDay)}
    /\ UNCHANGED fsm

SaveAlias ==
    /\ fsm.state = "Masters.edit_alias"
    /\ \/ Refuse(chat)
       \/ Forget
       \/ /\ "alias" \in fsm.keys
          /\ fsm' = To(Drop(fsm, {"alias"}), "none")
          /\ chat' \in {chat} \cup {Turned(chat, i, "master card", NoDay) :
                          i \in {n \in DOMAIN chat : chat[n].kind = "alias.prompt"}}

CloseMasterCard(i) ==
    /\ On(i, "masters:close")
    /\ fsm' = Blank /\ chat' \in {Cleared(chat), Cleared(RemoveAt(chat, i))}

-----------------------------------------------------------------------------
EditQuiet(i) ==
    \/ BackToSearch(i) \/ PickClient(i) \/ ViewClient(i) \/ EditMenu(i) \/ OpenClientDirect(i)
    \/ BookFromView(i) \/ StartEditField(i) \/ CancelEdit(i)
    \/ TurnSettings(i) \/ EditSetting(i) \/ KeepSetting(i) \/ CloseSettings(i)
    \/ StartEditAlias(i) \/ OpenMasterCard(i) \/ CloseMasterCard(i)

EditTyped ==
    \/ StartSearch \/ ReadQuery \/ ReadFieldRefused
    \/ OpenSettings \/ SettingRefused \/ SaveSetting \/ SaveAlias

EditNeeds ==
           {"EditClient.choosing"} \X {"results"}
      \cup {"EditClient.action", "EditClient.edit_name", "EditClient.edit_phone"} \X {"who"}
      \cup {"Masters.edit_alias"} \X {"alias"}
=============================================================================
