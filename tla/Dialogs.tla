------------------------------ MODULE Dialogs -------------------------------
(***************************************************************************)
(* All the dialogs of one user together, over one conversation state and   *)
(* one chat.  A dialog can be started at any time from the menu or a card, *)
(* whatever another has left in the state and on the screen.               *)
(***************************************************************************)
EXTENDS BookingDialogs, ProfileDialogs, EditDialogs

vars == <<fsm, chat, role, registered, consent, act>>

\* A user keeps to one role: changing it clears the state, as Abandon does
Init ==
    /\ fsm = Blank /\ chat = <<>> /\ act = NoAct
    /\ role \in {"client", "master"}
    /\ registered \in BOOLEAN
    /\ consent \in {c \in BOOLEAN : registered => c}

Cards == [client |-> {"master card"}, master |-> {"schedule", "client card"}]

\* A card or the schedule, sent by a handler of no dialog
OpenCard ==
    /\ registered
    /\ \E kind \in Cards[role] :
          chat' = Appended(chat, [Screen(kind, NoDay, FALSE) EXCEPT !.front = FALSE])
    /\ UNCHANGED fsm

\* An invite that is made or a role switched and switched back clear the state, and
\* leave the messages
Abandon == AtMenu /\ fsm # Blank /\ Forget

\* handlers/master/close.py: the buckets of the master's dialogs (of an invite's there is
\* nothing here), then the tapped message, or at least its buttons
Close(i) ==
    LET mine == {"master_add_booking", "master_add_client", "master_edit_client",
                 "master_edit_client_card", "master_registration", "master_reschedule",
                 "settings", "master_workday_overrides"}
    IN  /\ On(i, "m:close")
        /\ \/ CutShort(fsm) /\ chat' \in {chat} \cup Swept({chat}, mine)
           \/ /\ fsm' = Blank
              /\ chat' \in {Cleared(c) : c \in Swept({chat, Bare(chat, i), RemoveAt(chat, i)}, mine)}

Quietly(A) == A /\ act' = NoAct /\ UNCHANGED <<role, registered, consent>>

Next ==
    \/ Quietly(Start)
    \/ Quietly(Typed)
    \/ Quietly(EditTyped)
    \/ SaveField /\ UNCHANGED <<role, registered, consent>>
    \/ Quietly(OpenCard)
    \/ Quietly(Abandon)
    \/ (StartMasterRegistration \/ StartClientRegistration) /\ act' = NoAct /\ UNCHANGED role
    \/ \E i \in DOMAIN chat :
          \/ Quietly(Quiet(i))
          \/ Quietly(ProfileQuiet(i))
          \/ Quietly(EditQuiet(i))
          \/ DeletePersonalData(i) /\ act' = NoAct /\ UNCHANGED role
          \/ Quietly(Close(i))
          \/ Register(i) /\ act' = NoAct /\ UNCHANGED role
          \/ (Commit(i) \/ OverrideDay(i)) /\ UNCHANGED <<role, registered, consent>>

Spec == Init /\ [][Next]_vars

-----------------------------------------------------------------------------
Keys == {"client_id", "master_id", "clients", "client", "return_to", "confirm_in_progress",
         "booking", "token", "name", "phone", "work_days", "work_time", "slot_size_min",
         "invite_token", "invite_data", "override_start", "results", "alias"}

\* The types; and at most one message is the dialog's own.
TypeOK ==
    /\ fsm \in [state : States, keys : SUBSET Keys, day : Days \cup {NoDay},
                picked : Days \cup {NoDay}, who : People \cup {NoDay}, lost : BOOLEAN, halted : BOOLEAN]
    /\ chat \in Seq([kind : Kinds, shows : Days \cup People \cup {NoDay},
                      tracked : BOOLEAN, front : BOOLEAN, main : BOOLEAN])
    /\ Len(chat) <= MaxScreens
    /\ \A i, j \in DOMAIN chat : chat[i].front /\ chat[j].front => i = j
    /\ role \in {"client", "master"} /\ registered \in BOOLEAN /\ consent \in BOOLEAN

Needs == [state \in States |-> Column(BookingNeeds \cup ProfileNeeds \cup EditNeeds, state)]

\* In each state the data its handlers read is there, however the user got to it: through
\* "back", a restart, a search that is repeated, a slot that was taken, another dialog in
\* between.  Only a handler that was cut short can leave less (the "context lost" answers).
ContextIsKept == ~fsm.halted => Needs[fsm.state] \subseteq Has(fsm)

ConfirmStates == {"AddBooking.confirm", "Reschedule.confirm", "MasterRegistration.confirm",
                  "AddClient.confirm"}

\* Where the user is asked to confirm, his tap is taken up: confirm_in_progress is not left
\* over from a confirmation that was refused before, in this dialog or an earlier one.
\* (If a handler was cut short it may be: nothing but the start of a dialog resets it.)
ConfirmIsTakenUp ==
    fsm.state \in ConfirmStates /\ ~fsm.halted => "confirm_in_progress" \notin fsm.keys

\* What is booked, moved to or overridden through the dialog's own message is what that
\* message says, and a name or phone typed is saved for the client its question names,
\* whatever was edited, failed to be edited or came in between.  An override or an edit may
\* be another's once a handler was cut short between the message and the data.
DoesWhatItShows ==
    [][act'.what # "none" /\ act'.front /\ (act'.what \in {"override", "edit"} => ~fsm.halted)
          => act'.used = act'.shown]_vars

\* The same for every message that can still be tapped.
EveryScreenDoesWhatItShows == [][act'.what # "none" => act'.used = act'.shown]_vars

Live(i) == {b \in Keyboard[chat[i].kind] : Accepts(b, fsm.state)}

\* Every button of the message a dialog last drew has a handler in the state the dialog
\* went on to, unless the drawing failed.  The two consent screens of a client have a
\* cancel button whose handler does not listen in their states.
NoDeadButton ==
    \A i \in DOMAIN chat :
        chat[i].front /\ ~fsm.lost /\ ~fsm.halted =>
            Keyboard[chat[i].kind] \ Live(i)
                \subseteq IF chat[i].kind \in {"creg.consent", "creg.declined"}
                          THEN {"c:registration:cancel"} ELSE {}

\* Even when the drawing failed and the state went on without it, the old message still
\* has a button that works.  A client's confirmation and the consent screens do not: then
\* only the menu or the invite's link helps.
AlwaysAWayOn ==
    \A i \in DOMAIN chat :
        chat[i].front /\ ~fsm.halted /\ Keyboard[chat[i].kind] # {}
            => \/ Live(i) # {}
               \/ fsm.lost /\ chat[i].kind \in {"book.confirm", "mreg.consent", "creg.consent",
                                               "creg.declined"}

\* Nobody becomes a client or a master without his consent on record, though it can be
\* deleted, with his profile, while he is in the middle of a registration.  (If that is cut
\* short before the state is cleared, the registration goes on without.)
ConsentComesFirst == [][registered' /\ ~registered /\ ~fsm.halted => consent']_vars
=============================================================================
