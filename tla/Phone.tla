-------------------------------- MODULE Phone --------------------------------
(***************************************************************************)
(* The UI task and the SIP task, with the two channels between them: the   *)
(* user's clicks go one way, the state of the call and of the registration *)
(* the other, and neither task knows what is still on its way.             *)
(*                                                                         *)
(* The calls are those of SipCall, without the messages: a call rings, is  *)
(* answered, is established by an ACK and ends.  Only ordinary calls are   *)
(* looked at: of a caller with a From tag, with an offer the phone can     *)
(* use.  A dialog without a call context, which the ACK of a 488 may even  *)
(* establish, is left to SipCall, AudioEngine and RtpStream.               *)
(***************************************************************************)
EXTENDS Ui

VARIABLES
    line,        \* dialog_state_to_phone_state of the core's dialog
    call_ctx,    \* "None", "Ringing" (its ring_deadline is Some), "Answered"
    last_reg,    \* last RegistrationStateChanged sent
    audio_mode,  \* last AudioMode sent to the audio task
    heard        \* an edge of the button was handled in this call (history)

sipVars == <<line, call_ctx, last_reg, audio_mode, heard>>
vars == <<uiVars, sipVars>>

Init ==
    /\ UiInit
    /\ line = "Idle" /\ call_ctx = "None"
    /\ last_reg = "Unregistered"
    /\ audio_mode = "Listen" /\ heard = FALSE

ExceptChannels == <<build, phone_state, registered, gesture, auto_answer_deadline, display, turn>>

Tell(cmd) == ui_rx' = Append(ui_rx, cmd)

----------------------------------------------------------------------------
(* What the network and the timers do to the call.  The bound on the       *)
(* channel is theirs alone: a hang-up never waits for the UI task, which   *)
(* may wait for the SIP task.                                              *)

News ==
    /\ Len(ui_rx) < MaxCommands
    /\ UNCHANGED <<ExceptChannels, sip_rx>>

Rings ==
    /\ line = "Idle"
    /\ line' = "Ringing" /\ call_ctx' = "Ringing"
    /\ heard' = FALSE
    /\ Tell("Ringing")
    /\ UNCHANGED <<last_reg, audio_mode>> /\ News

(* An ACK, the one that follows a retransmitted INVITE's 486 included,     *)
(* which leaves the ring_deadline set; it may come twice.                  *)
Confirmed ==
    /\ line # "Idle"
    /\ line' = "Established"
    /\ Tell("Established")
    /\ UNCHANGED <<call_ctx, last_reg, audio_mode, heard>> /\ News

EndCall ==
    /\ line' = "Idle" /\ call_ctx' = "None"
    /\ Tell("Idle")
    /\ UNCHANGED <<last_reg, audio_mode, heard>>

(* CANCEL, BYE, the end of the INVITE's transaction, the ring timeout.     *)
Ends ==
    /\ line # "Idle"
    /\ EndCall /\ News

(* Any change of the registration's state, of which only one is good news. *)
RegistrationChanges ==
    /\ last_reg' \in RegistrationNews
    /\ last_reg = "Registered" => last_reg' = "Unregistered"
    /\ Tell(last_reg')
    /\ UNCHANGED <<line, call_ctx, audio_mode, heard>> /\ News

----------------------------------------------------------------------------
(* What the button does to it: poll_commands, one command at a time. *)

(* An answer sends the 200 again when the call was answered already. *)
HandleAnswer ==
    /\ line = "Ringing"
    /\ call_ctx' = "Answered"
    /\ UNCHANGED <<line, last_reg, audio_mode, heard, ui_rx>>

HandleHangup ==
    /\ call_ctx = "Answered"
    /\ EndCall

(* Mutant: a call that only rings takes no notice of a release. *)
HandleButtonWhenEstablished(event) ==
    /\ call_ctx # "None"
    /\ audio_mode' = IF event = "Pressed" THEN "Talk"
                     ELSE IF line = "Established" THEN "Listen" ELSE audio_mode
    /\ heard' = TRUE
    /\ UNCHANGED <<line, call_ctx, last_reg, ui_rx>>

HandleButtonStateChanged(event) ==
    /\ call_ctx # "None"
    /\ audio_mode' = IF event = "Pressed" THEN "Talk" ELSE "Listen"
    /\ heard' = TRUE
    /\ UNCHANGED <<line, call_ctx, last_reg, ui_rx>>

Ignored(event) ==
    /\ CASE event = "ShortPress" -> line # "Ringing"
         [] event = "DoubleTap"  -> call_ctx # "Answered"
         [] OTHER                -> call_ctx = "None"
    /\ UNCHANGED <<sipVars, ui_rx>>

HandleButtonEvent(event) ==
    \/ event = "ShortPress" /\ HandleAnswer
    \/ event = "DoubleTap" /\ HandleHangup
    \/ event \in {"Pressed", "Released"} /\ HandleButtonStateChanged(event)
    \/ Ignored(event)

TakeCommand ==
    /\ sip_rx # <<>>
    /\ HandleButtonEvent(Head(sip_rx))
    /\ sip_rx' = Tail(sip_rx)
    /\ UNCHANGED ExceptChannels

Next ==
    \/ Rings \/ Confirmed \/ Ends \/ RegistrationChanges
    \/ TakeCommand
    \/ UiNext /\ UNCHANGED sipVars

(* Both loops run for ever; poll_commands of the UI ends when its channel  *)
(* is found empty.                                                         *)
Fairness ==
    /\ WF_vars(TakeCommand)
    /\ WF_vars(PollCommand /\ UNCHANGED sipVars)
    /\ SF_vars((\E pressed \in Readable : PollButton(pressed)) /\ UNCHANGED sipVars)
    /\ WF_vars((Release \/ Rest) /\ UNCHANGED sipVars)

Spec == Init /\ [][Next]_vars /\ Fairness

----------------------------------------------------------------------------
TypeOK ==
    /\ UiTypeOK
    /\ line \in PhoneState /\ call_ctx \in {"None", "Ringing", "Answered"}
    /\ last_reg \in RegistrationNews
    /\ audio_mode \in {"Listen", "Talk"} /\ heard \in BOOLEAN

(* With nothing on its way to the UI, the LED shows the call that the core *)
(* has and, between calls, the registration: a colour of one state is not  *)
(* seen in another, whatever was told and overtaken before.  The exception *)
(* is an LED that could not be set, which the task takes for set.          *)
LedShowsTheCall ==
    ui_rx = <<>> /\ led = last_led_state =>
        /\ led = "Yellow" => line = "Ringing"
        /\ led = "Blue" <=> line = "Established"
        /\ led = "Green" <=> line = "Idle" /\ last_reg = "Registered"
        /\ led = "Red" => line = "Idle" /\ last_reg = "Unregistered"

(* Of clicks in quick succession every second one is a double tap, and no  *)
(* other click is: no release counts for two gestures, and a press held    *)
(* too long, or begun before the task, counts for none.                    *)
GesturesPairClicks ==
    [][Release => sip_rx' = IF ~ Clicked THEN sip_rx
                            ELSE Append(sip_rx, IF odd' THEN "ShortPress" ELSE "DoubleTap")]_vars

(* The microphone is wanted only while the button is held, as soon as the  *)
(* edges on their way are handled; a call that has not seen an edge begins *)
(* in the mode that the last one left.                                     *)
TalkIsHeld ==
    call_ctx # "None" /\ heard /\ (\A i \in DOMAIN sip_rx : sip_rx[i] \notin {"Pressed", "Released"})
        => (audio_mode = "Talk" <=> last_button_state)

(* A host answers the call that rings, however the calls before it ended,  *)
(* and while the registration comes and goes; but news without a pause     *)
(* would keep the task in poll_commands.                                   *)
AutoAnswers ==
    []<>(ui_rx = <<>>) =>
    ((build = "host" /\ line = "Ringing" /\ call_ctx = "Ringing")
        ~> ~ (line = "Ringing" /\ call_ctx = "Ringing"))
=============================================================================
