--------------------------------- MODULE Ui ---------------------------------
(***************************************************************************)
(* The UI task: it hears of the call and of the registration through a     *)
(* channel, shows them with the colour of the LED and turns the edges of   *)
(* the button into gestures.  The build for a host has no button and       *)
(* answers by itself; its LED is simulated.  A turn of the loop, every     *)
(* 40 ms, is the unit of time.                                             *)
(***************************************************************************)
EXTENDS Integers, Sequences

CONSTANTS
    ShortPressMax,    \* SHORT_PRESS_MAX: a longer press is no gesture
    DoubleTapWindow,  \* DOUBLE_TAP_WINDOW, between two releases
    AutoAnswerDelay,  \* how long a host rings before it answers
    Build,            \* the builds looked at, of "device" and "host"
    MaxCommands,      \* bound on the messages in a channel
    MaxFaults         \* bound on the failures of the LED

ASSUME UiAssumption ==
    /\ ShortPressMax \in Nat /\ DoubleTapWindow \in Nat
    /\ DoubleTapWindow < ShortPressMax
    /\ AutoAnswerDelay \in Nat /\ Build \subseteq {"device", "host"}
    /\ MaxCommands \in Nat \ {0} /\ MaxFaults \in Nat

None == -1

PhoneState == {"Idle", "Ringing", "Established"}

RegistrationNews == {"Registered", "Unregistered"}

UiCommand == PhoneState \cup RegistrationNews

ButtonEvent == {"Pressed", "Released", "ShortPress", "DoubleTap"}

Colour == {"Off", "Yellow", "Blue", "Green", "Red"}

VARIABLES
    build,
    ui_rx, sip_rx,          \* the channels to this task and to the SIP task
    phone_state, registered,
    last_button_state,      \* TRUE when pressed
    press_started_at,       \* turns since, or None
    last_short_release_at,  \* turns since, or None
    auto_answer_deadline,   \* turns left, or None
    last_led_state,         \* the colour last set, or "None"
    led_on,
    turn,                   \* where the task is in its loop
    led,                    \* the colour the LED has
    faults,                 \* failures of the LED so far
    odd, since              \* history: whether the clicks of which each came
                            \* within the window of the one before are odd in
                            \* number, and the turns since the last

gesture == <<last_button_state, press_started_at, last_short_release_at, odd, since>>
display == <<last_led_state, led_on, led, faults>>
uiVars == <<build, ui_rx, sip_rx, phone_state, registered, gesture, auto_answer_deadline,
            display, turn>>

(* read_button_state: what it may find. *)
Readable == IF build = "host" THEN {FALSE} ELSE BOOLEAN

UiInit ==
    /\ build \in Build
    /\ ui_rx = <<"Idle">> /\ sip_rx = <<>>
    /\ phone_state = "Idle" /\ registered = FALSE
    /\ last_button_state \in Readable
    /\ press_started_at = None /\ last_short_release_at = None
    /\ auto_answer_deadline = None
    /\ last_led_state = "None" /\ led_on = TRUE
    /\ turn = "commands"
    /\ led = "Off" /\ faults = 0
    /\ odd = FALSE /\ since = DoubleTapWindow + 1

Send(event) ==
    /\ Len(sip_rx) < MaxCommands
    /\ sip_rx' = Append(sip_rx, event)

----------------------------------------------------------------------------
(* poll_commands *)

(* Ringing arms the host's auto-answer, every other state cancels it. *)
HandleDialogStateChanged(state) ==
    /\ phone_state' = state
    /\ auto_answer_deadline' =
         IF state # "Ringing" \/ build = "device" THEN None
         ELSE IF auto_answer_deadline = None THEN AutoAnswerDelay
         ELSE auto_answer_deadline
    /\ UNCHANGED registered

(* Mutant: every news cancels the auto-answer, that of a REGISTER too. *)
HandleRegistrationCancelling(news) ==
    /\ registered' = (news = "Registered")
    /\ auto_answer_deadline' = None
    /\ UNCHANGED phone_state

HandleRegistrationStateChanged(news) ==
    /\ registered' = (news = "Registered")
    /\ UNCHANGED <<phone_state, auto_answer_deadline>>

(* The LED is set again on the next update, whatever it shows.             *)
PollCommand ==
    /\ turn = "commands"
    /\ ui_rx # <<>>
    /\ ui_rx' = Tail(ui_rx)
    /\ IF Head(ui_rx) \in PhoneState
       THEN HandleDialogStateChanged(Head(ui_rx))
       ELSE HandleRegistrationStateChanged(Head(ui_rx))
    /\ last_led_state' = "None" /\ led_on' = TRUE
    /\ UNCHANGED <<build, sip_rx, gesture, led, faults, turn>>

----------------------------------------------------------------------------
(* poll_button, once the channel is empty *)

Expired(at) == IF at > DoubleTapWindow THEN None ELSE at

(* The edge is passed on at once, the gesture a release completes after it.*)
PollButton(pressed) ==
    /\ turn = "commands"
    /\ ui_rx = <<>>
    /\ IF pressed # last_button_state
       THEN Send(IF pressed THEN "Pressed" ELSE "Released")
       ELSE UNCHANGED sip_rx
    /\ last_short_release_at' = Expired(last_short_release_at)
    /\ press_started_at' = IF pressed /\ ~ last_button_state THEN 0 ELSE press_started_at
    /\ last_button_state' = pressed
    /\ turn' = IF last_button_state /\ ~ pressed THEN "released" ELSE "rest"
    /\ UNCHANGED <<build, ui_rx, phone_state, registered, auto_answer_deadline, display, odd, since>>

(* A click is a press that was seen to begin and did not last too long. *)
Clicked == press_started_at \in 0 .. ShortPressMax

ClickEnds ==
    /\ odd' = (since <= DoubleTapWindow => ~ odd)
    /\ since' = 0

(* Mutant of SendGesture: the release of a double tap opens a window too. *)
SendGestureKeepingRelease ==
    IF last_short_release_at # None
    THEN last_short_release_at' = 0 /\ Send("DoubleTap")
    ELSE last_short_release_at' = 0 /\ Send("ShortPress")

SendGesture ==
    IF last_short_release_at # None
    THEN last_short_release_at' = None /\ Send("DoubleTap")
    ELSE last_short_release_at' = 0 /\ Send("ShortPress")

Release ==
    /\ turn = "released"
    /\ IF Clicked
       THEN SendGesture /\ ClickEnds
       ELSE UNCHANGED <<sip_rx, last_short_release_at, odd, since>>
    /\ press_started_at' = None
    /\ turn' = "rest"
    /\ UNCHANGED <<build, ui_rx, phone_state, registered, last_button_state,
                   auto_answer_deadline, display>>

----------------------------------------------------------------------------
(* poll_auto_answer, update_led and the sleep until the next turn *)

(* Mutant: a deadline that is not set runs too. *)
PollAutoAnswerUnset ==
    IF auto_answer_deadline = 0
    THEN auto_answer_deadline' = None /\ Send("ShortPress")
    ELSE auto_answer_deadline' = auto_answer_deadline - 1 /\ UNCHANGED sip_rx

PollAutoAnswer ==
    IF auto_answer_deadline = 0
    THEN auto_answer_deadline' = None /\ Send("ShortPress")
    ELSE /\ auto_answer_deadline' = IF auto_answer_deadline = None THEN None
                                    ELSE auto_answer_deadline - 1
         /\ UNCHANGED sip_rx

(* Mutant: the registration comes before the call. *)
ForStateRegisteredFirst(state, reg) ==
    CASE reg -> "Green"
      [] ~ reg /\ state = "Ringing" -> "Yellow"
      [] ~ reg /\ state = "Established" -> "Blue"
      [] ~ reg /\ state = "Idle" -> "Red"

(* LedPattern: the colour, and whether it blinks. *)
ForState(state, reg) ==
    CASE state = "Ringing" -> "Yellow"
      [] state = "Established" -> "Blue"
      [] state = "Idle" -> IF reg THEN "Green" ELSE "Red"

Blinks(state, reg) == state = "Ringing" \/ (state = "Idle" /\ ~ reg)

(* set_led_state: it may fail on a device. *)
SetLedState(target) ==
    \/ led' = target /\ UNCHANGED faults
    \/ /\ build = "device" /\ faults < MaxFaults
       /\ faults' = faults + 1 /\ UNCHANGED led

(* A pattern that blinks may be due to, once it was shown at all.  A       *)
(* failure to set the LED is ignored, and its colour taken for shown.      *)
UpdateLed ==
    /\ led_on' \in IF Blinks(phone_state, registered) /\ last_led_state # "None"
                   THEN {led_on, ~ led_on} ELSE {TRUE}
    /\ last_led_state' = IF led_on' THEN ForState(phone_state, registered) ELSE "Off"
    /\ IF last_led_state' = last_led_state
       THEN UNCHANGED <<led, faults>>
       ELSE SetLedState(last_led_state')

Aged(at, limit) == IF at = None \/ at > limit THEN at ELSE at + 1

Rest ==
    /\ turn = "rest"
    /\ PollAutoAnswer
    /\ UpdateLed
    /\ press_started_at' = Aged(press_started_at, ShortPressMax)
    /\ last_short_release_at' = Aged(last_short_release_at, DoubleTapWindow)
    /\ since' = Aged(since, DoubleTapWindow)
    /\ odd' = (odd /\ since' <= DoubleTapWindow)
    /\ turn' = "commands"
    /\ UNCHANGED <<build, ui_rx, phone_state, registered, last_button_state>>

UiNext ==
    \/ PollCommand
    \/ \E pressed \in Readable : PollButton(pressed)
    \/ Release
    \/ Rest

UiTypeOK ==
    /\ build \in Build
    /\ ui_rx \in Seq(UiCommand) /\ sip_rx \in Seq(ButtonEvent)
    /\ phone_state \in PhoneState /\ registered \in BOOLEAN
    /\ last_button_state \in BOOLEAN
    /\ press_started_at \in None .. (ShortPressMax + 1)
    /\ last_short_release_at \in None .. (DoubleTapWindow + 1)
    /\ auto_answer_deadline \in None .. AutoAnswerDelay
    /\ last_led_state \in Colour \cup {"None"} /\ led \in Colour
    /\ led_on \in BOOLEAN /\ faults \in 0 .. MaxFaults
    /\ turn \in {"commands", "released", "rest"}
    /\ odd \in BOOLEAN /\ since \in 0 .. (DoubleTapWindow + 1)
=============================================================================
