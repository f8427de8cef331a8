---------------------------- MODULE Phone_proofs ----------------------------
(***************************************************************************)
(* Theorems about the UI task and the SIP task, for every length of their  *)
(* channels, any number of failures of the LED and any times of the        *)
(* gestures.                                                               *)
(***************************************************************************)
EXTENDS Phone, Channel

NewsOf(reg) == IF reg THEN "Registered" ELSE "Unregistered"

Edge == {"Pressed", "Released"}

EdgeOf(pressed) == IF pressed THEN "Pressed" ELSE "Released"

(* What is on its way to the UI leads from what it knows to what is so. *)
NewsTells ==
    /\ Tells(ui_rx, PhoneState, phone_state, line)
    /\ Tells(ui_rx, RegistrationNews, NewsOf(registered), last_reg)

(* The edge that a call took notice of last; any, before the first.        *)
LastHandled ==
    IF call_ctx # "None" /\ heard THEN EdgeOf(audio_mode = "Talk") ELSE EdgeOf(last_button_state)

EdgesTell == Tells(sip_rx, Edge, LastHandled, EdgeOf(last_button_state))

ContextOfLine == line = "Idle" <=> call_ctx = "None"

(* What the task takes for shown is of the state it knows. *)
ShownIsKnown ==
    \/ last_led_state = "None"
    \/ last_led_state = ForState(phone_state, registered)
    \/ last_led_state = "Off" /\ Blinks(phone_state, registered)

(* The release kept is that of the last click, if its number was odd. *)
ReleaseIsOdd ==
    /\ odd <=> last_short_release_at # None /\ last_short_release_at <= DoubleTapWindow
    /\ last_short_release_at # None => last_short_release_at = since
    /\ turn = "released" => last_short_release_at <= DoubleTapWindow

IInv == TypeOK /\ NewsTells /\ EdgesTell /\ ContextOfLine /\ ShownIsKnown /\ ReleaseIsOdd

----------------------------------------------------------------------------
LEMMA KindsDiffer == PhoneState \cap RegistrationNews = {}
BY DEF PhoneState, RegistrationNews

LEMMA AppendTyped ==
    ASSUME NEW Message, NEW queue \in Seq(Message), NEW msg \in Message
    PROVE  Append(queue, msg) \in Seq(Message)
OBVIOUS

LEMMA TailTyped ==
    ASSUME NEW Message, NEW queue \in Seq(Message), queue # <<>>
    PROVE  Tail(queue) \in Seq(Message) /\ Head(queue) \in Message
OBVIOUS

(* What was handled does not matter once it is what was told. *)
LEMMA TellsItself ==
    ASSUME NEW queue, NEW kind, NEW known, NEW told, Tells(queue, kind, known, told)
    PROVE  Tells(queue, kind, told, told)
BY DEF Tells

LEMMA InitInvariant == Init => IInv
<1> SUFFICES ASSUME Init PROVE IInv
  OBVIOUS
<1> USE DEF Init, UiInit
<1>1. TypeOK
  <2>1. ui_rx \in Seq(UiCommand) /\ sip_rx \in Seq(ButtonEvent)
    <3>1. "Idle" \in UiCommand
      BY DEF UiCommand, PhoneState
    <3> QED BY <3>1
  <2>2. last_button_state \in BOOLEAN
    BY DEF Readable
  <2>3. /\ press_started_at \in None .. (ShortPressMax + 1)
        /\ last_short_release_at \in None .. (DoubleTapWindow + 1)
        /\ auto_answer_deadline \in None .. AutoAnswerDelay
        /\ faults \in 0 .. MaxFaults /\ since \in 0 .. (DoubleTapWindow + 1)
    BY UiAssumption DEF None
  <2> QED BY <2>1, <2>2, <2>3 DEF TypeOK, UiTypeOK, PhoneState, RegistrationNews, Colour
<1>2. NewsTells
  BY DEF NewsTells, Tells, PhoneState, RegistrationNews, NewsOf
<1>3. EdgesTell
  BY DEF EdgesTell, Tells, LastHandled
<1>4. ContextOfLine /\ ShownIsKnown /\ ReleaseIsOdd
  BY DEF ContextOfLine, ShownIsKnown, ReleaseIsOdd, None
<1> QED BY <1>1, <1>2, <1>3, <1>4 DEF IInv

----------------------------------------------------------------------------
(* The SIP task tells of what changes. *)

LEMMA StateTold ==
    ASSUME IInv, NEW state \in PhoneState, Tell(state), line' = state,
           UNCHANGED <<phone_state, registered, last_reg>>
    PROVE  ui_rx' \in Seq(UiCommand) /\ NewsTells'
<1>0. ui_rx \in Seq(UiCommand) /\ ui_rx' = Append(ui_rx, state)
  BY DEF IInv, TypeOK, UiTypeOK, Tell
<1>1. ui_rx' \in Seq(UiCommand)
  BY <1>0, AppendTyped DEF UiCommand
<1>2. Tells(ui_rx', PhoneState, phone_state', line')
  BY <1>0, AppendOfKind
<1>3. Tells(ui_rx, RegistrationNews, NewsOf(registered), last_reg) /\ state \notin RegistrationNews
  BY KindsDiffer DEF IInv, NewsTells
<1>4. Tells(ui_rx', RegistrationNews, NewsOf(registered), last_reg)
  BY <1>0, <1>3, AppendOther
<1> QED BY <1>1, <1>2, <1>4 DEF NewsTells

LEMMA RegistrationTold ==
    ASSUME IInv, RegistrationChanges
    PROVE  ui_rx' \in Seq(UiCommand) /\ NewsTells' /\ last_reg' \in RegistrationNews
<1>0. /\ ui_rx \in Seq(UiCommand) /\ ui_rx' = Append(ui_rx, last_reg')
      /\ last_reg' \in RegistrationNews /\ UNCHANGED <<phone_state, registered, line>>
  BY DEF IInv, TypeOK, UiTypeOK, Tell, RegistrationChanges, News, ExceptChannels
<1>1. ui_rx' \in Seq(UiCommand)
  BY <1>0, AppendTyped DEF UiCommand
<1>2. Tells(ui_rx', RegistrationNews, NewsOf(registered'), last_reg')
  BY <1>0, AppendOfKind
<1>3. Tells(ui_rx, PhoneState, phone_state, line) /\ last_reg' \notin PhoneState
  BY <1>0, KindsDiffer DEF IInv, NewsTells
<1>4. Tells(ui_rx', PhoneState, phone_state, line)
  BY <1>0, <1>3, AppendOther
<1> QED BY <1>0, <1>1, <1>2, <1>4 DEF NewsTells

(* A step that leaves the UI task and the button's queue alone.            *)
LEMMA NewsKeeps ==
    ASSUME IInv, UNCHANGED <<ExceptChannels, sip_rx>>,
           ui_rx' \in Seq(UiCommand), NewsTells',
           line' \in PhoneState, call_ctx' \in {"None", "Ringing", "Answered"},
           last_reg' \in RegistrationNews, audio_mode' = audio_mode, heard' \in BOOLEAN,
           ContextOfLine',
           call_ctx' # "None" /\ heard' => call_ctx # "None" /\ heard
    PROVE  IInv'
<1> USE DEF ExceptChannels, gesture, display
<1>1. TypeOK'
  BY DEF IInv, TypeOK, UiTypeOK
<1>2. EdgesTell'
  <2>1. EdgesTell /\ UNCHANGED <<sip_rx, last_button_state, audio_mode>>
    BY DEF IInv
  <2>2. LastHandled' = LastHandled \/ LastHandled' = EdgeOf(last_button_state)
    BY <2>1 DEF LastHandled
  <2> QED BY <2>1, <2>2, TellsItself DEF EdgesTell
<1>3. ShownIsKnown' /\ ReleaseIsOdd'
  BY DEF IInv, ShownIsKnown, ReleaseIsOdd
<1> QED BY <1>1, <1>2, <1>3 DEF IInv

LEMMA RingsKeeps == IInv /\ Rings => IInv'
<1> SUFFICES ASSUME IInv, Rings PROVE IInv'
  OBVIOUS
<1>1. Tell("Ringing") /\ line' = "Ringing" /\ "Ringing" \in PhoneState
      /\ UNCHANGED <<phone_state, registered, last_reg>>
  BY DEF Rings, News, ExceptChannels, PhoneState
<1>2. ui_rx' \in Seq(UiCommand) /\ NewsTells'
  BY <1>1, StateTold
<1> QED BY <1>1, <1>2, NewsKeeps DEF Rings, News, IInv, TypeOK, ContextOfLine

LEMMA ConfirmedKeeps == IInv /\ Confirmed => IInv'
<1> SUFFICES ASSUME IInv, Confirmed PROVE IInv'
  OBVIOUS
<1>1. Tell("Established") /\ line' = "Established" /\ "Established" \in PhoneState
      /\ UNCHANGED <<phone_state, registered, last_reg>>
  BY DEF Confirmed, News, ExceptChannels, PhoneState
<1>2. ui_rx' \in Seq(UiCommand) /\ NewsTells'
  BY <1>1, StateTold
<1> QED BY <1>1, <1>2, NewsKeeps DEF Confirmed, News, IInv, TypeOK, ContextOfLine

LEMMA EndCallTells ==
    ASSUME IInv, EndCall, UNCHANGED <<phone_state, registered>>
    PROVE  ui_rx' \in Seq(UiCommand) /\ NewsTells' /\ line' \in PhoneState /\ ContextOfLine'
<1>1. Tell("Idle") /\ line' = "Idle" /\ "Idle" \in PhoneState /\ call_ctx' = "None"
      /\ UNCHANGED last_reg
  BY DEF EndCall, PhoneState
<1> QED BY <1>1, StateTold DEF ContextOfLine

LEMMA EndsKeeps == IInv /\ Ends => IInv'
<1> SUFFICES ASSUME IInv, Ends PROVE IInv'
  OBVIOUS
<1>1. EndCall /\ UNCHANGED <<ExceptChannels, sip_rx>>
  BY DEF Ends, News
<1>2. UNCHANGED <<phone_state, registered>>
  BY <1>1 DEF ExceptChannels
<1> QED BY <1>1, <1>2, EndCallTells, NewsKeeps DEF EndCall, IInv, TypeOK

LEMMA RegistrationKeeps == IInv /\ RegistrationChanges => IInv'
<1> SUFFICES ASSUME IInv, RegistrationChanges PROVE IInv'
  OBVIOUS
<1> QED BY RegistrationTold, NewsKeeps DEF RegistrationChanges, News, IInv, TypeOK, ContextOfLine

----------------------------------------------------------------------------
(* The SIP task takes an event of the button. *)
LEMMA TakeCommandKeeps == IInv /\ TakeCommand => IInv'
<1> SUFFICES ASSUME IInv, TakeCommand PROVE IInv'
  OBVIOUS
<1> DEFINE event == Head(sip_rx)
           told == EdgeOf(last_button_state)
<1>0. /\ sip_rx \in Seq(ButtonEvent) /\ sip_rx # <<>> /\ sip_rx' = Tail(sip_rx)
      /\ HandleButtonEvent(event) /\ UNCHANGED ExceptChannels
      /\ Tells(sip_rx, Edge, LastHandled, told)
  BY DEF IInv, TypeOK, UiTypeOK, TakeCommand, EdgesTell
<1>1. sip_rx' \in Seq(ButtonEvent) /\ event \in ButtonEvent
  BY <1>0, TailTyped
<1>2. event \in Edge => Tells(sip_rx', Edge, event, told)
  BY <1>0, TakeOfKind
<1>3. event \notin Edge => Tells(sip_rx', Edge, LastHandled, told)
  BY <1>0, TakeOther
<1>4. Tells(sip_rx', Edge, told, told)
  BY <1>2, <1>3, TellsItself
<1>5. UNCHANGED <<phone_state, registered, last_button_state>>
  BY <1>0 DEF ExceptChannels, gesture
<1>6. /\ ui_rx' \in Seq(UiCommand) /\ NewsTells' /\ EdgesTell' /\ ContextOfLine'
      /\ line' \in PhoneState /\ call_ctx' \in {"None", "Ringing", "Answered"}
      /\ last_reg' \in RegistrationNews /\ audio_mode' \in {"Listen", "Talk"} /\ heard' \in BOOLEAN
  <2>0. /\ ui_rx \in Seq(UiCommand) /\ NewsTells /\ ContextOfLine
        /\ line \in PhoneState /\ call_ctx \in {"None", "Ringing", "Answered"}
        /\ last_reg \in RegistrationNews /\ audio_mode \in {"Listen", "Talk"} /\ heard \in BOOLEAN
    BY DEF IInv, TypeOK, UiTypeOK
  <2>1. CASE event = "ShortPress" /\ HandleAnswer
    <3>1. UNCHANGED <<ui_rx, line, last_reg>> /\ call_ctx # "None" /\ call_ctx' = "Answered"
      BY <2>0, <2>1 DEF HandleAnswer, ContextOfLine
    <3>2. NewsTells' /\ ContextOfLine'
      BY <1>5, <2>0, <3>1 DEF NewsTells, ContextOfLine
    <3>3. LastHandled' = LastHandled
      BY <1>5, <2>1, <3>1 DEF LastHandled, HandleAnswer
    <3>4. EdgesTell'
      BY <1>3, <1>5, <2>1, <3>3 DEF EdgesTell, Edge
    <3> QED BY <2>0, <2>1, <3>1, <3>2, <3>4 DEF HandleAnswer
  <2>2. CASE event = "DoubleTap" /\ HandleHangup
    <3>1. EndCall
      BY <2>2 DEF HandleHangup
    <3>2. LastHandled' = told
      BY <1>5, <3>1 DEF LastHandled, EndCall
    <3>3. EdgesTell'
      BY <1>4, <1>5, <3>2 DEF EdgesTell
    <3> QED BY <1>5, <2>0, <3>1, <3>3, EndCallTells DEF EndCall
  <2>3. CASE event \in Edge /\ HandleButtonStateChanged(event)
    <3>1. UNCHANGED <<ui_rx, line, call_ctx, last_reg>>
      BY <2>3 DEF HandleButtonStateChanged
    <3>2. NewsTells' /\ ContextOfLine'
      BY <1>5, <2>0, <3>1 DEF NewsTells, ContextOfLine
    <3>3. LastHandled' = event
      BY <2>3 DEF LastHandled, HandleButtonStateChanged, EdgeOf, Edge
    <3>4. EdgesTell'
      BY <1>2, <1>5, <2>3, <3>3 DEF EdgesTell
    <3> QED BY <2>0, <2>3, <3>1, <3>2, <3>4 DEF HandleButtonStateChanged
  <2>4. CASE Ignored(event)
    <3>1. UNCHANGED <<ui_rx, line, call_ctx, last_reg, audio_mode, heard>>
      BY <2>4 DEF Ignored, sipVars
    <3>2. NewsTells' /\ ContextOfLine'
      BY <1>5, <2>0, <3>1 DEF NewsTells, ContextOfLine
    <3>3. LastHandled' = LastHandled /\ (event \in Edge => LastHandled = told)
      BY <1>5, <2>4, <3>1 DEF LastHandled, Ignored, Edge
    <3>4. EdgesTell'
      BY <1>3, <1>4, <1>5, <3>3 DEF EdgesTell
    <3> QED BY <2>0, <3>1, <3>2, <3>4
  <2> QED BY <1>0, <2>1, <2>2, <2>3, <2>4 DEF HandleButtonEvent, Edge
<1>7. TypeOK' /\ ShownIsKnown' /\ ReleaseIsOdd'
  BY <1>0, <1>1, <1>6 DEF IInv, TypeOK, UiTypeOK, ShownIsKnown, ReleaseIsOdd, ExceptChannels, gesture, display
<1> QED BY <1>6, <1>7 DEF IInv

----------------------------------------------------------------------------
(* The UI task's own steps. *)

LEMMA PollCommandKeeps == IInv /\ PollCommand /\ UNCHANGED sipVars => IInv'
<1> SUFFICES ASSUME IInv, PollCommand, UNCHANGED sipVars PROVE IInv'
  OBVIOUS
<1> DEFINE news == Head(ui_rx)
<1>0. /\ ui_rx \in Seq(UiCommand) /\ ui_rx # <<>> /\ ui_rx' = Tail(ui_rx)
      /\ UNCHANGED <<line, call_ctx, last_reg, audio_mode, heard>>
      /\ UNCHANGED <<build, sip_rx, last_button_state, press_started_at, last_short_release_at,
                     odd, since, led, faults, turn>>
      /\ last_led_state' = "None" /\ led_on' = TRUE
  BY DEF IInv, TypeOK, UiTypeOK, PollCommand, sipVars, gesture
<1>1. ui_rx' \in Seq(UiCommand) /\ news \in UiCommand
  BY <1>0, TailTyped
<1>2. /\ NewsTells' /\ phone_state' \in PhoneState /\ registered' \in BOOLEAN
      /\ auto_answer_deadline' \in None .. AutoAnswerDelay
  <2>0. /\ phone_state \in PhoneState /\ registered \in BOOLEAN
        /\ auto_answer_deadline \in None .. AutoAnswerDelay
        /\ Tells(ui_rx, PhoneState, phone_state, line)
        /\ Tells(ui_rx, RegistrationNews, NewsOf(registered), last_reg)
    BY DEF IInv, TypeOK, UiTypeOK, NewsTells
  <2>1. CASE news \in PhoneState
    <3>1. HandleDialogStateChanged(news)
      BY <2>1 DEF PollCommand
    <3>2. auto_answer_deadline' \in {None, AutoAnswerDelay, auto_answer_deadline}
      BY <3>1 DEF HandleDialogStateChanged
    <3>3. auto_answer_deadline' \in None .. AutoAnswerDelay
      BY <2>0, <3>2, UiAssumption DEF None
    <3>4. Tells(ui_rx', PhoneState, news, line)
      BY <1>0, <2>0, <2>1, TakeOfKind
    <3>5. Tells(ui_rx', RegistrationNews, NewsOf(registered), last_reg)
      <4>1. news \notin RegistrationNews
        BY <2>1, KindsDiffer
      <4> QED BY <1>0, <2>0, <4>1, TakeOther
    <3> QED BY <1>0, <2>0, <2>1, <3>1, <3>3, <3>4, <3>5 DEF HandleDialogStateChanged, NewsTells
  <2>2. CASE news \notin PhoneState
    <3>1. news \in RegistrationNews /\ HandleRegistrationStateChanged(news)
      BY <1>1, <2>2 DEF PollCommand, UiCommand
    <3>2. NewsOf(registered') = news /\ registered' \in BOOLEAN
      BY <3>1 DEF HandleRegistrationStateChanged, NewsOf, RegistrationNews
    <3>3. Tells(ui_rx', RegistrationNews, news, last_reg)
      BY <1>0, <2>0, <3>1, TakeOfKind
    <3>4. Tells(ui_rx', PhoneState, phone_state, line)
      BY <1>0, <2>0, <2>2, TakeOther
    <3> QED BY <1>0, <2>0, <3>1, <3>2, <3>3, <3>4 DEF HandleRegistrationStateChanged, NewsTells
  <2> QED BY <2>1, <2>2
<1>3. TypeOK'
  BY <1>0, <1>1, <1>2 DEF IInv, TypeOK, UiTypeOK
<1>4. EdgesTell' /\ ContextOfLine' /\ ReleaseIsOdd'
  BY <1>0 DEF IInv, EdgesTell, LastHandled, ContextOfLine, ReleaseIsOdd
<1>5. ShownIsKnown'
  BY <1>0 DEF ShownIsKnown
<1> QED BY <1>2, <1>3, <1>4, <1>5 DEF IInv

(* What a step that sends no edge does to the queue of the button. *)
LEMMA GestureSent ==
    ASSUME IInv, NEW event \in ButtonEvent \ Edge, Send(event) \/ UNCHANGED sip_rx,
           UNCHANGED <<last_button_state, call_ctx, heard, audio_mode>>
    PROVE  sip_rx' \in Seq(ButtonEvent) /\ EdgesTell'
<1>0. sip_rx \in Seq(ButtonEvent) /\ EdgesTell /\ LastHandled' = LastHandled
  BY DEF IInv, TypeOK, UiTypeOK, LastHandled
<1>1. CASE UNCHANGED sip_rx
  BY <1>0, <1>1 DEF EdgesTell
<1>2. CASE Send(event)
  <2>1. sip_rx' = Append(sip_rx, event)
    BY <1>2 DEF Send
  <2>2. sip_rx' \in Seq(ButtonEvent)
    BY <1>0, <2>1, AppendTyped
  <2>3. Tells(sip_rx', Edge, LastHandled, EdgeOf(last_button_state))
    BY <1>0, <2>1, AppendOther DEF EdgesTell
  <2> QED BY <1>0, <2>2, <2>3 DEF EdgesTell
<1> QED BY <1>1, <1>2

LEMMA PollButtonKeeps ==
    ASSUME IInv, NEW pressed \in Readable, PollButton(pressed), UNCHANGED sipVars
    PROVE  IInv'
<1> DEFINE edge == EdgeOf(pressed)
<1>0. /\ UNCHANGED <<line, call_ctx, last_reg, audio_mode, heard>>
      /\ UNCHANGED <<build, ui_rx, phone_state, registered, auto_answer_deadline,
                     last_led_state, led_on, led, faults, odd, since>>
      /\ last_button_state' = pressed /\ pressed \in BOOLEAN
      /\ last_short_release_at' = Expired(last_short_release_at)
      /\ turn' \in {"released", "rest"}
  BY DEF PollButton, sipVars, display, Readable
<1>1. sip_rx' \in Seq(ButtonEvent) /\ EdgesTell'
  <2>0. sip_rx \in Seq(ButtonEvent) /\ EdgesTell
    BY DEF IInv, TypeOK, UiTypeOK
  <2>1. CASE pressed = last_button_state
    <3>1. UNCHANGED sip_rx /\ LastHandled' = LastHandled
      BY <1>0, <2>1 DEF PollButton, LastHandled
    <3> QED BY <1>0, <2>0, <2>1, <3>1 DEF EdgesTell
  <2>2. CASE pressed # last_button_state
    <3>1. sip_rx' = Append(sip_rx, edge) /\ edge \in Edge /\ edge \in ButtonEvent
      BY <2>2 DEF PollButton, Send, EdgeOf, Edge, ButtonEvent
    <3>2. sip_rx' \in Seq(ButtonEvent)
      BY <2>0, <3>1, AppendTyped
    <3>3. Tells(sip_rx', Edge, LastHandled', edge)
      BY <2>0, <3>1, AppendOfKind
    <3> QED BY <1>0, <3>2, <3>3 DEF EdgesTell
  <2> QED BY <2>1, <2>2
<1>2. last_short_release_at' \in None .. (DoubleTapWindow + 1)
      /\ press_started_at' \in None .. (ShortPressMax + 1)
  BY <1>0, UiAssumption DEF IInv, TypeOK, UiTypeOK, PollButton, Expired, None
<1>3. TypeOK'
  BY <1>0, <1>1, <1>2 DEF IInv, TypeOK, UiTypeOK
<1>4. NewsTells' /\ ContextOfLine' /\ ShownIsKnown'
  BY <1>0 DEF IInv, NewsTells, ContextOfLine, ShownIsKnown
<1>5. ReleaseIsOdd'
  BY <1>0, UiAssumption DEF IInv, TypeOK, UiTypeOK, ReleaseIsOdd, Expired, None
<1> QED BY <1>1, <1>3, <1>4, <1>5 DEF IInv

(* Which gesture a click completes: the property is what the step does in  *)
(* a state of the invariant.                                               *)
LEMMA ReleasePairs ==
    IInv /\ Release => sip_rx' = IF ~ Clicked THEN sip_rx
                       ELSE Append(sip_rx, IF odd' THEN "ShortPress" ELSE "DoubleTap")
<1> SUFFICES ASSUME IInv, Release, Clicked
             PROVE  sip_rx' = Append(sip_rx, IF odd' THEN "ShortPress" ELSE "DoubleTap")
  BY DEF Release
<1>0. SendGesture /\ odd' = (since <= DoubleTapWindow => ~ odd) /\ turn = "released" /\ odd \in BOOLEAN
  BY DEF Release, ClickEnds, IInv, TypeOK, UiTypeOK
<1>1. CASE last_short_release_at # None
  <2>1. odd /\ since <= DoubleTapWindow
    BY <1>0, <1>1 DEF IInv, ReleaseIsOdd
  <2> QED BY <1>0, <1>1, <2>1 DEF SendGesture, Send
<1>2. CASE last_short_release_at = None
  <2>1. ~ odd
    BY <1>2 DEF IInv, ReleaseIsOdd
  <2> QED BY <1>0, <1>2, <2>1 DEF SendGesture, Send
<1> QED BY <1>1, <1>2

LEMMA ReleaseKeeps == IInv /\ Release /\ UNCHANGED sipVars => IInv'
<1> SUFFICES ASSUME IInv, Release, UNCHANGED sipVars PROVE IInv'
  OBVIOUS
<1>0. /\ UNCHANGED <<line, call_ctx, last_reg, audio_mode, heard>>
      /\ UNCHANGED <<build, ui_rx, phone_state, registered, last_button_state, auto_answer_deadline,
                     last_led_state, led_on, led, faults>>
      /\ press_started_at' = None /\ turn' = "rest"
  BY DEF Release, sipVars, display
<1>1. \E event \in ButtonEvent \ Edge : Send(event) \/ UNCHANGED sip_rx
  BY DEF Release, SendGesture, ButtonEvent, Edge
<1>2. sip_rx' \in Seq(ButtonEvent) /\ EdgesTell'
  BY <1>0, <1>1, GestureSent
<1>3. /\ ReleaseIsOdd' /\ odd' \in BOOLEAN /\ since' \in 0 .. (DoubleTapWindow + 1)
      /\ last_short_release_at' \in None .. (DoubleTapWindow + 1)
  <2>0. /\ odd \in BOOLEAN /\ since \in 0 .. (DoubleTapWindow + 1) /\ ReleaseIsOdd
        /\ last_short_release_at \in None .. (DoubleTapWindow + 1)
        /\ turn = "released"
    BY DEF IInv, TypeOK, UiTypeOK, Release
  <2>1. CASE ~ Clicked
    BY <1>0, <2>0, <2>1 DEF Release, ReleaseIsOdd
  <2>2. CASE Clicked /\ last_short_release_at # None
    <3>1. odd /\ since <= DoubleTapWindow
      BY <2>0, <2>2 DEF ReleaseIsOdd
    <3>2. last_short_release_at' = None /\ ~ odd' /\ odd' \in BOOLEAN /\ since' = 0
      BY <2>2, <3>1 DEF Release, SendGesture, ClickEnds
    <3>3. ReleaseIsOdd'
      BY <1>0, <3>2 DEF ReleaseIsOdd
    <3> QED BY <3>2, <3>3, UiAssumption DEF None
  <2>3. CASE Clicked /\ last_short_release_at = None
    <3>1. ~ odd
      BY <2>0, <2>3 DEF ReleaseIsOdd
    <3>2. last_short_release_at' = 0 /\ odd' = TRUE /\ since' = 0
      BY <2>3, <3>1 DEF Release, SendGesture, ClickEnds
    <3> QED BY <1>0, <3>2, UiAssumption DEF ReleaseIsOdd, None
  <2> QED BY <2>1, <2>2, <2>3
<1>4. TypeOK'
  <2>1. press_started_at' \in None .. (ShortPressMax + 1)
    BY <1>0, UiAssumption DEF None
  <2> QED BY <1>0, <1>2, <1>3, <2>1 DEF IInv, TypeOK, UiTypeOK
<1>5. NewsTells' /\ ContextOfLine' /\ ShownIsKnown'
  BY <1>0 DEF IInv, NewsTells, ContextOfLine, ShownIsKnown
<1> QED BY <1>2, <1>3, <1>4, <1>5 DEF IInv

(* The LED is set to what is known, or taken for set to it. *)
LEMMA LedUpdated ==
    ASSUME IInv, UpdateLed, UNCHANGED <<phone_state, registered>>
    PROVE  /\ ShownIsKnown' /\ last_led_state' \in Colour /\ led_on' \in BOOLEAN
           /\ led' \in Colour /\ faults' \in 0 .. MaxFaults
<1>0. /\ phone_state \in PhoneState /\ registered \in BOOLEAN /\ led_on \in BOOLEAN /\ led \in Colour
      /\ faults \in 0 .. MaxFaults /\ MaxFaults \in Nat
  BY UiAssumption DEF IInv, TypeOK, UiTypeOK
<1>1. ForState(phone_state, registered) \in Colour /\ "Off" \in Colour
  BY <1>0 DEF ForState, PhoneState, Colour
<1>2. /\ led_on' \in BOOLEAN
      /\ last_led_state' = IF led_on' THEN ForState(phone_state, registered) ELSE "Off"
      /\ ~ led_on' => Blinks(phone_state, registered)
  BY <1>0, Zenon DEF UpdateLed
<1>3. last_led_state' \in Colour
  BY <1>1, <1>2
<1>4. ShownIsKnown'
  BY <1>2 DEF ShownIsKnown
<1>5. led' \in Colour /\ faults' \in 0 .. MaxFaults
  BY <1>0, <1>3 DEF UpdateLed, SetLedState
<1> QED BY <1>2, <1>3, <1>4, <1>5

LEMMA RestKeeps == IInv /\ Rest /\ UNCHANGED sipVars => IInv'
<1> SUFFICES ASSUME IInv, Rest, UNCHANGED sipVars PROVE IInv'
  OBVIOUS
<1>0. /\ UNCHANGED <<line, call_ctx, last_reg, audio_mode, heard>>
      /\ UNCHANGED <<build, ui_rx, phone_state, registered, last_button_state>>
      /\ turn' = "commands"
  BY DEF Rest, sipVars
<1>1. /\ ShownIsKnown' /\ last_led_state' \in Colour /\ led_on' \in BOOLEAN
      /\ led' \in Colour /\ faults' \in 0 .. MaxFaults
  BY <1>0, LedUpdated DEF Rest
<1>2. sip_rx' \in Seq(ButtonEvent) /\ EdgesTell' /\ auto_answer_deadline' \in None .. AutoAnswerDelay
  <2>1. "ShortPress" \in ButtonEvent \ Edge
    BY DEF ButtonEvent, Edge
  <2>2. PollAutoAnswer /\ auto_answer_deadline \in None .. AutoAnswerDelay
    BY DEF Rest, IInv, TypeOK, UiTypeOK
  <2>3. Send("ShortPress") \/ UNCHANGED sip_rx
    BY <2>2 DEF PollAutoAnswer
  <2>4. auto_answer_deadline' \in None .. AutoAnswerDelay
    BY <2>2, UiAssumption DEF PollAutoAnswer, None
  <2> QED BY <1>0, <2>1, <2>3, <2>4, GestureSent
<1>3. /\ press_started_at' \in None .. (ShortPressMax + 1)
      /\ last_short_release_at' \in None .. (DoubleTapWindow + 1)
      /\ since' \in 0 .. (DoubleTapWindow + 1) /\ odd' \in BOOLEAN
      /\ ReleaseIsOdd'
  <2>0. /\ press_started_at \in None .. (ShortPressMax + 1) /\ ReleaseIsOdd
        /\ last_short_release_at \in None .. (DoubleTapWindow + 1)
        /\ since \in 0 .. (DoubleTapWindow + 1) /\ odd \in BOOLEAN
        /\ ShortPressMax \in Nat /\ DoubleTapWindow \in Nat
    BY UiAssumption DEF IInv, TypeOK, UiTypeOK
  <2>1. /\ press_started_at' = Aged(press_started_at, ShortPressMax)
        /\ last_short_release_at' = Aged(last_short_release_at, DoubleTapWindow)
        /\ since' = Aged(since, DoubleTapWindow)
        /\ odd' = (odd /\ since' <= DoubleTapWindow)
    BY DEF Rest
  <2>2. /\ press_started_at' \in None .. (ShortPressMax + 1)
        /\ last_short_release_at' \in None .. (DoubleTapWindow + 1)
        /\ since' \in 0 .. (DoubleTapWindow + 1)
    BY <2>0, <2>1 DEF Aged, None
  <2>3. odd' \in BOOLEAN
    BY <2>1
  <2>4. ReleaseIsOdd'
    <3>1. CASE last_short_release_at = None
      <4>1. ~ odd /\ last_short_release_at' = None
        BY <2>0, <2>1, <3>1 DEF ReleaseIsOdd, Aged
      <4> QED BY <1>0, <2>1, <4>1 DEF ReleaseIsOdd
    <3>2. CASE last_short_release_at # None
      <4>1. last_short_release_at = since /\ last_short_release_at' = since'
        BY <2>0, <2>1, <3>2 DEF ReleaseIsOdd
      <4>2. odd <=> since <= DoubleTapWindow
        BY <2>0, <3>2, <4>1 DEF ReleaseIsOdd
      <4>3. since' # None /\ (since' <= DoubleTapWindow => since <= DoubleTapWindow)
        BY <2>0, <2>1 DEF Aged, None
      <4>4. odd' <=> since' <= DoubleTapWindow
        BY <2>1, <4>2, <4>3
      <4> QED BY <1>0, <4>1, <4>3, <4>4 DEF ReleaseIsOdd
    <3> QED BY <3>1, <3>2
  <2> QED BY <2>2, <2>3, <2>4
<1>4. TypeOK'
  BY <1>0, <1>1, <1>2, <1>3 DEF IInv, TypeOK, UiTypeOK
<1>5. NewsTells' /\ ContextOfLine'
  BY <1>0 DEF IInv, NewsTells, ContextOfLine
<1> QED BY <1>1, <1>2, <1>3, <1>4, <1>5 DEF IInv

----------------------------------------------------------------------------
LEMMA Inductive == IInv /\ [Next]_vars => IInv'
<1> SUFFICES ASSUME IInv, [Next]_vars PROVE IInv'
  OBVIOUS
<1>1. CASE Rings
  BY <1>1, RingsKeeps
<1>2. CASE Confirmed
  BY <1>2, ConfirmedKeeps
<1>3. CASE Ends
  BY <1>3, EndsKeeps
<1>4. CASE RegistrationChanges
  BY <1>4, RegistrationKeeps
<1>5. CASE TakeCommand
  BY <1>5, TakeCommandKeeps
<1>6. CASE UiNext /\ UNCHANGED sipVars
  BY <1>6, PollCommandKeeps, PollButtonKeeps, ReleaseKeeps, RestKeeps DEF UiNext
<1>7. CASE UNCHANGED vars
  BY <1>7 DEF vars, uiVars, sipVars, gesture, display, IInv, TypeOK, UiTypeOK, NewsTells, EdgesTell,
              LastHandled, ContextOfLine, ShownIsKnown, ReleaseIsOdd
<1> QED BY <1>1, <1>2, <1>3, <1>4, <1>5, <1>6, <1>7 DEF Next

LEMMA Invariant == Spec => []IInv
BY InitInvariant, Inductive, PTL DEF Spec

(* The two tasks and their channels keep their shapes. *)
THEOREM TypeCorrect == Spec => []TypeOK
<1>1. IInv => TypeOK
  BY DEF IInv
<1> QED BY <1>1, Invariant, PTL

(* With nothing on its way to the UI, the LED shows the call that the core *)
(* has and, between calls, the registration, however much was told before. *)
THEOREM LedShows == Spec => []LedShowsTheCall
<1>1. IInv => LedShowsTheCall
  <2> SUFFICES ASSUME IInv, ui_rx = <<>>, led = last_led_state
               PROVE  /\ led = "Yellow" => line = "Ringing"
                      /\ led = "Blue" <=> line = "Established"
                      /\ led = "Green" <=> line = "Idle" /\ last_reg = "Registered"
                      /\ led = "Red" => line = "Idle" /\ last_reg = "Unregistered"
    BY DEF LedShowsTheCall
  <2>1. phone_state = line /\ NewsOf(registered) = last_reg
    BY EmptyTells DEF IInv, NewsTells
  <2>2. /\ line \in PhoneState /\ registered \in BOOLEAN /\ led # "None"
        /\ registered <=> last_reg = "Registered"
        /\ ~ registered <=> last_reg = "Unregistered"
    BY <2>1 DEF IInv, TypeOK, UiTypeOK, Colour, NewsOf
  <2>3. \/ led = ForState(line, registered)
        \/ led = "Off" /\ Blinks(line, registered)
    BY <2>1, <2>2 DEF IInv, ShownIsKnown
  <2> QED BY <2>2, <2>3 DEF ForState, Blinks, PhoneState
<1> QED BY <1>1, Invariant, PTL

(* With no edge of the button on its way to the SIP task, a call that has  *)
(* seen one wants the microphone if and only if the button is held.        *)
THEOREM TalkHeld == Spec => []TalkIsHeld
<1>1. IInv => TalkIsHeld
  <2> SUFFICES ASSUME IInv, call_ctx # "None", heard,
                      \A i \in DOMAIN sip_rx : sip_rx[i] \notin {"Pressed", "Released"}
               PROVE  audio_mode = "Talk" <=> last_button_state
    BY DEF TalkIsHeld
  <2>1. \A i \in 1 .. Len(sip_rx) : sip_rx[i] \notin Edge
    BY DEF IInv, TypeOK, UiTypeOK, Edge
  <2>2. EdgeOf(audio_mode = "Talk") = EdgeOf(last_button_state)
    BY <2>1 DEF IInv, EdgesTell, Tells, LastHandled
  <2> QED BY <2>2 DEF EdgeOf, IInv, TypeOK, UiTypeOK
<1> QED BY <1>1, Invariant, PTL

(* No release counts for two gestures, and no press that was held too long *)
(* for one: for any window and any longest press.                          *)
THEOREM GesturesPaired == Spec => GesturesPairClicks
<1> QED BY ReleasePairs, Invariant, PTL DEF Spec, GesturesPairClicks

----------------------------------------------------------------------------
(* The host that answers by itself. *)
OnItsWay(msg, queue) == \E i \in 1 .. Len(queue) : queue[i] = msg

Quiet(queue, kind) == \A i \in 1 .. Len(queue) : queue[i] \notin kind

(* A ring that the host's UI has heard of is going to be answered: its     *)
(* deadline runs, or the answer is on its way.  So neither the news of     *)
(* other calls that were on their way, nor those of the registration, nor  *)
(* gestures, cancel an auto-answer or spend it on another call.            *)
HostAnswers ==
    build = "host" /\ line = "Ringing" /\ call_ctx = "Ringing" /\ Quiet(ui_rx, PhoneState) =>
        auto_answer_deadline # None \/ OnItsWay("ShortPress", sip_rx)

LEMMA AppendKeeps ==
    ASSUME NEW Message, NEW queue \in Seq(Message), NEW msg
    PROVE  /\ \A m : OnItsWay(m, queue) \/ m = msg => OnItsWay(m, Append(queue, msg))
           /\ \A kind : Quiet(Append(queue, msg), kind) => Quiet(queue, kind) /\ msg \notin kind
<1> DEFINE q == Append(queue, msg)
<1>1. /\ Len(q) = Len(queue) + 1 /\ Len(queue) \in Nat /\ q[Len(q)] = msg
      /\ \A i \in 1 .. Len(queue) : q[i] = queue[i]
  OBVIOUS
<1>2. Len(q) \in 1 .. Len(q) /\ \A i \in 1 .. Len(queue) : i \in 1 .. Len(q)
  BY <1>1
<1> HIDE DEF q
<1>3. \A m : OnItsWay(m, queue) \/ m = msg => OnItsWay(m, q)
  BY <1>1, <1>2 DEF OnItsWay
<1>4. \A kind : Quiet(q, kind) => Quiet(queue, kind) /\ msg \notin kind
  BY <1>1, <1>2 DEF Quiet
<1> QED BY <1>3, <1>4 DEF q

LEMMA TakeKeeps ==
    ASSUME NEW Message, NEW queue \in Seq(Message), queue # <<>>
    PROVE  /\ \A m : OnItsWay(m, queue) /\ Head(queue) # m => OnItsWay(m, Tail(queue))
           /\ \A kind : Quiet(Tail(queue), kind) /\ Head(queue) \notin kind => Quiet(queue, kind)
<1> DEFINE t == Tail(queue)
<1>1. /\ Len(t) = Len(queue) - 1 /\ Len(queue) \in Nat \ {0}
      /\ \A i \in 1 .. Len(t) : t[i] = queue[i + 1]
      /\ Head(queue) = queue[1]
  BY TailIndices
<1> HIDE DEF t
<1>2. \A i \in 1 .. Len(queue) : i = 1 \/ (i - 1 \in 1 .. Len(t) /\ t[i - 1] = queue[i])
  BY <1>1
<1>3. \A m : OnItsWay(m, queue) /\ Head(queue) # m => OnItsWay(m, t)
  BY <1>1, <1>2 DEF OnItsWay
<1>4. \A kind : Quiet(t, kind) /\ Head(queue) \notin kind => Quiet(queue, kind)
  BY <1>1, <1>2 DEF Quiet
<1> QED BY <1>3, <1>4 DEF t

(* News that is taken: the last of the call says that it rings, and arms.  *)
LEMMA PollCommandAnswers ==
    ASSUME IInv, HostAnswers, PollCommand, UNCHANGED sipVars
    PROVE  HostAnswers'
<1> SUFFICES ASSUME build = "host", line = "Ringing", call_ctx = "Ringing",
                    Quiet(Tail(ui_rx), PhoneState)
             PROVE  auto_answer_deadline' # None \/ OnItsWay("ShortPress", sip_rx)
  BY DEF HostAnswers, PollCommand, sipVars
<1>1. ui_rx \in Seq(UiCommand) /\ ui_rx # <<>> /\ auto_answer_deadline \in None .. AutoAnswerDelay
  BY DEF IInv, TypeOK, UiTypeOK, PollCommand
<1>2. CASE Head(ui_rx) \in PhoneState
  <2>1. Tells(Tail(ui_rx), PhoneState, Head(ui_rx), line)
    BY <1>1, <1>2, TakeOfKind DEF IInv, NewsTells
  <2>2. Head(ui_rx) = "Ringing"
    BY <2>1 DEF Tells, Quiet
  <2>3. HandleDialogStateChanged("Ringing")
    BY <1>2, <2>2 DEF PollCommand
  <2>4. auto_answer_deadline' = IF auto_answer_deadline = None THEN AutoAnswerDelay
                                ELSE auto_answer_deadline
    BY <2>3 DEF HandleDialogStateChanged
  <2>5. AutoAnswerDelay # None
    BY UiAssumption DEF None
  <2> QED BY <2>4, <2>5
<1>3. CASE Head(ui_rx) \notin PhoneState
  <2>1. Quiet(ui_rx, PhoneState)
    BY <1>1, <1>3, TakeKeeps
  <2>2. auto_answer_deadline' = auto_answer_deadline
    BY <1>3 DEF PollCommand, HandleRegistrationStateChanged
  <2> QED BY <2>1, <2>2 DEF HostAnswers
<1> QED
  BY <1>2, <1>3

(* A command that is taken: the answer finds the call that rings. *)
LEMMA TakeCommandAnswers ==
    ASSUME IInv, HostAnswers, TakeCommand
    PROVE  HostAnswers'
<1> SUFFICES ASSUME build = "host", line' = "Ringing", call_ctx' = "Ringing",
                    Quiet(ui_rx', PhoneState)
             PROVE  auto_answer_deadline # None \/ OnItsWay("ShortPress", Tail(sip_rx))
  BY DEF HostAnswers, TakeCommand, ExceptChannels
<1>1. sip_rx \in Seq(ButtonEvent) /\ sip_rx # <<>>
  BY DEF IInv, TypeOK, UiTypeOK, TakeCommand
<1>2. /\ line = "Ringing" /\ call_ctx = "Ringing" /\ ui_rx' = ui_rx
      /\ Head(sip_rx) # "ShortPress"
  BY DEF TakeCommand, HandleButtonEvent, HandleAnswer, HandleHangup, EndCall,
         HandleButtonStateChanged, Ignored, sipVars
<1> QED
  BY <1>1, <1>2, TakeKeeps DEF HostAnswers

(* What the UI task sends is on its way after what was. *)
LEMMA SendingAnswers ==
    ASSUME IInv, HostAnswers, UNCHANGED <<build, ui_rx, sipVars>>, NEW event,
           sip_rx' = sip_rx \/ sip_rx' = Append(sip_rx, event),
           \/ auto_answer_deadline' = auto_answer_deadline
           \/ auto_answer_deadline # None /\ auto_answer_deadline' # None
           \/ sip_rx' = Append(sip_rx, event) /\ event = "ShortPress"
    PROVE  HostAnswers'
<1>1. sip_rx \in Seq(ButtonEvent)
  BY DEF IInv, TypeOK, UiTypeOK
<1>2. OnItsWay("ShortPress", sip_rx) => OnItsWay("ShortPress", sip_rx')
  <2>1. CASE sip_rx' = Append(sip_rx, event)
    BY <1>1, <2>1, AppendKeeps
  <2> QED BY <2>1
<1>3. sip_rx' = Append(sip_rx, event) /\ event = "ShortPress" => OnItsWay("ShortPress", sip_rx')
  BY <1>1, AppendKeeps
<1> QED
  BY <1>2, <1>3 DEF HostAnswers, sipVars

LEMMA UiAnswers ==
    ASSUME IInv, HostAnswers, UiNext, UNCHANGED sipVars
    PROVE  HostAnswers'
<1>1. CASE PollCommand
  BY <1>1, PollCommandAnswers
<1>2. ASSUME NEW pressed \in Readable, PollButton(pressed)
      PROVE  HostAnswers'
  <2>1. /\ UNCHANGED <<build, ui_rx, auto_answer_deadline>>
        /\ \E event : sip_rx' = sip_rx \/ sip_rx' = Append(sip_rx, event)
    BY <1>2 DEF PollButton, Send
  <2> QED BY <2>1, SendingAnswers
<1>3. CASE Release
  <2>1. /\ UNCHANGED <<build, ui_rx, auto_answer_deadline>>
        /\ \E event : sip_rx' = sip_rx \/ sip_rx' = Append(sip_rx, event)
    BY <1>3 DEF Release, SendGesture, Send
  <2> QED BY <2>1, SendingAnswers
<1>4. CASE Rest
  <2>1. UNCHANGED <<build, ui_rx>> /\ PollAutoAnswer
    BY <1>4 DEF Rest
  <2>2. auto_answer_deadline \in None .. AutoAnswerDelay
    BY DEF IInv, TypeOK, UiTypeOK
  <2>3. CASE auto_answer_deadline = 0
    <3>1. sip_rx' = Append(sip_rx, "ShortPress")
      BY <2>1, <2>3 DEF PollAutoAnswer, Send
    <3> QED BY <2>1, <3>1, SendingAnswers
  <2>4. CASE auto_answer_deadline # 0
    <3>1. sip_rx' = sip_rx /\ auto_answer_deadline' = IF auto_answer_deadline = None THEN None
                                                      ELSE auto_answer_deadline - 1
      BY <2>1, <2>4 DEF PollAutoAnswer
    <3>2. auto_answer_deadline # None => auto_answer_deadline' # None
      BY <2>2, <2>4, <3>1, UiAssumption DEF None
    <3> QED BY <2>1, <3>1, <3>2, SendingAnswers
  <2> QED BY <2>3, <2>4
<1> QED
  BY <1>1, <1>2, <1>3, <1>4 DEF UiNext

(* A ring that the UI of a host has heard of has its auto-answer armed or  *)
(* on its way, whatever poll_commands reads after it and whatever gestures *)
(* are sent, for channels of any length.  This is what AutoAnswers needs   *)
(* of the steps.                                                           *)
THEOREM HostWillAnswer == Spec => []HostAnswers
<1>1. Init => HostAnswers
  BY DEF Init, HostAnswers
<1>2. ASSUME IInv, HostAnswers, [Next]_vars
      PROVE  HostAnswers'
  <2>1. ui_rx \in Seq(UiCommand)
    BY <1>2 DEF IInv, TypeOK, UiTypeOK
  <2>2. CASE Rings
    <3>1. ui_rx' = Append(ui_rx, "Ringing") /\ "Ringing" \in PhoneState
      BY <2>2 DEF Rings, Tell, PhoneState
    <3>2. ~ Quiet(ui_rx', PhoneState)
      BY <2>1, <3>1, AppendKeeps
    <3> QED BY <3>2 DEF HostAnswers
  <2>3. CASE Confirmed \/ Ends
    BY <2>3 DEF Confirmed, Ends, EndCall, HostAnswers
  <2>4. CASE RegistrationChanges
    <3>1. /\ ui_rx' = Append(ui_rx, last_reg')
          /\ UNCHANGED <<build, line, call_ctx, auto_answer_deadline, sip_rx>>
      BY <2>4 DEF RegistrationChanges, Tell, News, ExceptChannels
    <3>2. Quiet(ui_rx', PhoneState) => Quiet(ui_rx, PhoneState)
      BY <2>1, <3>1, AppendKeeps
    <3> QED BY <1>2, <3>1, <3>2 DEF HostAnswers
  <2>5. CASE TakeCommand
    BY <1>2, <2>5, TakeCommandAnswers
  <2>6. CASE UiNext /\ UNCHANGED sipVars
    BY <1>2, <2>6, UiAnswers
  <2>7. CASE UNCHANGED vars
    BY <1>2, <2>7 DEF HostAnswers, vars, uiVars, sipVars
  <2> QED BY <1>2, <2>2, <2>3, <2>4, <2>5, <2>6, <2>7 DEF Next
<1> QED
  BY <1>1, <1>2, Invariant, PTL DEF Spec
=============================================================================
