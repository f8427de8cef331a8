----------------------------- MODULE AudioEngine -----------------------------
(***************************************************************************)
(* The half-duplex codec: the audio task runs an engine, to listen or to   *)
(* talk, over an I2S device that has one driver at a time and whose calls  *)
(* may fail.  The SIP task tells it of the call and of the button, through *)
(* a channel, at any point of its loop.                                    *)
(***************************************************************************)
EXTENDS Integers, Sequences

CONSTANTS
    MaxCommands,  \* bound on the commands in the channel
    MaxFaults     \* bound on the failures of the device

ASSUME BoundAssumption == MaxCommands \in Nat \ {0} /\ MaxFaults \in Nat

PhoneState == {"Idle", "Ringing", "Established"}

AudioMode == {"Listen", "Talk"}

EngineKind == {"Off", "Listen", "Talk"}

(* The driver the device holds: none, a speaker made ready, a speaker      *)
(* enabled, a microphone.                                                  *)
Driver == {"None", "Tx", "TxEnabled", "Rx"}

VARIABLES
    line,        \* what the SIP task last told of the call
    pressed,     \* the button, as the SIP task last heard
    button,      \* the mode it last told
    cmds,        \* the channel
    turn,        \* where the audio task is in its loop
    call_state,  \* its state of the call
    mode,        \* its mode
    engine,      \* its engine
    paced,       \* the engine has a deadline for its next frame
    device,      \* the driver
    faults,      \* failures of the device so far
    overrun      \* frames sent since Talk was last over (history)

sip == <<line, pressed, button>>
loop == <<turn, call_state, mode, engine, paced, device, faults>>
vars == <<sip, cmds, loop, overrun>>

Init ==
    /\ line = "Idle" /\ pressed = FALSE /\ button = "Listen"
    /\ cmds = <<"Idle">>
    /\ turn = "top"
    /\ call_state = "Idle" /\ mode = "Listen"
    /\ engine = "Off" /\ paced = FALSE
    /\ device = "None" /\ faults = 0
    /\ overrun = 0

(* update_engine: the engine wanted for a state and a mode. *)
Wanted(state, m) == IF state = "Established" THEN m ELSE "Off"

----------------------------------------------------------------------------
(* The SIP task.  It tells the state of the dialog, which may be the one   *)
(* it told before: of an ACK sent again, of the end of a dialog that had   *)
(* begun without a call context.  The ACK of a 488 establishes such a      *)
(* dialog although it was never told to ring.                              *)

Tell(cmd) ==
    /\ Len(cmds) < MaxCommands
    /\ cmds' = Append(cmds, cmd)
    /\ overrun' = IF Wanted(line', button') = "Talk" THEN 0 ELSE overrun
    /\ UNCHANGED loop

BroadcastPhoneState ==
    /\ line' \in PhoneState
    /\ UNCHANGED <<pressed, button>>
    /\ Tell(line')

(* The button is passed on while there is a call context: always when the  *)
(* phone was told to ring, never while it is idle, and of an established   *)
(* call only if it rang with one.                                          *)
ButtonPassedOn ==
    /\ line # "Idle"
    /\ button' = IF pressed' THEN "Talk" ELSE "Listen"
    /\ Tell(button')

ButtonDropped ==
    /\ line # "Ringing"
    /\ UNCHANGED <<button, cmds, loop, overrun>>

HandleButton ==
    /\ pressed' = ~ pressed
    /\ UNCHANGED line
    /\ ButtonPassedOn \/ ButtonDropped

----------------------------------------------------------------------------
(* The audio task.  A command is a PhoneState or an AudioMode.             *)

(* Mutant: the button counts only once the call is established. *)
HandleCommandInCall(cmd) ==
    IF cmd \in PhoneState THEN call_state' = cmd /\ UNCHANGED mode
    ELSE /\ mode' = IF call_state = "Established" THEN cmd ELSE mode
         /\ UNCHANGED call_state

(* Mutant: a mode is stored as the state of the call. *)
HandleCommandMixedUp(cmd) == call_state' = cmd /\ UNCHANGED mode

HandleCommand(cmd) ==
    IF cmd \in PhoneState THEN call_state' = cmd /\ UNCHANGED mode
    ELSE mode' = cmd /\ UNCHANGED call_state

(* The first command of the channel is taken and handled. *)
TakeCommand ==
    /\ cmds # <<>>
    /\ HandleCommand(Head(cmds))
    /\ cmds' = Tail(cmds)
    /\ UNCHANGED <<sip, engine, paced, device, faults, overrun>>

(* Mutant: poll_commands need not go on until the channel is empty. *)
DrainedAnyway == TRUE

Drained == cmds = <<>>

(* poll_commands, at the top of the loop and after an interrupted wait. *)
PollCommand ==
    /\ turn \in {"top", "drain"}
    /\ TakeCommand
    /\ UNCHANGED turn

(* Mutant: the driver is left in the device. *)
StopEngineKeepingDriver == device

(* stop_engine: the driver it leaves. *)
StopEngine == IF engine = "Off" THEN device ELSE "None"

(* start_engine, over a device with the given driver: the engine and the   *)
(* driver when every call of the device succeeds ...                       *)
Started(want, driver) ==
    CASE want = "Off"    -> [engine |-> "Off", device |-> driver]
      [] want = "Listen" -> [engine |-> "Listen", device |-> "TxEnabled"]
      [] want = "Talk"   -> [engine |-> "Talk", device |-> "Rx"]

(* ... and the driver when one fails, and the engine is off: a driver that *)
(* cannot be made leaves none; a speaker that cannot be enabled stays      *)
(* ready, and is not made again.                                           *)
LeftBy(want, driver) ==
    CASE want = "Off"    -> {}
      [] want = "Listen" -> IF driver = "Tx" THEN {"Tx"} ELSE {"None", "Tx"}
      [] want = "Talk"   -> {"None"}

UpdateEngine(want) ==
    \/ /\ engine = want
       /\ UNCHANGED <<engine, paced, device, faults>>
    \/ /\ engine # want
       /\ engine' = Started(want, StopEngine).engine
       /\ device' = Started(want, StopEngine).device
       /\ paced' = FALSE
       /\ UNCHANGED faults
    \/ /\ engine # want
       /\ faults < MaxFaults
       /\ device' \in LeftBy(want, StopEngine)
       /\ engine' = "Off"
       /\ paced' = FALSE
       /\ faults' = faults + 1

(* poll_commands is over: update_engine. *)
Top ==
    /\ turn = "top" /\ Drained
    /\ turn' = "wait"
    /\ UpdateEngine(Wanted(call_state, mode))
    /\ UNCHANGED <<sip, cmds, call_state, mode, overrun>>

(* An engine that is off waits for one command, and handles it. *)
WaitOff ==
    /\ turn = "wait" /\ engine = "Off"
    /\ turn' = "top"
    /\ \/ TakeCommand
       \/ cmds = <<>> /\ UNCHANGED <<sip, cmds, call_state, mode, engine, paced, device, faults, overrun>>

(* An engine with no deadline yet gets one; no frame is played or taken.   *)
StartPacing ==
    /\ turn = "wait" /\ engine # "Off" /\ ~ paced
    /\ turn' = "top"
    /\ paced' = TRUE
    /\ UNCHANGED <<sip, cmds, call_state, mode, engine, device, faults, overrun>>

(* The deadline comes. *)
DeadlineReached ==
    /\ turn = "wait" /\ engine # "Off" /\ paced
    /\ turn' = "frame"
    /\ UNCHANGED <<sip, cmds, call_state, mode, engine, paced, device, faults, overrun>>

(* A command ends the wait, and all there are by then are handled; the     *)
(* deadline may have passed when they are, and the engine is as before.    *)
CommandInterrupts ==
    /\ turn = "wait" /\ engine # "Off" /\ paced
    /\ turn' = "drain"
    /\ TakeCommand

WaitOver ==
    /\ turn = "drain" /\ Drained
    /\ turn' \in {"top", "frame"}
    /\ UNCHANGED <<sip, cmds, call_state, mode, engine, paced, device, faults, overrun>>

(* A frame is played, or captured and sent; neither failure of the device  *)
(* changes anything (a frame of silence is sent for one not read).         *)
Frame ==
    /\ turn = "frame"
    /\ turn' = "top"
    /\ overrun' = IF engine = "Talk" /\ Wanted(line, button) # "Talk"
                  THEN overrun + 1 ELSE overrun
    /\ UNCHANGED <<sip, cmds, call_state, mode, engine, paced, device, faults>>

----------------------------------------------------------------------------
AudioTurn ==
    \/ PollCommand \/ Top
    \/ WaitOff \/ StartPacing \/ DeadlineReached \/ CommandInterrupts \/ WaitOver
    \/ Frame

Next == BroadcastPhoneState \/ HandleButton \/ AudioTurn

(* The loop of AudioTask::run never blocks for longer than a frame. *)
Fairness == WF_vars(AudioTurn)

Spec == Init /\ [][Next]_vars /\ Fairness

----------------------------------------------------------------------------
(* Properties. *)

TypeOK ==
    /\ line \in PhoneState /\ pressed \in BOOLEAN /\ button \in AudioMode
    /\ cmds \in Seq(PhoneState \cup AudioMode)
    /\ turn \in {"top", "wait", "drain", "frame"}
    /\ call_state \in PhoneState /\ mode \in AudioMode
    /\ engine \in EngineKind /\ paced \in BOOLEAN
    /\ device \in Driver
    /\ faults \in 0 .. MaxFaults
    /\ overrun \in Nat

(* The engine that runs has the driver it needs, enabled, and a driver     *)
(* that is enabled is in use: after any failures and any changes of call   *)
(* and button, the microphone never stays on behind an engine that is off. *)
EngineHasItsDriver ==
    /\ engine = "Listen" <=> device = "TxEnabled"
    /\ engine = "Talk" <=> device = "Rx"

(* Once the SIP task has said that the button was released or the call is  *)
(* over, at most one frame of the microphone is still sent: the one that   *)
(* was being waited for.                                                   *)
MicrophoneStops == overrun <= 1

(* If the SIP task falls silent, the engine becomes and stays the one for  *)
(* what it last told, whatever failed in between.                          *)
EngineFollows ==
    <>[][Len(cmds') <= Len(cmds)]_cmds => <>[](engine = Wanted(line, button))
=============================================================================
