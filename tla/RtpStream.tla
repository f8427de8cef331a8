------------------------------ MODULE RtpStream ------------------------------
(***************************************************************************)
(* The media of a call: the SIP task commands the RTP and the audio task   *)
(* through their channels, the RTP task forwards the packets it accepts,   *)
(* and the audio task buffers and plays them.  The three tasks run in      *)
(* turns of their own; a packet of any address may come at any time.       *)
(***************************************************************************)
EXTENDS JitterBuffer

CONSTANTS
    Caller,       \* who may call, each with one media address
    NoCaller,
    MaxCommands,  \* bound on the commands in a channel
    MaxMedia      \* bound on the packets the RTP task has forwarded

ASSUME CallerAssumption == NoCaller \notin Caller

ASSUME QueueAssumption == MaxCommands \in Nat \ {0} /\ MaxMedia \in Nat \ {0}

PhoneState == {"Idle", "Ringing", "Established"}

Packet == [from : Caller, seq : 0 .. SeqModulus - 1]

Start(caller) == [cmd |-> "StartStream", remote |-> caller]

(* A StartStream whose address does not parse; one too long to be sent has *)
(* the same effect, none.                                                  *)
Unparsable == Start(NoCaller)

Stop == [cmd |-> "StopStream", remote |-> NoCaller]

VARIABLES
    line,        \* the SIP task's call: its state and its caller
    overlap,     \* the call rang before the media of the last one had stopped (history)
    audio_cmds,  \* channel of SetDialogState
    rtp_cmds,    \* channel of StartStream and StopStream
    media_in,    \* channel of accepted packets
    rtp,         \* the RTP task: active, signaled_peer, observed_peer
    turn,        \* where the audio task is in its loop
    call_state,  \* the audio task's state of the call
    listening,   \* the audio task's engine is Listen
    jitter,      \* the audio task's jitter buffer
    tuned        \* whose frame the buffer's next_seq was taken from (history)

sip == <<line, overlap, audio_cmds, rtp_cmds>>
audio == <<turn, call_state, listening, jitter, tuned>>
vars == <<sip, media_in, rtp, audio>>

NoLine == [state |-> "Idle", caller |-> NoCaller]

Stopped == [active |-> FALSE, signaled |-> NoCaller, observed |-> NoCaller]

Init ==
    /\ line = NoLine
    /\ overlap = FALSE
    /\ audio_cmds = <<"Idle">>
    /\ rtp_cmds = <<>> /\ media_in = <<>>
    /\ rtp = Stopped
    /\ turn = "commands"
    /\ call_state = "Idle" /\ listening = FALSE
    /\ jitter = EmptyBuffer /\ tuned = NoCaller

----------------------------------------------------------------------------
(* The SIP task.  A call is established, or modified by a re-INVITE, with  *)
(* media or on hold (port 0).  A dialog that begins with an INVITE it      *)
(* refuses has no call context, and no caller here: it does not ring and   *)
(* is given no stream, but the ACK of its 488 establishes it, and its end  *)
(* is told like any other.                                                 *)

Tell(state) ==
    /\ Len(audio_cmds) < MaxCommands
    /\ audio_cmds' = Append(audio_cmds, state)

Command(cmd) ==
    /\ Len(rtp_cmds) < MaxCommands
    /\ rtp_cmds' = Append(rtp_cmds, cmd)

Rings(caller) ==
    /\ line.state = "Idle"
    /\ line' = [state |-> "Ringing", caller |-> caller]
    /\ overlap' = (rtp_cmds # <<>> \/ media_in # <<>>)
    /\ Tell("Ringing")
    /\ UNCHANGED <<rtp_cmds, media_in, rtp, audio>>

StartOrHold == \E cmd \in {Start(line.caller), Unparsable, Stop} : Command(cmd)

(* An ACK sent again in the call does the same again. *)
Establishes ==
    /\ line.caller # NoCaller
    /\ line' = [line EXCEPT !.state = "Established"]
    /\ Tell("Established")
    /\ StartOrHold
    /\ UNCHANGED <<overlap, media_in, rtp, audio>>

EstablishesWithoutContext ==
    /\ line.caller = NoCaller
    /\ line' = [line EXCEPT !.state = "Established"]
    /\ Tell("Established")
    /\ UNCHANGED <<overlap, rtp_cmds, media_in, rtp, audio>>

Renegotiates ==
    /\ line.caller # NoCaller
    /\ StartOrHold
    /\ UNCHANGED <<line, overlap, audio_cmds, media_in, rtp, audio>>

Ends ==
    /\ line' = NoLine
    /\ Tell("Idle")
    /\ Command(Stop)
    /\ UNCHANGED <<overlap, media_in, rtp, audio>>

----------------------------------------------------------------------------
(* The RTP task.  It drains its commands, then the socket, which it reads  *)
(* only while active.  A packet that is dropped for its payload type or    *)
(* its SSRC is a packet that did not come.                                 *)

HandleRtpCommand(cmd) ==
    IF cmd.cmd = "StartStream"
    THEN [active |-> TRUE, signaled |-> cmd.remote, observed |-> NoCaller]
    ELSE Stopped

Ignored(cmds) == \A i \in DOMAIN cmds : cmds[i] = Unparsable

Decides(i, cmds) ==
    /\ cmds[i] # Unparsable
    /\ \A j \in DOMAIN cmds : j > i => cmds[j] = Unparsable

(* A command that is not ignored sets all of the task's state: the last of *)
(* them decides.                                                           *)
RtpPollCommands ==
    /\ rtp_cmds # <<>>
    /\ \/ Ignored(rtp_cmds) /\ UNCHANGED rtp
       \/ \E i \in DOMAIN rtp_cmds :
              Decides(i, rtp_cmds) /\ rtp' = HandleRtpCommand(rtp_cmds[i])
    /\ rtp_cmds' = <<>>
    /\ UNCHANGED <<line, overlap, audio_cmds, media_in, audio>>

(* Mutant: the address of the sender is not compared. *)
AcceptsAnyone(p) == rtp.active

Accepts(p) == rtp.active /\ p.from = rtp.signaled

RtpReceive(p) ==
    /\ Accepts(p)
    /\ Len(media_in) < MaxMedia
    /\ rtp' = [rtp EXCEPT !.observed = p.from]
    /\ media_in' = Append(media_in, p)
    /\ UNCHANGED <<sip, audio>>

(* Where send_one sends: the observed peer outranks the signaled one. *)
Destination == IF rtp.observed # NoCaller THEN rtp.observed ELSE rtp.signaled

----------------------------------------------------------------------------
(* The audio task.  Any command but Established resets the jitter buffer.  *)

ResetBuffer == jitter' = EmptyBuffer /\ tuned' = NoCaller

(* Mutant: only the end of a call resets it. *)
HandleCommandOnlyAtEnd(state) ==
    /\ call_state' = state
    /\ IF state = "Idle" THEN ResetBuffer ELSE UNCHANGED <<jitter, tuned>>

HandleCommand(state) ==
    /\ call_state' = state
    /\ IF state = "Established" THEN UNCHANGED <<jitter, tuned>> ELSE ResetBuffer

(* The loop polls the commands until there is none, ... *)
AudioPollCommand ==
    /\ turn \in {"commands", "drain"}
    /\ audio_cmds # <<>>
    /\ HandleCommand(Head(audio_cmds))
    /\ audio_cmds' = Tail(audio_cmds)
    /\ UNCHANGED <<line, overlap, rtp_cmds, media_in, rtp, turn, listening>>

AudioCommandsDone ==
    /\ turn = "commands" /\ audio_cmds = <<>>
    /\ turn' = "media"
    /\ UNCHANGED <<sip, media_in, rtp, call_state, listening, jitter, tuned>>

(* ... then the media, in any state of the call, ... *)
AudioPollMedia ==
    /\ turn = "media" /\ media_in # <<>>
    /\ jitter' = Push(jitter, Head(media_in))
    /\ media_in' = Tail(media_in)
    /\ UNCHANGED <<sip, rtp, turn, call_state, listening, tuned>>

(* ... and updates the engine: it listens in a call, unless the button is  *)
(* held or the speaker fails.                                              *)
AudioMediaDone ==
    /\ turn = "media" /\ media_in = <<>>
    /\ turn' = "playout"
    /\ listening' \in (IF call_state = "Established" THEN BOOLEAN ELSE {FALSE})
    /\ UNCHANGED <<sip, media_in, rtp, call_state, jitter, tuned>>

(* Commands interrupt the wait for the deadline, which may have passed     *)
(* once they are handled.                                                  *)
AudioInterrupted ==
    /\ turn = "playout" /\ audio_cmds # <<>>
    /\ turn' = "drain"
    /\ UNCHANGED <<sip, media_in, rtp, call_state, listening, jitter, tuned>>

AudioDrained ==
    /\ turn = "drain" /\ audio_cmds = <<>>
    /\ turn' = "playout"
    /\ UNCHANGED <<sip, media_in, rtp, call_state, listening, jitter, tuned>>

AudioSkips ==
    /\ turn = "playout"
    /\ turn' = "commands"
    /\ UNCHANGED <<sip, media_in, rtp, call_state, listening, jitter, tuned>>

AudioPlays ==
    /\ turn = "playout"
    /\ listening
    /\ turn' = "commands"
    /\ jitter' = Pop(jitter)
    /\ tuned' = IF Played(jitter) = None THEN tuned
                ELSE jitter.frames[Position(jitter.frames, Played(jitter))].from
    /\ UNCHANGED <<sip, media_in, rtp, call_state, listening>>

----------------------------------------------------------------------------
Next ==
    \/ \E caller \in Caller : Rings(caller)
    \/ Establishes
    \/ EstablishesWithoutContext
    \/ Renegotiates
    \/ Ends
    \/ RtpPollCommands
    \/ \E p \in Packet : RtpReceive(p)
    \/ AudioPollCommand
    \/ AudioCommandsDone
    \/ AudioPollMedia
    \/ AudioMediaDone
    \/ AudioInterrupted
    \/ AudioDrained
    \/ AudioSkips
    \/ AudioPlays

Spec == Init /\ [][Next]_vars

----------------------------------------------------------------------------
(* Properties. *)

TypeOK ==
    /\ line \in [state : PhoneState, caller : Caller \cup {NoCaller}]
    /\ overlap \in BOOLEAN /\ listening \in BOOLEAN
    /\ audio_cmds \in Seq(PhoneState)
    /\ rtp_cmds \in Seq([cmd : {"StartStream", "StopStream"}, remote : Caller \cup {NoCaller}])
    /\ media_in \in Seq(Packet)
    /\ rtp \in [active : BOOLEAN, signaled : Caller \cup {NoCaller},
                observed : Caller \cup {NoCaller}]
    /\ turn \in {"commands", "media", "playout", "drain"}
    /\ call_state \in PhoneState
    /\ jitter.next_seq \in 0 .. SeqModulus - 1 \cup {None}
    /\ jitter.frames \in Seq(Packet) /\ Len(jitter.frames) <= Capacity
    /\ tuned \in Caller \cup {NoCaller}

(* Once the RTP task has handled its commands, what the microphone hears   *)
(* goes to the caller the phone is in a call with, whatever packets of     *)
(* others reached the socket and however often the stream was restarted;   *)
(* to nobody, in a call without a context.                                 *)
SendsToTheCaller ==
    rtp_cmds = <<>> /\ rtp.active => line.caller # NoCaller /\ Destination = line.caller

(* In a call, once the audio task has heard of it, the jitter buffer holds *)
(* and follows frames of its caller only: none of the last call, packets   *)
(* of which the RTP task may have forwarded after that call was over.      *)
(* The exceptions the code leaves are a call that rings before the RTP     *)
(* task has handled StopStream and the audio task the packets before it,   *)
(* and a call without a context: nothing reset the buffer when it began.   *)
JitterBelongsToCall ==
    line.state = "Established" /\ line.caller # NoCaller /\ audio_cmds = <<>> /\ ~ overlap =>
        /\ \A f \in ToSet(jitter.frames) : f.from = line.caller
        /\ tuned \in {NoCaller, line.caller}
=============================================================================
