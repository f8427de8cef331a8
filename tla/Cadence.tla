------------------------------- MODULE Cadence -------------------------------
(***************************************************************************)
(* The voice on its way out.  While the button is held the audio task      *)
(* captures one frame per period into an unbounded channel; while a stream *)
(* is active the RTP task sends one packet per period, a frame or silence. *)
(* Each of the two paces itself by a deadline of its own, and meets it     *)
(* late: nobody makes sure that they keep step.                            *)
(*                                                                         *)
(* Deadlines are kept as the time that is left until they come.            *)
(***************************************************************************)
EXTENDS Integers

CONSTANTS
    Period,      \* tick of the RTP task, FRAME_DURATION of the audio task
    ActiveTurn,  \* how long a turn of the RTP task sleeps in a stream
    IdleTurn,    \* ... and without one
    Overrun,     \* how much longer a turn may take
    Lateness,    \* how long after its deadline a frame may be captured: a
                 \* microphone whose every read times out is left out
    MaxQueue     \* bound: the backlog up to which frames are captured without
                 \* a stream, the RTP task is stalled and streams begin

ASSUME PeriodAssumption ==
    /\ Period \in Nat \ {0} /\ ActiveTurn \in Nat \ {0} /\ IdleTurn \in Nat \ {0}
    /\ Overrun \in Nat /\ Lateness \in Nat /\ MaxQueue \in Nat

VARIABLES
    active,     \* the RTP task has a stream
    sleep,      \* time until its next turn
    next_tick,  \* time until its next packet is due
    talking,    \* the audio task's engine is Talk
    deadline,   \* time until its next frame
    queue,      \* frames in media_out
    floor,      \* the least backlog of the stream so far, but for what
                \* stalls added to it (history)
    silent      \* the last packet was silence

rtp == <<active, sleep, next_tick>>
audio == <<talking, deadline>>
cadenceVars == <<rtp, audio, queue, floor, silent>>

CadenceInit ==
    /\ active = FALSE /\ sleep = 0 /\ next_tick = 0
    /\ talking = FALSE /\ deadline = 0
    /\ queue = 0 /\ floor = 0 /\ silent = FALSE

Lesser(a, b) == IF a < b THEN a ELSE b

Elapse ==
    /\ sleep > 0
    /\ talking => deadline > -Lateness
    /\ sleep' = sleep - 1
    /\ next_tick' = next_tick - 1
    /\ deadline' = IF talking THEN deadline - 1 ELSE deadline
    /\ UNCHANGED <<active, talking, queue, floor, silent>>

----------------------------------------------------------------------------
(* The RTP task: a turn of its loop. *)

(* The ticks that are due, of which all but one are skipped. *)
TicksDue(tick) == IF tick > 0 THEN 0 ELSE (-tick) \div Period + 1

(* Mutant: the next packet is a period after this one. *)
NextTickFromNow(tick) == IF tick > 0 THEN tick ELSE Period

NextTick(tick) == tick + TicksDue(tick) * Period

(* Mutant: the channel is not found empty. *)
TakeOne == queue - 1

Take == IF queue = 0 THEN 0 ELSE queue - 1

(* send_one *)
SendOne(skipped) ==
    /\ queue' = Take
    /\ silent' = (queue = 0)
    /\ floor' = Lesser(floor + skipped, queue')

(* A stall is a turn in which a tick may be skipped. *)
Sleeps(time) ==
    /\ sleep' \in time .. time + Overrun
    /\ sleep' > Period => queue' < MaxQueue

StreamTurn(tick) ==
    /\ active' = TRUE
    /\ next_tick' = NextTick(tick)
    /\ Sleeps(ActiveTurn)

RtpTurn ==
    /\ sleep = 0 /\ active
    /\ IF TicksDue(next_tick) > 0 THEN SendOne(TicksDue(next_tick) - 1)
       ELSE UNCHANGED <<queue, floor, silent>>
    /\ StreamTurn(next_tick)
    /\ UNCHANGED audio

(* StartStream, for a new stream or one that is restarted. *)
StartStream ==
    /\ sleep = 0 /\ queue < MaxQueue
    /\ floor' = queue
    /\ UNCHANGED <<audio, queue, silent>>
    /\ StreamTurn(Period)

(* No stream, or StopStream: the next packet is due a period after the     *)
(* sleep, for which it is set anew.                                        *)
IdlesOrStops ==
    /\ sleep = 0
    /\ active' = FALSE
    /\ sleep' \in IdleTurn .. IdleTurn + Overrun
    /\ next_tick' = sleep' + Period
    /\ UNCHANGED <<audio, queue, floor, silent>>

----------------------------------------------------------------------------
(* The audio task. *)

(* Mutant: the next frame is a period after this one. *)
DeadlineFromNow(d) == Period

NextDeadline(d) == d + Period

(* maybe_capture_one_frame *)
Capture ==
    /\ talking /\ deadline <= 0
    /\ active \/ queue < MaxQueue
    /\ queue' = queue + 1
    /\ deadline' = NextDeadline(deadline)
    /\ UNCHANGED <<rtp, talking, floor, silent>>

(* The engine starts; the first frame is a period away. *)
Talk ==
    /\ ~ talking
    /\ talking' = TRUE
    /\ deadline' = Period
    /\ UNCHANGED <<rtp, queue, floor, silent>>

Listen ==
    /\ talking
    /\ talking' = FALSE
    /\ deadline' = 0
    /\ UNCHANGED <<rtp, queue, floor, silent>>

----------------------------------------------------------------------------
CadenceNext ==
    \/ Elapse
    \/ RtpTurn \/ StartStream \/ IdlesOrStops
    \/ Capture \/ Talk \/ Listen

(* Time passes, and both loops go on. *)
CadenceFairness == WF_cadenceVars(Elapse) /\ WF_cadenceVars(RtpTurn) /\ WF_cadenceVars(Capture)

CadenceSpec == CadenceInit /\ [][CadenceNext]_cadenceVars /\ CadenceFairness

----------------------------------------------------------------------------
(* Properties. *)

CadenceTypeOK ==
    /\ active \in BOOLEAN /\ talking \in BOOLEAN /\ silent \in BOOLEAN
    /\ sleep \in 0 .. IdleTurn + ActiveTurn + Overrun
    /\ next_tick \in -(ActiveTurn + Overrun) .. IdleTurn + Overrun + Period
    /\ deadline \in -Lateness .. Period
    /\ queue \in Nat /\ floor \in Nat

(* How far two clocks of one period come apart, each late by that much. *)
Slack == 1 + (ActiveTurn + Overrun + Lateness + Period - 1) \div Period

(* The backlog of a stream grows by what was captured before it and by the *)
(* ticks that a stall skipped, and by nothing else: the two deadlines do   *)
(* not drift apart, however late they are met, for as long as one talks.   *)
BacklogIsBounded == active => queue <= floor + Slack

(* While one talks on, silence is sent for a missing frame a few times at  *)
(* most: a backlog remains that makes up for any lateness up to the bound. *)
VoiceIsSteady == <>[](talking /\ active) => <>[](~ silent)
=============================================================================
