------------------------------- MODULE Capture -------------------------------
(***************************************************************************)
(* The microphone's way through the audio task: a frame is captured, the   *)
(* gain follows its loudness, and each sample is amplified and limited.    *)
(* The gain outlives the frame, the press of the button and the call.      *)
(***************************************************************************)
EXTENDS Agc

CONSTANTS Loudness, Magnitude   \* looked at: the RMS of a frame, its peak

Absolute(x) == IF x < 0 THEN -x ELSE x

(* A frame of 160 samples: its RMS and a sample with the largest magnitude *)
(* in it, which is at least the RMS and, since 13^2 > 160, not 13 times it.*)
Frame ==
    { f \in [rms : Loudness, peak : Magnitude \cup { -x : x \in Magnitude }] :
        /\ f.peak \in Sample
        /\ f.rms <= Absolute(f.peak) /\ Absolute(f.peak) <= 13 * (f.rms + 1) }

VARIABLES
    gain_q12,
    heard      \* that sample, as captured and as sent

vars == <<gain_q12, heard>>

Init == gain_q12 = StartGain /\ heard = [captured |-> 0, sent |-> 0]

(* maybe_capture_one_frame, process_frame *)
CaptureFrame(f) ==
    /\ gain_q12' = NextGain(gain_q12, f.rms)
    /\ heard' = [captured |-> f.peak, sent |-> Output(f.peak, gain_q12')]

Next == \E f \in Frame : CaptureFrame(f)

Spec == Init /\ [][Next]_vars

----------------------------------------------------------------------------
(* agc.rs:114-115: "if above threshold, compress the excess by 4:1.  This  *)
(* avoids brutal hard clipping on yells."  A loud sample comes out loud    *)
(* and on its own side, whatever was heard before it.                      *)
YellsAreLimited ==
    /\ heard.captured >= LimiterThreshold => heard.sent >= 0
    /\ heard.captured <= -LimiterThreshold => heard.sent <= 0
=============================================================================
