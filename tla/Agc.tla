--------------------------------- MODULE Agc ---------------------------------
(***************************************************************************)
(* The gain control of the microphone, in fixed point with twelve bits of  *)
(* fraction (Q12), and its limiter.                                        *)
(***************************************************************************)
EXTENDS Integers

One == 4096   \* 1.0 in Q12

StartGain == 3 * One
MaxGain == 32 * One
MinGain == One \div 2

TargetRms == 16000
NoiseGateRms == 150
LimiterThreshold == 28500

MinSample == -32768
MaxSample == 32767
Sample == MinSample .. MaxSample

Gain == MinGain .. MaxGain

Clamp(n, low, high) == IF n < low THEN low ELSE IF n > high THEN high ELSE n

(* The gain that would bring a frame of this loudness to the target; below *)
(* the noise gate it is never more than the gain there is.                 *)
Desired(gain, rms) ==
    LET wanted == IF rms > 0 THEN Clamp((TargetRms * One) \div rms, MinGain, MaxGain)
                  ELSE MaxGain
    IN IF rms < NoiseGateRms /\ wanted > gain THEN gain ELSE wanted

(* How fast the gain follows, in 256ths: attack and release. *)
Alpha(gain, desired) == IF desired < gain THEN 96 ELSE 16

NextGain(gain, rms) ==
    LET desired == Desired(gain, rms)
    IN gain + ((desired - gain) * Alpha(gain, desired)) \div 256

(* The product of a sample and a gain, shifted by twelve bits.  The gain   *)
(* is taken apart, so that no intermediate product exceeds 32 bits.        *)
Amplified(x, gain) == x * (gain \div One) + (x * (gain % One)) \div One

(* The i32 product of the code wraps at 2^32, and so at 2^20 when shifted. *)
Wrapped(y) == ((y + 2^19) % 2^20) - 2^19

(* What exceeds the threshold is compressed by 4:1. *)
Limited(y) ==
    LET excess == IF y > 0 THEN y - LimiterThreshold ELSE y + LimiterThreshold
    IN Clamp(IF y > LimiterThreshold THEN LimiterThreshold + excess \div 4
             ELSE IF y < -LimiterThreshold THEN -LimiterThreshold + excess \div 4
             ELSE y, MinSample, MaxSample)

Output(x, gain) == Limited(Wrapped(Amplified(x, gain)))
=============================================================================
