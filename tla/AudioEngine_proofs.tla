------------------------- MODULE AudioEngine_proofs -------------------------
(***************************************************************************)
(* Theorems about the audio task: about AudioEngine, for every bound on    *)
(* the channel and on the failures of the device, about the arithmetic of  *)
(* the gain control, Agc, for every gain and sample, and about the clocks  *)
(* of Cadence, for every period, every turn and every lateness.            *)
(***************************************************************************)
EXTENDS AudioEngine, Agc, Cadence, Channel

ChannelTells ==
    /\ Tells(cmds, PhoneState, call_state, line)
    /\ Tells(cmds, AudioMode, mode, button)

(* A frame too many was sent only if Talk is over, and the engine that     *)
(* sent it is about to be stopped.                                         *)
OverrunEnds ==
    /\ overrun <= 1
    /\ overrun = 1 => /\ Wanted(line, button) # "Talk"
                      /\ engine = "Talk" => turn = "top"

IInv == TypeOK /\ ChannelTells /\ EngineHasItsDriver /\ OverrunEnds

----------------------------------------------------------------------------
Command == PhoneState \cup AudioMode

LEMMA KindsDiffer == PhoneState \cap AudioMode = {}
BY DEF PhoneState, AudioMode

(* The invariant holds at first. *)
LEMMA InitInvariant == Init => IInv
<1> SUFFICES ASSUME Init PROVE IInv
  OBVIOUS
<1>0. "Idle" \in PhoneState \cup AudioMode
  BY DEF PhoneState
<1>1. TypeOK
  <2>1. cmds \in Seq(PhoneState \cup AudioMode)
    BY <1>0 DEF Init
  <2>2. faults \in 0 .. MaxFaults /\ overrun \in Nat
    BY BoundAssumption DEF Init
  <2>3. pressed \in BOOLEAN /\ paced \in BOOLEAN
    BY DEF Init
  <2>4. /\ line \in PhoneState /\ button \in AudioMode /\ turn \in {"top", "wait", "drain", "frame"}
        /\ call_state \in PhoneState /\ mode \in AudioMode /\ engine \in EngineKind /\ device \in Driver
    BY DEF Init, PhoneState, AudioMode, EngineKind, Driver
  <2> QED BY <2>1, <2>2, <2>3, <2>4 DEF TypeOK
<1>2. ChannelTells
  BY DEF Init, ChannelTells, Tells, PhoneState, AudioMode
<1>3. EngineHasItsDriver /\ OverrunEnds
  BY DEF Init, EngineHasItsDriver, OverrunEnds
<1> QED BY <1>1, <1>2, <1>3 DEF IInv

(* A command of the SIP task: the channel goes on telling what it last     *)
(* told, and an overrun ends when Talk is wanted again.                    *)
LEMMA BroadcastKeeps == IInv /\ BroadcastPhoneState => IInv'
<1> SUFFICES ASSUME IInv, BroadcastPhoneState PROVE IInv'
  OBVIOUS
<1>0. /\ line' \in PhoneState /\ cmds' = Append(cmds, line') /\ cmds \in Seq(Command)
      /\ UNCHANGED <<pressed, button, turn, call_state, mode, engine, paced, device, faults>>
      /\ overrun' = IF Wanted(line', button') = "Talk" THEN 0 ELSE overrun
  BY DEF IInv, TypeOK, BroadcastPhoneState, Tell, PhoneState, loop, Command
<1>1. TypeOK'
  BY <1>0 DEF IInv, TypeOK, Command
<1>2. ChannelTells'
  <2>1. Tells(cmds', PhoneState, call_state', line')
    BY <1>0, AppendOfKind
  <2>2. Tells(cmds, AudioMode, mode, button) /\ line' \notin AudioMode
    BY <1>0, KindsDiffer DEF IInv, ChannelTells
  <2>3. Tells(cmds', AudioMode, mode', button')
    BY <1>0, <2>2, AppendOther
  <2> QED BY <2>1, <2>3 DEF ChannelTells
<1>3. EngineHasItsDriver'
  BY <1>0 DEF IInv, EngineHasItsDriver
<1>4. OverrunEnds'
  BY <1>0 DEF IInv, OverrunEnds, TypeOK
<1> QED BY <1>1, <1>2, <1>3, <1>4 DEF IInv

LEMMA ButtonKeeps == IInv /\ HandleButton => IInv'
<1> SUFFICES ASSUME IInv, HandleButton PROVE IInv'
  OBVIOUS
<1>a. CASE ButtonPassedOn
  <2>0. /\ button' \in AudioMode /\ cmds' = Append(cmds, button') /\ cmds \in Seq(Command)
        /\ pressed' \in BOOLEAN
        /\ UNCHANGED <<line, turn, call_state, mode, engine, paced, device, faults>>
        /\ overrun' = IF Wanted(line', button') = "Talk" THEN 0 ELSE overrun
    BY <1>a DEF IInv, TypeOK, HandleButton, ButtonPassedOn, Tell, AudioMode, loop, Command
  <2>1. TypeOK'
    BY <2>0 DEF IInv, TypeOK, Command
  <2>2. ChannelTells'
    <3>1. Tells(cmds', AudioMode, mode', button')
      BY <2>0, AppendOfKind
    <3>2. Tells(cmds, PhoneState, call_state, line) /\ button' \notin PhoneState
      BY <2>0, KindsDiffer DEF IInv, ChannelTells
    <3>3. Tells(cmds', PhoneState, call_state', line')
      BY <2>0, <3>2, AppendOther
    <3> QED BY <3>1, <3>3 DEF ChannelTells
  <2>3. EngineHasItsDriver'
    BY <2>0 DEF IInv, EngineHasItsDriver
  <2>4. OverrunEnds'
    BY <2>0 DEF IInv, OverrunEnds, TypeOK
  <2> QED BY <2>1, <2>2, <2>3, <2>4 DEF IInv
<1>b. CASE ButtonDropped
  <2>0. UNCHANGED <<line, button, cmds, turn, call_state, mode, engine, paced, device, faults, overrun>>
        /\ pressed' \in BOOLEAN
    BY <1>b DEF IInv, TypeOK, HandleButton, ButtonDropped, loop
  <2> QED BY <2>0 DEF IInv, TypeOK, ChannelTells, Tells, EngineHasItsDriver, OverrunEnds
<1> QED BY <1>a, <1>b DEF HandleButton

(* A command handled: what it told is now known. *)
LEMMA TakeKeeps ==
    ASSUME IInv, TakeCommand
    PROVE  /\ cmds' \in Seq(PhoneState \cup AudioMode)
           /\ call_state' \in PhoneState /\ mode' \in AudioMode
           /\ ChannelTells'
<1>0. /\ cmds \in Seq(Command) /\ cmds # <<>> /\ cmds' = Tail(cmds) /\ Head(cmds) \in Command
      /\ UNCHANGED <<line, button>> /\ cmds' \in Seq(Command)
  BY DEF IInv, TypeOK, TakeCommand, sip, Command
<1>1. CASE Head(cmds) \in PhoneState
  <2>0. call_state' = Head(cmds) /\ mode' = mode
    BY <1>1 DEF TakeCommand, HandleCommand
  <2>1. Tells(cmds', PhoneState, call_state', line')
    BY <1>0, <1>1, <2>0, TakeOfKind DEF IInv, ChannelTells
  <2>2. Head(cmds) \notin AudioMode
    BY <1>1, KindsDiffer
  <2>3. Tells(cmds', AudioMode, mode', button')
    BY <1>0, <2>0, <2>2, TakeOther DEF IInv, ChannelTells
  <2> QED BY <1>0, <1>1, <2>0, <2>1, <2>3 DEF IInv, TypeOK, ChannelTells, Command
<1>2. CASE Head(cmds) \notin PhoneState
  <2>0. Head(cmds) \in AudioMode /\ mode' = Head(cmds) /\ call_state' = call_state
    BY <1>0, <1>2 DEF TakeCommand, HandleCommand, Command
  <2>1. Tells(cmds', AudioMode, mode', button')
    BY <1>0, <2>0, TakeOfKind DEF IInv, ChannelTells
  <2>3. Tells(cmds', PhoneState, call_state', line')
    BY <1>0, <1>2, <2>0, TakeOther DEF IInv, ChannelTells
  <2> QED BY <1>0, <2>0, <2>1, <2>3 DEF IInv, TypeOK, ChannelTells, Command
<1> QED BY <1>1, <1>2

(* update_engine, once the channel is empty: it stops the engine that sent *)
(* the frame too many.                                                     *)
LEMMA TopKeeps == IInv /\ Top => IInv'
<1> SUFFICES ASSUME IInv, Top PROVE IInv'
  OBVIOUS
<1>0. /\ cmds = <<>> /\ turn' = "wait"
      /\ UNCHANGED <<line, pressed, button, cmds, call_state, mode, overrun>>
  BY DEF Top, Drained, sip
<1>1. call_state = line /\ mode = button
  BY <1>0, EmptyTells DEF IInv, ChannelTells
<1>2. Wanted(call_state, mode) \in EngineKind
  BY DEF IInv, TypeOK, Wanted, EngineKind, AudioMode
<1>3. StopEngine \in {"None", "Tx"}
  BY DEF StopEngine, IInv, TypeOK, Driver, EngineHasItsDriver, EngineKind
<1>4. /\ engine' \in EngineKind /\ device' \in Driver /\ paced' \in BOOLEAN
      /\ faults' \in 0 .. MaxFaults
      /\ EngineHasItsDriver'
      /\ engine' \in {"Off", Wanted(call_state, mode)}
  <2>1. UpdateEngine(Wanted(call_state, mode))
    BY DEF Top
  <2>2. CASE UNCHANGED <<engine, paced, device, faults>> /\ engine = Wanted(call_state, mode)
    BY <2>2 DEF IInv, TypeOK, EngineHasItsDriver
  <2>3. CASE /\ engine' = Started(Wanted(call_state, mode), StopEngine).engine
             /\ device' = Started(Wanted(call_state, mode), StopEngine).device
             /\ paced' = FALSE /\ UNCHANGED faults
    BY <2>3, <1>2, <1>3 DEF Started, EngineKind, Driver, EngineHasItsDriver, IInv, TypeOK
  <2>4. CASE /\ faults < MaxFaults /\ device' \in LeftBy(Wanted(call_state, mode), StopEngine)
             /\ engine' = "Off" /\ paced' = FALSE /\ faults' = faults + 1
    <3>1. faults' \in 0 .. MaxFaults
      BY <2>4, BoundAssumption DEF IInv, TypeOK
    <3>2. device' \in {"None", "Tx"}
      BY <2>4, <1>2, <1>3 DEF LeftBy, EngineKind
    <3> QED BY <2>4, <3>1, <3>2 DEF EngineHasItsDriver, EngineKind, Driver
  <2> QED BY <2>1, <2>2, <2>3, <2>4 DEF UpdateEngine
<1>5. TypeOK'
  BY <1>0, <1>4 DEF IInv, TypeOK
<1>6. ChannelTells'
  BY <1>0 DEF IInv, ChannelTells, Tells
<1>7. OverrunEnds'
  BY <1>0, <1>1, <1>4 DEF IInv, OverrunEnds, Wanted
<1> QED BY <1>4, <1>5, <1>6, <1>7 DEF IInv

(* The steps that only take a command. *)
LEMMA TakingKeeps ==
    ASSUME IInv, TakeCommand, turn' \in {"top", "wait", "drain", "frame"},
           turn = "top" => turn' = "top"
    PROVE  IInv'
<1>0. UNCHANGED <<line, pressed, button, engine, paced, device, faults, overrun>>
  BY DEF TakeCommand, sip
<1>1. TypeOK' /\ ChannelTells'
  BY <1>0, TakeKeeps DEF IInv, TypeOK
<1>2. EngineHasItsDriver' /\ OverrunEnds'
  BY <1>0 DEF IInv, EngineHasItsDriver, OverrunEnds
<1> QED BY <1>1, <1>2 DEF IInv

(* The steps that change neither the channel nor the engine. *)
LEMMA WaitingKeeps ==
    ASSUME IInv, turn' \in {"top", "wait", "drain", "frame"}, paced' \in BOOLEAN,
           UNCHANGED <<line, pressed, button, cmds, call_state, mode, engine, device, faults, overrun>>,
           turn # "top"
    PROVE  IInv'
<1>1. TypeOK' /\ ChannelTells' /\ EngineHasItsDriver'
  BY DEF IInv, TypeOK, ChannelTells, Tells, EngineHasItsDriver
<1>2. OverrunEnds'
  BY DEF IInv, OverrunEnds
<1> QED BY <1>1, <1>2 DEF IInv

LEMMA FrameKeeps == IInv /\ Frame => IInv'
<1> SUFFICES ASSUME IInv, Frame PROVE IInv'
  OBVIOUS
<1>0. /\ UNCHANGED <<line, pressed, button, cmds, call_state, mode, engine, paced, device, faults>>
      /\ turn = "frame" /\ turn' = "top"
      /\ overrun' = IF engine = "Talk" /\ Wanted(line, button) # "Talk" THEN overrun + 1 ELSE overrun
  BY DEF Frame, sip
<1>1. TypeOK' /\ ChannelTells' /\ EngineHasItsDriver'
  BY <1>0 DEF IInv, TypeOK, ChannelTells, Tells, EngineHasItsDriver
<1>2. overrun \in {0, 1} /\ (engine = "Talk" => overrun = 0)
  BY <1>0 DEF IInv, OverrunEnds, TypeOK
<1>3. OverrunEnds'
  BY <1>0, <1>2 DEF IInv, OverrunEnds, Wanted
<1> QED BY <1>1, <1>3 DEF IInv

LEMMA Inductive == IInv /\ [Next]_vars => IInv'
<1> SUFFICES ASSUME IInv, [Next]_vars PROVE IInv'
  OBVIOUS
<1>1. CASE BroadcastPhoneState
  BY <1>1, BroadcastKeeps
<1>2. CASE HandleButton
  BY <1>2, ButtonKeeps
<1>3. CASE PollCommand
  BY <1>3, TakingKeeps DEF PollCommand
<1>4. CASE Top
  BY <1>4, TopKeeps
<1>5. CASE WaitOff
  <2>1. turn = "wait" /\ turn' = "top"
    BY <1>5 DEF WaitOff
  <2>2. CASE TakeCommand
    BY <2>1, <2>2, TakingKeeps
  <2>3. CASE UNCHANGED <<sip, cmds, call_state, mode, engine, paced, device, faults, overrun>>
    BY <2>1, <2>3, WaitingKeeps DEF sip, IInv, TypeOK
  <2> QED BY <1>5, <2>2, <2>3 DEF WaitOff
<1>6. CASE StartPacing
  BY <1>6, WaitingKeeps DEF StartPacing, sip
<1>7. CASE DeadlineReached
  BY <1>7, WaitingKeeps DEF DeadlineReached, sip, IInv, TypeOK
<1>8. CASE CommandInterrupts
  BY <1>8, TakingKeeps DEF CommandInterrupts
<1>9. CASE WaitOver
  BY <1>9, WaitingKeeps DEF WaitOver, sip, IInv, TypeOK
<1>10. CASE Frame
  BY <1>10, FrameKeeps
<1>11. CASE UNCHANGED vars
  BY <1>11 DEF vars, sip, loop, IInv, TypeOK, ChannelTells, Tells, EngineHasItsDriver, OverrunEnds
<1> QED
  BY <1>1, <1>2, <1>3, <1>4, <1>5, <1>6, <1>7, <1>8, <1>9, <1>10, <1>11 DEF Next, AudioTurn

LEMMA Invariant == Spec => []IInv
BY InitInvariant, Inductive, PTL DEF Spec

(* The audio task and its device keep their shapes: whatever is told and   *)
(* whatever fails, every engine that is wanted is one there is.            *)
THEOREM TypeCorrect == Spec => []TypeOK
<1>1. IInv => TypeOK
  BY DEF IInv
<1> QED BY <1>1, Invariant, PTL

(* The running engine has its driver enabled, and an enabled driver has    *)
(* its engine running, after any failures of the I2S driver calls.         *)
THEOREM EngineKeepsDriver == Spec => []EngineHasItsDriver
<1>1. IInv => EngineHasItsDriver
  BY DEF IInv
<1> QED BY <1>1, Invariant, PTL

(* At most one frame of the microphone is sent after the SIP task said     *)
(* that Talk is over, however long the channel was.                        *)
THEOREM MicrophoneIsStopped == Spec => []MicrophoneStops
<1>1. IInv => MicrophoneStops
  BY DEF IInv, OverrunEnds, MicrophoneStops
<1> QED BY <1>1, Invariant, PTL

(* The engine is the one for what the SIP task last told, which the audio  *)
(* task has heard.                                                         *)
EngineSettled == cmds = <<>> /\ engine = Wanted(line, button)

EngineSettles ==
    (Top /\ faults' = faults) \/ (EngineSettled /\ Len(cmds') <= Len(cmds)) => EngineSettled'

(* A turn of run in which no call of the device fails makes update_engine  *)
(* settle, and it stays so for as long as no command comes, for any bound  *)
(* on the failures.  This is what EngineFollows needs of every step.       *)
THEOREM EngineCatchesUp == Spec => [][EngineSettles]_vars
<1>1. ASSUME IInv, Top, faults' = faults PROVE EngineSettled'
  <2>1. cmds = <<>> /\ UNCHANGED <<line, button, cmds>>
    BY <1>1 DEF Top, Drained, sip
  <2>2. call_state = line /\ mode = button
    BY <1>1, <2>1, EmptyTells DEF IInv, ChannelTells
  <2>3. engine' = Wanted(call_state, mode)
    <3>1. Wanted(call_state, mode) \in EngineKind
      BY <1>1 DEF IInv, TypeOK, Wanted, EngineKind, AudioMode
    <3>2. faults + 1 # faults
      BY <1>1, BoundAssumption DEF IInv, TypeOK
    <3> QED BY <1>1, <3>1, <3>2 DEF Top, UpdateEngine, Started, EngineKind
  <2> QED BY <2>1, <2>2, <2>3 DEF EngineSettled, Wanted
<1>2. ASSUME IInv, Next, EngineSettled, Len(cmds') <= Len(cmds) PROVE EngineSettled'
  <2>1. /\ cmds = <<>> /\ engine = Wanted(line, button)
        /\ call_state = line /\ mode = button
    BY <1>2, EmptyTells DEF IInv, ChannelTells, EngineSettled
  <2>2. ASSUME NEW cmd PROVE ~ Tell(cmd)
    BY <1>2, <2>1 DEF Tell
  <2>3. ~ BroadcastPhoneState /\ ~ (HandleButton /\ ButtonPassedOn)
    BY <2>2 DEF BroadcastPhoneState, ButtonPassedOn
  <2>4. CASE HandleButton
    <3>1. UNCHANGED <<line, button, cmds, engine>>
      BY <2>3, <2>4 DEF HandleButton, ButtonDropped, loop
    <3> QED BY <2>1, <3>1 DEF EngineSettled
  <2>5. ~ TakeCommand
    BY <2>1 DEF TakeCommand
  <2>6. CASE Top
    BY <2>1, <2>6 DEF Top, UpdateEngine, EngineSettled, sip
  <2>7. CASE WaitOff \/ StartPacing \/ DeadlineReached \/ WaitOver \/ Frame
    BY <2>1, <2>5, <2>7
    DEF WaitOff, StartPacing, DeadlineReached, WaitOver, Frame, EngineSettled, sip
  <2>8. ~ PollCommand /\ ~ CommandInterrupts
    BY <2>5 DEF PollCommand, CommandInterrupts
  <2> QED BY <1>2, <2>3, <2>4, <2>6, <2>7, <2>8 DEF Next, AudioTurn
<1>3. IInv /\ [Next]_vars => [EngineSettles]_vars
  BY <1>1, <1>2 DEF EngineSettles
<1> QED BY <1>3, Invariant, PTL DEF Spec

----------------------------------------------------------------------------
(* The gain control.  Numbers of five digits are kept out of ranges.       *)

(* The constants as numbers, without their ranges. *)
LEMMA GainBounds ==
    \A gain : gain \in Gain <=> gain \in Int /\ 2048 <= gain /\ gain <= 131072
<1>1. MinGain \in Int /\ MaxGain \in Int
  BY SMT DEF MinGain, MaxGain, One
<1>2. MinGain = 2048 /\ MaxGain = 131072
  BY SMT DEF MinGain, MaxGain, One
<1>3. \A gain : gain \in Gain <=> gain \in Int /\ MinGain <= gain /\ gain <= MaxGain
  BY <1>1, SMT DEF Gain
<1> QED BY <1>2, <1>3, SMT

LEMMA SampleBounds ==
    \A x \in Sample : x \in Int /\ -32768 <= x /\ x <= 32767
<1>1. MinSample \in Int /\ MaxSample \in Int
  BY SMT DEF MinSample, MaxSample
<1>2. \A x \in Sample : x \in Int /\ MinSample <= x /\ x <= MaxSample
  BY <1>1, SMT DEF Sample
<1>3. MinSample = -32768 /\ MaxSample = 32767
  BY SMT DEF MinSample, MaxSample
<1> QED BY <1>2, <1>3, SMT

LEMMA Clamped ==
    ASSUME NEW n \in Int, NEW low \in Int, NEW high \in Int, low <= high
    PROVE  /\ Clamp(n, low, high) \in Int
           /\ low <= Clamp(n, low, high) /\ Clamp(n, low, high) <= high
           /\ n <= high => Clamp(n, low, high) >= n
           /\ low <= n => Clamp(n, low, high) <= n
<1>1. CASE n < low
  BY <1>1, SMT DEF Clamp
<1>2. CASE ~ (n < low) /\ n > high
  BY <1>2, SMT DEF Clamp
<1>3. CASE ~ (n < low) /\ ~ (n > high)
  BY <1>3, SMT DEF Clamp
<1> QED BY <1>1, <1>2, <1>3, SMT

LEMMA DesiredInRange ==
    ASSUME NEW gain \in Gain, NEW rms \in Nat
    PROVE  Desired(gain, rms) \in Gain
<1> DEFINE wanted == IF rms > 0 THEN Clamp((TargetRms * One) \div rms, MinGain, MaxGain)
                     ELSE MaxGain
<1>0. MinGain = 2048 /\ MaxGain = 131072
  BY SMT DEF MinGain, MaxGain, One
<1>3. wanted \in Gain
  <2>1. CASE rms > 0
    <3>1. (TargetRms * One) \div rms \in Int
      BY <2>1, SMT DEF TargetRms, One
    <3>2. Clamp((TargetRms * One) \div rms, 2048, 131072) \in Gain
      BY <3>1, GainBounds, Clamped, SMT
    <3> QED BY <1>0, <2>1, <3>2, SMT
  <2>2. CASE ~ (rms > 0)
    BY <1>0, <2>2, GainBounds, SMT
  <2> QED BY <2>1, <2>2
<1>4. Desired(gain, rms) = IF rms < NoiseGateRms /\ wanted > gain THEN gain ELSE wanted
  BY DEF Desired
<1> HIDE DEF wanted
<1> QED BY <1>3, <1>4

(* The gain is never outside its bounds, whatever is captured. *)
THEOREM GainInRange ==
    \A gain \in Gain, rms \in Nat : NextGain(gain, rms) \in Gain
<1> SUFFICES ASSUME NEW gain \in Gain, NEW rms \in Nat PROVE NextGain(gain, rms) \in Gain
  OBVIOUS
<1>1. Desired(gain, rms) \in Gain
  BY DesiredInRange
<1>2. ASSUME NEW desired \in Gain
      PROVE  gain + ((desired - gain) * Alpha(gain, desired)) \div 256 \in Gain
  <2>0. gain \in Int /\ desired \in Int
    BY GainBounds
  <2>1. CASE desired < gain
    <3>1. Alpha(gain, desired) = 96
      BY <2>1 DEF Alpha
    <3>2. gain + ((desired - gain) * 96) \div 256 \in Gain
      BY <2>1, GainBounds, SMT
    <3> QED BY <3>1, <3>2
  <2>2. CASE ~ (desired < gain)
    <3>1. Alpha(gain, desired) = 16
      BY <2>2 DEF Alpha
    <3>2. gain + ((desired - gain) * 16) \div 256 \in Gain
      BY <2>2, GainBounds, SMT
    <3> QED BY <3>1, <3>2
  <2> QED BY <2>1, <2>2
<1> QED BY <1>1, <1>2 DEF NextGain

(* A product with the fraction of a gain stays between the sample and 0. *)
LEMMA Fraction ==
    ASSUME NEW x \in Int, NEW f \in Int, 0 <= f, f <= 4095
    PROVE  /\ (x * f) \div 4096 \in Int
           /\ x >= 0 => 0 <= (x * f) \div 4096 /\ (x * f) \div 4096 <= x
           /\ x <= 0 => x <= (x * f) \div 4096 /\ (x * f) \div 4096 <= 0
<1>1. /\ x * f \in Int
      /\ x >= 0 => 0 <= x * f /\ x * f <= 4096 * x
      /\ x <= 0 => x * f <= 0 /\ 4096 * x <= x * f
  BY SMT
<1>2. ASSUME NEW p \in Int
      PROVE  /\ p \div 4096 \in Int
             /\ x >= 0 /\ 0 <= p /\ p <= 4096 * x => 0 <= p \div 4096 /\ p \div 4096 <= x
             /\ x <= 0 /\ p <= 0 /\ 4096 * x <= p => x <= p \div 4096 /\ p \div 4096 <= 0
  BY SMT
<1> QED BY <1>1, <1>2, SMT

LEMMA Multiple ==
    ASSUME NEW x \in Int, NEW n \in Int, 0 <= n, n <= 16
    PROVE  /\ x * n \in Int
           /\ x >= 0 => 0 <= x * n /\ x * n <= 16 * x /\ (n <= 15 => x * n <= 15 * x)
           /\ x <= 0 => x * n <= 0 /\ 16 * x <= x * n /\ (n <= 15 => 15 * x <= x * n)
BY SMT

(* Up to a gain of 16 the 32 bits of the product suffice, and a sample     *)
(* comes out on its own side.                                              *)
THEOREM NoOverflowTo16 ==
    \A x \in Sample, gain \in Gain : gain <= 16 * One =>
        /\ Wrapped(Amplified(x, gain)) = Amplified(x, gain)
        /\ x >= 0 => Output(x, gain) >= 0
        /\ x <= 0 => Output(x, gain) <= 0
<1> SUFFICES ASSUME NEW x \in Sample, NEW gain \in Gain, gain <= 16 * One
             PROVE  /\ Wrapped(Amplified(x, gain)) = Amplified(x, gain)
                    /\ x >= 0 => Output(x, gain) >= 0
                    /\ x <= 0 => Output(x, gain) <= 0
  OBVIOUS
<1> DEFINE whole == gain \div One
           part == gain % One
           y == Amplified(x, gain)
<1>0. x \in Int /\ -32768 <= x /\ x <= 32767 /\ One = 4096
  BY SampleBounds DEF One
<1>1. /\ whole \in Int /\ 0 <= whole /\ whole <= 16
      /\ part \in Int /\ 0 <= part /\ part <= 4095
      /\ whole <= 15 \/ part = 0
  <2>1. gain \in Int /\ 2048 <= gain /\ gain <= 16 * 4096
    BY <1>0, GainBounds
  <2> QED BY <1>0, <2>1, SMT
<1>2. y = x * whole + (x * part) \div 4096
  BY <1>0 DEF Amplified
<1>3. /\ y \in Int /\ -524288 <= y /\ y < 524288
      /\ x >= 0 => y >= 0
      /\ x <= 0 => y <= 0
  <2> DEFINE p == x * whole
             q == (x * part) \div 4096
  <2>1. /\ p \in Int
        /\ x >= 0 => 0 <= p /\ p <= 16 * x /\ (whole <= 15 => p <= 15 * x)
        /\ x <= 0 => p <= 0 /\ 16 * x <= p /\ (whole <= 15 => 15 * x <= p)
    BY <1>0, <1>1, Multiple
  <2>2. /\ q \in Int
        /\ x >= 0 => 0 <= q /\ q <= x
        /\ x <= 0 => x <= q /\ q <= 0
    BY <1>0, <1>1, Fraction
  <2>3. part = 0 => q = 0
    BY <1>0, SMT
  <2>4. y = p + q
    BY <1>2
  <2> HIDE DEF p, q, y, whole, part
  <2> QED BY <1>0, <1>1, <2>1, <2>2, <2>3, <2>4, SMT
<1>4. Wrapped(y) = y
  <2>1. 2^19 = 524288 /\ 2^20 = 1048576
    BY SMT
  <2>2. ASSUME NEW n \in Int, -524288 <= n, n < 524288
        PROVE  ((n + 524288) % 1048576) - 524288 = n
    BY <2>2, SMT
  <2> QED BY <1>3, <2>1, <2>2 DEF Wrapped
<1>5. ASSUME NEW n \in Int
      PROVE  (n >= 0 => Limited(n) >= 0) /\ (n <= 0 => Limited(n) <= 0)
  <2> DEFINE excess == IF n > 0 THEN n - LimiterThreshold ELSE n + LimiterThreshold
             l == IF n > LimiterThreshold THEN LimiterThreshold + excess \div 4
                  ELSE IF n < -LimiterThreshold THEN -LimiterThreshold + excess \div 4
                  ELSE n
  <2>0. LimiterThreshold = 28500 /\ MinSample = -32768 /\ MaxSample = 32767
    BY DEF LimiterThreshold, MinSample, MaxSample
  <2>1. l \in Int /\ (n >= 0 => l >= 0) /\ (n <= 0 => l <= 0)
    <3>1. CASE n > 28500
      BY <2>0, <3>1, SMT
    <3>2. CASE n < -28500
      BY <2>0, <3>2, SMT
    <3>3. CASE ~ (n > 28500) /\ ~ (n < -28500)
      BY <2>0, <3>3, SMT
    <3> QED BY <3>1, <3>2, <3>3
  <2>2. Limited(n) = Clamp(l, MinSample, MaxSample)
    BY DEF Limited
  <2> HIDE DEF l
  <2>3. CASE l < MinSample
    BY <2>0, <2>1, <2>2, <2>3, SMT DEF Clamp
  <2>4. CASE ~ (l < MinSample)
    BY <2>0, <2>1, <2>2, <2>4, SMT DEF Clamp
  <2> QED BY <2>3, <2>4
<1>6. Output(x, gain) = Limited(y)
  BY <1>4 DEF Output
<1> HIDE DEF y
<1> QED BY <1>3, <1>4, <1>5, <1>6 DEF y
----------------------------------------------------------------------------
(* The two clocks of Cadence. *)

(* The time until the next frame; a microphone that is off starts a period *)
(* before its first.                                                       *)
NextFrame == IF talking THEN deadline ELSE Period

(* How far the stream is behind the microphone, in time.  A frame that is  *)
(* captured moves the deadline by what the backlog gains, a tick moves the *)
(* next one by what it takes or skips: it only grows where the backlog is  *)
(* measured anew.                                                          *)
LagIsBounded ==
    active => Period * queue + next_tick <= Period * floor + Period + Lateness + NextFrame

(* No turn comes later than a turn may last after its tick. *)
TurnsAreInTime == sleep < next_tick + ActiveTurn + Overrun

CadenceInv == CadenceTypeOK /\ LagIsBounded /\ TurnsAreInTime

LEMMA Division ==
    ASSUME NEW n \in Nat
    PROVE  /\ n \div Period \in Nat
           /\ Period * (n \div Period) <= n /\ n < Period * (n \div Period) + Period
BY PeriodAssumption

(* What fits into n so many times, does so no more often than n allows. *)
LEMMA DivisionBounds ==
    ASSUME NEW n \in Nat, NEW m \in Int, Period * m <= n
    PROVE  m <= n \div Period
<1> DEFINE q == n \div Period
<1>1. q \in Nat /\ n < Period * q + Period
  BY Division
<1> HIDE DEF q
<1>2. ASSUME m > q PROVE FALSE
  <2>1. PICK d \in Nat : m = q + 1 + d
    <3>1. m - q - 1 \in Nat /\ m = q + 1 + (m - q - 1)
      BY <1>1, <1>2
    <3> QED BY <3>1
  <2>2. Period * m = Period * q + Period + Period * d
    BY <1>1, <2>1, PeriodAssumption
  <2>3. Period * d >= 0
    BY <2>1, PeriodAssumption
  <2>4. Period * m \in Int /\ Period * q \in Int /\ Period * d \in Int
    BY <1>1, <2>1, PeriodAssumption
  <2> QED BY <1>1, <2>2, <2>3, <2>4, PeriodAssumption
<1> QED BY <1>1, <1>2 DEF q

(* The next tick after those that are due is within a period. *)
LEMMA NextTickFacts ==
    ASSUME NEW tick \in Int
    PROVE  /\ TicksDue(tick) \in Nat /\ NextTick(tick) \in Int
           /\ NextTick(tick) = tick + Period * TicksDue(tick)
           /\ tick > 0 => TicksDue(tick) = 0 /\ NextTick(tick) = tick
           /\ tick <= 0 => TicksDue(tick) > 0 /\ NextTick(tick) \in 1 .. Period
<1>1. CASE tick > 0
  BY <1>1, PeriodAssumption DEF TicksDue, NextTick
<1>2. CASE tick <= 0
  <2> DEFINE q == (-tick) \div Period
  <2>1. -tick \in Nat
    BY <1>2
  <2>2. q \in Nat /\ Period * q <= -tick /\ -tick < Period * q + Period
    BY <2>1, Division
  <2>3. TicksDue(tick) = q + 1
    BY <1>2 DEF TicksDue
  <2> HIDE DEF q
  <2>4. (q + 1) * Period = Period * q + Period /\ Period * (q + 1) = Period * q + Period
        /\ Period * q \in Int
    BY <2>2, PeriodAssumption
  <2> QED BY <1>2, <2>2, <2>3, <2>4, PeriodAssumption DEF NextTick
<1> QED BY <1>1, <1>2

(* The arithmetic of the turns. *)
LEMMA TurnFacts ==
    /\ \A left, tick \in Int :
          left <= ActiveTurn + Overrun /\ 1 <= tick => left < tick + ActiveTurn + Overrun
    /\ \A left \in Nat : left < left + Period + ActiveTurn + Overrun
    /\ \A left, tick \in Int :
          left < tick + ActiveTurn + Overrun => left - 1 < (tick - 1) + ActiveTurn + Overrun
BY PeriodAssumption

(* The ranges of CadenceTypeOK. *)
LEMMA RangeFacts ==
    /\ \A tick \in Int, left \in Nat \ {0} :
          left < tick + ActiveTurn + Overrun => tick > -(ActiveTurn + Overrun)
    /\ \A tick \in -(ActiveTurn + Overrun) .. IdleTurn + Overrun + Period :
          /\ tick \in Int
          /\ tick > -(ActiveTurn + Overrun) =>
                tick - 1 \in -(ActiveTurn + Overrun) .. IdleTurn + Overrun + Period
    /\ \A left \in IdleTurn .. IdleTurn + Overrun :
          /\ left \in 0 .. IdleTurn + ActiveTurn + Overrun
          /\ left + Period \in -(ActiveTurn + Overrun) .. IdleTurn + Overrun + Period
BY PeriodAssumption

LEMMA CadenceInitInvariant == CadenceInit => CadenceInv
<1> SUFFICES ASSUME CadenceInit PROVE CadenceInv
  OBVIOUS
<1>1. active \in BOOLEAN /\ talking \in BOOLEAN /\ silent \in BOOLEAN
  BY DEF CadenceInit
<1>2. sleep = 0 /\ next_tick = 0 /\ deadline = 0 /\ queue = 0 /\ floor = 0 /\ ~ active
  BY DEF CadenceInit
<1> QED BY <1>1, <1>2, PeriodAssumption DEF CadenceInv, CadenceTypeOK, LagIsBounded, TurnsAreInTime

LEMMA BacklogTyped ==
    ASSUME CadenceTypeOK
    PROVE  /\ Period * queue \in Int /\ Period * floor \in Int /\ queue \in Nat /\ floor \in Nat
           /\ NextFrame \in Int /\ -Lateness <= NextFrame /\ NextFrame <= Period
           /\ next_tick \in Int
BY PeriodAssumption DEF CadenceTypeOK, NextFrame

(* Time passes for the tick and for the frame alike, or for the tick alone. *)
LEMMA ElapseKeeps == CadenceInv /\ Elapse => CadenceInv'
<1> SUFFICES ASSUME CadenceInv, Elapse PROVE CadenceInv'
  OBVIOUS
<1>1. /\ sleep > 0
      /\ talking => deadline > -Lateness
      /\ sleep' = sleep - 1 /\ next_tick' = next_tick - 1
      /\ deadline' = IF talking THEN deadline - 1 ELSE deadline
      /\ UNCHANGED <<active, talking, queue, floor, silent>>
  BY DEF Elapse
<1>2. /\ sleep \in 0 .. IdleTurn + ActiveTurn + Overrun
      /\ next_tick \in -(ActiveTurn + Overrun) .. IdleTurn + Overrun + Period
      /\ deadline \in -Lateness .. Period
  BY DEF CadenceInv, CadenceTypeOK
<1>3. sleep < next_tick + ActiveTurn + Overrun
  BY DEF CadenceInv, TurnsAreInTime
<1>4. sleep \in Nat \ {0} /\ sleep - 1 \in 0 .. IdleTurn + ActiveTurn + Overrun
  <2>1. sleep > 0
    BY <1>1
  <2> QED BY <1>2, <2>1, PeriodAssumption
<1>5. next_tick \in Int /\ next_tick - 1 \in -(ActiveTurn + Overrun) .. IdleTurn + Overrun + Period
  BY <1>2, <1>3, <1>4, RangeFacts
<1>6. talking => deadline - 1 \in -Lateness .. Period
  <2>1. deadline > -Lateness => deadline - 1 \in -Lateness .. Period
    BY <1>2, PeriodAssumption
  <2> QED BY <1>1, <2>1
<1>7. deadline' \in -Lateness .. Period
  BY <1>1, <1>2, <1>6
<1>8. CadenceTypeOK'
  BY <1>1, <1>4, <1>5, <1>7 DEF CadenceInv, CadenceTypeOK
<1>9. TurnsAreInTime'
  BY <1>1, <1>3, <1>4, <1>5, TurnFacts DEF TurnsAreInTime
<1>10. LagIsBounded'
  BY <1>1, <1>2, BacklogTyped, PeriodAssumption DEF CadenceInv, LagIsBounded, NextFrame
<1> QED BY <1>8, <1>9, <1>10 DEF CadenceInv

(* A packet is sent at a turn: the backlog loses a frame, and floor gains  *)
(* what was skipped, so the lag stays; or the floor is the backlog.        *)
LEMMA RtpTurnKeeps == CadenceInv /\ RtpTurn => CadenceInv'
<1> SUFFICES ASSUME CadenceInv, RtpTurn PROVE CadenceInv'
  OBVIOUS
<1> DEFINE due == TicksDue(next_tick)
<1>1. /\ sleep = 0 /\ active /\ active' = TRUE /\ next_tick' = NextTick(next_tick)
      /\ sleep' \in ActiveTurn .. ActiveTurn + Overrun
      /\ UNCHANGED <<talking, deadline>>
  BY DEF RtpTurn, StreamTurn, Sleeps, audio
<1>2. /\ next_tick \in Int /\ due \in Nat /\ next_tick' \in Int
      /\ next_tick' = next_tick + Period * due
      /\ next_tick > 0 => due = 0 /\ next_tick' = next_tick
      /\ next_tick <= 0 => due > 0 /\ next_tick' \in 1 .. Period
  BY <1>1, BacklogTyped, NextTickFacts DEF CadenceInv
<1>3. /\ NextFrame' = NextFrame /\ NextFrame \in Int /\ -Lateness <= NextFrame
      /\ Period * queue \in Int /\ Period * floor \in Int /\ queue \in Nat /\ floor \in Nat
      /\ Period \in Nat \ {0} /\ Lateness \in Nat
  BY <1>1, BacklogTyped, PeriodAssumption DEF NextFrame, CadenceInv, CadenceTypeOK
<1>4. TurnsAreInTime'
  <2>1. sleep' \in Int /\ sleep' <= ActiveTurn + Overrun
    BY <1>1, PeriodAssumption
  <2>2. next_tick' \in Int /\ next_tick' >= 1
    BY <1>2, PeriodAssumption
  <2> QED BY <2>1, <2>2, TurnFacts DEF TurnsAreInTime
<1>5. CASE next_tick > 0
  <2>1. UNCHANGED <<queue, floor, silent>> /\ next_tick' = next_tick
    BY <1>2, <1>5 DEF RtpTurn
  <2>2. CadenceTypeOK'
    BY <1>1, <2>1, PeriodAssumption DEF CadenceInv, CadenceTypeOK
  <2>3. LagIsBounded'
    BY <1>1, <1>3, <2>1 DEF CadenceInv, LagIsBounded
  <2> QED BY <1>4, <2>2, <2>3 DEF CadenceInv
<1>6. CASE next_tick <= 0
  <2>1. /\ queue' = Take /\ silent' = (queue = 0)
        /\ floor' = Lesser(floor + (due - 1), queue')
    BY <1>2, <1>6 DEF RtpTurn, SendOne
  <2> HIDE DEF due
  <2>2. /\ queue' \in Nat /\ floor' \in Nat
        /\ queue' = queue - 1 \/ queue' = 0
        /\ (queue' = queue - 1 /\ floor' = floor + due - 1) \/ floor' = queue'
    BY <1>2, <1>3, <1>6, <2>1 DEF Take, Lesser
  <2>3. CadenceTypeOK'
    <3>1. silent' \in BOOLEAN
      BY <2>1
    <3> QED BY <1>1, <1>2, <1>6, <2>2, <3>1, PeriodAssumption DEF CadenceInv, CadenceTypeOK
  <2>4. LagIsBounded'
    <3>1. CASE queue' = queue - 1 /\ floor' = floor + due - 1
      <4>1. Period * queue' = Period * queue - Period
        BY <1>3, <3>1
      <4>2. Period * (floor + due - 1) = Period * floor + Period * due - Period
            /\ Period * due \in Int
        BY <1>2, <1>3
      <4>3. Period * floor' = Period * floor + Period * due - Period
        BY <3>1, <4>2
      <4>4. Period * queue + next_tick <= Period * floor + Period + Lateness + NextFrame
        BY <1>1 DEF CadenceInv, LagIsBounded
      <4>5. Period * queue' + next_tick' <= Period * floor' + Period + Lateness + NextFrame'
        BY <1>2, <1>3, <4>1, <4>2, <4>3, <4>4
      <4> QED BY <4>5 DEF LagIsBounded
    <3>2. CASE floor' = queue'
      <4>1. Period * queue' \in Int /\ Period * floor' = Period * queue'
        BY <1>3, <2>2, <3>2
      <4>2. next_tick' \in Int /\ next_tick' <= Period
        BY <1>2, <1>3, <1>6
      <4> QED BY <1>3, <4>1, <4>2 DEF LagIsBounded
    <3> QED BY <2>2, <3>1, <3>2
  <2> QED BY <1>4, <2>3, <2>4 DEF CadenceInv
<1> QED BY <1>2, <1>5, <1>6

(* A stream begins with the backlog there is. *)
LEMMA StartStreamKeeps == CadenceInv /\ StartStream => CadenceInv'
<1> SUFFICES ASSUME CadenceInv, StartStream PROVE CadenceInv'
  OBVIOUS
<1>1. next_tick' = Period
  BY NextTickFacts, PeriodAssumption DEF StartStream, StreamTurn
<1>2. /\ active' = TRUE /\ sleep' \in ActiveTurn .. ActiveTurn + Overrun
      /\ floor' = queue /\ UNCHANGED <<talking, deadline, queue, silent>>
  BY DEF StartStream, StreamTurn, Sleeps, audio
<1>3. CadenceTypeOK'
  BY <1>1, <1>2, PeriodAssumption DEF CadenceInv, CadenceTypeOK
<1>4. LagIsBounded'
  <2>1. Period * floor' = Period * queue'
    BY <1>2
  <2>2. NextFrame' = NextFrame
    BY <1>2 DEF NextFrame
  <2> QED BY <1>1, <1>2, <2>1, <2>2, BacklogTyped, PeriodAssumption DEF CadenceInv, LagIsBounded
<1>5. TurnsAreInTime'
  BY <1>1, <1>2, PeriodAssumption DEF TurnsAreInTime
<1> QED BY <1>3, <1>4, <1>5 DEF CadenceInv

(* A frame is captured: a period more of backlog, a period less of time.   *)
LEMMA CaptureKeeps == CadenceInv /\ Capture => CadenceInv'
<1> SUFFICES ASSUME CadenceInv, Capture PROVE CadenceInv'
  OBVIOUS
<1>1. /\ talking /\ deadline <= 0 /\ queue' = queue + 1 /\ deadline' = deadline + Period
      /\ UNCHANGED <<active, sleep, next_tick, talking, floor, silent>>
  BY DEF Capture, NextDeadline, rtp
<1>2. CadenceTypeOK' /\ TurnsAreInTime'
  BY <1>1, PeriodAssumption DEF CadenceInv, CadenceTypeOK, TurnsAreInTime
<1>3. LagIsBounded'
  <2>1. Period * queue' = Period * queue + Period /\ floor' = floor
    BY <1>1, PeriodAssumption DEF CadenceInv, CadenceTypeOK
  <2>2. NextFrame' = NextFrame + Period
    BY <1>1 DEF NextFrame
  <2> QED BY <1>1, <2>1, <2>2, BacklogTyped, PeriodAssumption DEF CadenceInv, LagIsBounded
<1> QED BY <1>2, <1>3 DEF CadenceInv

THEOREM CadenceInductive == CadenceInv /\ [CadenceNext]_cadenceVars => CadenceInv'
<1> SUFFICES ASSUME CadenceInv, [CadenceNext]_cadenceVars PROVE CadenceInv'
  OBVIOUS
<1> USE PeriodAssumption DEF CadenceInv
<1>1. /\ Period * queue \in Int /\ Period * floor \in Int /\ next_tick \in Int
      /\ NextFrame \in Int /\ NextFrame <= Period
  BY BacklogTyped
<1>2. CASE Elapse
  BY <1>2, ElapseKeeps
<1>3. CASE RtpTurn
  BY <1>3, RtpTurnKeeps
<1>4. CASE StartStream
  BY <1>4, StartStreamKeeps
<1>5. CASE IdlesOrStops
  <2>1. /\ active' = FALSE /\ sleep' \in IdleTurn .. IdleTurn + Overrun
        /\ next_tick' = sleep' + Period
        /\ UNCHANGED <<talking, deadline, queue, floor, silent>>
    BY <1>5 DEF IdlesOrStops, audio
  <2>2. sleep' \in Nat /\ sleep' <= IdleTurn + Overrun
    BY <2>1
  <2>3. CadenceTypeOK'
    BY <2>1, RangeFacts DEF CadenceTypeOK
  <2>4. TurnsAreInTime'
    BY <2>1, <2>2, TurnFacts DEF TurnsAreInTime
  <2> QED BY <2>1, <2>3, <2>4 DEF LagIsBounded
<1>6. CASE Capture
  BY <1>6, CaptureKeeps
<1>7. CASE Talk \/ Listen
  <2>1. /\ deadline' \in {0, Period} /\ talking' \in BOOLEAN
        /\ UNCHANGED <<active, sleep, next_tick, queue, floor, silent>>
    BY <1>7 DEF Talk, Listen, rtp
  <2>2. CadenceTypeOK' /\ TurnsAreInTime'
    BY <2>1 DEF CadenceTypeOK, TurnsAreInTime
  <2>3. NextFrame' = Period
    BY <1>7 DEF Talk, Listen, NextFrame
  <2>4. LagIsBounded'
    BY <1>1, <2>1, <2>3 DEF LagIsBounded
  <2> QED BY <2>2, <2>4
<1>8. CASE UNCHANGED cadenceVars
  BY <1>8 DEF cadenceVars, rtp, audio, CadenceTypeOK, LagIsBounded, TurnsAreInTime, NextFrame
<1> QED BY <1>2, <1>3, <1>4, <1>5, <1>6, <1>7, <1>8 DEF CadenceNext

LEMMA CadenceInvariant == CadenceSpec => []CadenceInv
BY CadenceInitInvariant, CadenceInductive, PTL DEF CadenceSpec

(* The clocks of the two loops stay within what a turn and a late frame    *)
(* allow, for any period, any turns and any lateness.                      *)
THEOREM ClocksTyped == CadenceSpec => []CadenceTypeOK
BY CadenceInvariant, PTL DEF CadenceInv

(* However late the turns of run and maybe_capture_one_frame meet their    *)
(* deadlines, the backlog of a stream grows by no more than Slack over     *)
(* what preceded it and what stalls skipped.                               *)
THEOREM BacklogBounded == CadenceSpec => []BacklogIsBounded
<1> DEFINE n == ActiveTurn + Overrun + Lateness + Period - 1
<1>1. ASSUME CadenceInv, active PROVE queue <= floor + Slack
  <2>1. /\ Period * queue \in Int /\ Period * floor \in Int /\ queue \in Nat /\ floor \in Nat
        /\ NextFrame <= Period /\ NextFrame \in Int
    BY <1>1, BacklogTyped DEF CadenceInv
  <2>2. Period * queue + next_tick <= Period * floor + Period + Lateness + NextFrame
    BY <1>1 DEF CadenceInv, LagIsBounded
  <2>3. next_tick \in Int /\ 0 < next_tick + ActiveTurn + Overrun
    BY <1>1, PeriodAssumption DEF CadenceInv, CadenceTypeOK, TurnsAreInTime
  <2>4. n \in Nat /\ Period * queue <= Period * floor + Period + n
    BY <2>1, <2>2, <2>3, PeriodAssumption
  <2>5. Period * (queue - floor - 1) = Period * queue - Period * floor - Period
    BY <2>1, PeriodAssumption
  <2>6. Period * (queue - floor - 1) <= n /\ queue - floor - 1 \in Int
    BY <2>1, <2>4, <2>5, PeriodAssumption
  <2>7. queue - floor - 1 <= n \div Period
    BY <2>1, <2>4, <2>6, DivisionBounds
  <2>8. n \div Period \in Nat /\ Slack = 1 + n \div Period
    BY <2>4, Division DEF Slack
  <2> HIDE DEF n
  <2> QED BY <2>1, <2>7, <2>8
<1>2. CadenceInv => BacklogIsBounded
  BY <1>1 DEF BacklogIsBounded
<1> QED BY <1>2, CadenceInvariant, PTL
----------------------------------------------------------------------------
(* Silence between the frames of a voice. *)

(* The next tick of a stream is at most a period away. *)
TickIsNear == active => next_tick <= Period

LEMMA TickStaysNear == CadenceInv /\ TickIsNear /\ [CadenceNext]_cadenceVars => TickIsNear'
<1> SUFFICES ASSUME CadenceInv, TickIsNear, [CadenceNext]_cadenceVars, active'
             PROVE  next_tick' <= Period
  BY DEF TickIsNear
<1>1. next_tick \in Int
  BY BacklogTyped DEF CadenceInv
<1>2. CASE Elapse
  BY <1>1, <1>2, PeriodAssumption DEF Elapse, TickIsNear
<1>3. CASE RtpTurn
  <2>1. active /\ next_tick' = NextTick(next_tick)
    BY <1>3 DEF RtpTurn, StreamTurn
  <2> QED BY <1>1, <2>1, NextTickFacts, PeriodAssumption DEF TickIsNear
<1>4. CASE StartStream
  <2>1. next_tick' = NextTick(Period)
    BY <1>4 DEF StartStream, StreamTurn
  <2> QED BY <2>1, NextTickFacts, PeriodAssumption
<1>5. ~ IdlesOrStops
  BY DEF IdlesOrStops
<1>6. CASE Capture \/ Talk \/ Listen \/ UNCHANGED cadenceVars
  BY <1>6 DEF Capture, Talk, Listen, cadenceVars, rtp, TickIsNear
<1> QED BY <1>2, <1>3, <1>4, <1>5, <1>6 DEF CadenceNext

(* How far the backlog and the tick to come are ahead of the next frame.   *)
Headroom == Period * queue + next_tick - deadline

SendsSilence == RtpTurn /\ TicksDue(next_tick) > 0 /\ queue = 0

(* While one talks into a stream the headroom, which is never below a      *)
(* bound, does not shrink; a packet of silence is sent only where it does  *)
(* not exceed Lateness, and adds a period to it.  So in one talk there are *)
(* only so many.                                                           *)
SilenceIsPaidFor ==
    active /\ talking /\ active' /\ talking' =>
        /\ -(ActiveTurn + Overrun + Period) < Headroom /\ Headroom <= Headroom'
        /\ SendsSilence => Headroom <= Lateness /\ Headroom + Period <= Headroom'

LEMMA SilencePays ==
    ASSUME CadenceInv, TickIsNear, CadenceNext, active, talking, active', talking'
    PROVE  /\ Headroom <= Headroom'
           /\ SendsSilence => Headroom <= Lateness /\ Headroom + Period <= Headroom'
<1>1. /\ Period * queue \in Int /\ queue \in Nat /\ next_tick \in Int
      /\ deadline \in Int /\ -Lateness <= deadline
      /\ Period \in Nat \ {0} /\ Lateness \in Nat
  BY BacklogTyped, PeriodAssumption DEF CadenceInv, NextFrame
<1>2. CASE Elapse
  <2>1. next_tick' = next_tick - 1 /\ deadline' = deadline - 1 /\ queue' = queue /\ sleep > 0
    BY <1>2 DEF Elapse
  <2>2. ~ SendsSilence
    BY <2>1 DEF SendsSilence, RtpTurn
  <2> QED BY <1>1, <2>1, <2>2 DEF Headroom
<1>3. CASE RtpTurn
  <2> DEFINE due == TicksDue(next_tick)
  <2>1. deadline' = deadline /\ next_tick' = NextTick(next_tick)
    BY <1>3 DEF RtpTurn, StreamTurn, audio
  <2>2. /\ due \in Nat /\ next_tick' \in Int /\ next_tick' = next_tick + Period * due
        /\ next_tick > 0 => due = 0 /\ next_tick' = next_tick
        /\ next_tick <= 0 => due > 0
    BY <1>1, <2>1, NextTickFacts
  <2>3. due > 0 => queue' = Take
    BY <1>3 DEF RtpTurn, SendOne
  <2>4. due = 0 => queue' = queue
    BY <1>3 DEF RtpTurn
  <2>5. SendsSilence => due > 0 /\ queue = 0
    BY DEF SendsSilence
  <2> HIDE DEF due
  <2>6. due > 0 => Period * due >= Period /\ Period * due \in Int
    <3>1. ASSUME due > 0 PROVE Period * due >= Period /\ Period * due \in Int
      <4>1. PICK d \in Nat : due = d + 1
        <5>1. due - 1 \in Nat /\ due = (due - 1) + 1
          BY <2>2, <3>1
        <5> QED BY <5>1
      <4>2. Period * due = Period * d + Period
        BY <1>1, <4>1
      <4>3. Period * d \in Nat
        BY <1>1, <4>1
      <4> QED BY <1>1, <4>2, <4>3
    <3> QED BY <3>1
  <2>7. CASE due = 0
    <3>1. next_tick' = next_tick /\ ~ SendsSilence
      BY <1>1, <2>2, <2>5, <2>7
    <3> QED BY <1>1, <2>1, <2>4, <2>7, <3>1 DEF Headroom
  <2>8. CASE due > 0 /\ queue = 0
    <3>1. Period * queue = 0 /\ Period * queue' = 0
      BY <1>1, <2>3, <2>8 DEF Take
    <3>2. next_tick + Period <= next_tick'
      BY <1>1, <2>2, <2>6, <2>8
    <3> QED BY <1>1, <2>1, <2>2, <2>8, <3>1, <3>2 DEF Headroom
  <2>9. CASE due > 0 /\ queue # 0
    <3>1. Period * queue' = Period * queue - Period
      <4>1. queue' = queue - 1
        BY <2>3, <2>9 DEF Take
      <4> QED BY <1>1, <4>1
    <3>2. next_tick + Period <= next_tick'
      BY <1>1, <2>2, <2>6, <2>9
    <3> QED BY <1>1, <2>1, <2>2, <2>5, <2>9, <3>1, <3>2 DEF Headroom
  <2> QED BY <2>2, <2>7, <2>8, <2>9
<1>4. CASE StartStream /\ ~ RtpTurn
  <2>1. next_tick' = Period /\ queue' = queue /\ deadline' = deadline
    BY <1>4, NextTickFacts, PeriodAssumption DEF StartStream, StreamTurn, audio
  <2>2. next_tick <= Period
    BY DEF TickIsNear
  <2>3. ~ SendsSilence
    BY <1>4 DEF SendsSilence
  <2> QED BY <1>1, <2>1, <2>2, <2>3 DEF Headroom
<1>5. CASE Capture /\ ~ RtpTurn
  <2>1. /\ queue' = queue + 1 /\ deadline' = deadline + Period /\ next_tick' = next_tick
    BY <1>5 DEF Capture, NextDeadline, rtp
  <2>2. Period * queue' = Period * queue + Period
    BY <1>1, <2>1
  <2>3. ~ SendsSilence
    BY <1>5 DEF SendsSilence
  <2> QED BY <1>1, <2>1, <2>2, <2>3 DEF Headroom
<1>6. ~ IdlesOrStops /\ ~ Talk /\ ~ Listen
  BY DEF IdlesOrStops, Talk, Listen
<1> QED BY <1>2, <1>3, <1>4, <1>5, <1>6 DEF CadenceNext

(* The paces of run and maybe_capture_one_frame: while the button is held  *)
(* in a stream, each packet of silence adds to what keeps the next from    *)
(* being silence, for any turns, overruns and lateness.  This is what      *)
(* VoiceIsSteady needs of every step.                                      *)
THEOREM SilenceIsPaid == CadenceSpec => [][SilenceIsPaidFor]_cadenceVars
<1>1. CadenceInit => TickIsNear
  BY DEF CadenceInit, TickIsNear
<1>2. CadenceInv /\ TickIsNear /\ [CadenceNext]_cadenceVars => [SilenceIsPaidFor]_cadenceVars
  <2> SUFFICES ASSUME CadenceInv, TickIsNear, CadenceNext, active, talking, active', talking'
               PROVE  /\ -(ActiveTurn + Overrun + Period) < Headroom /\ Headroom <= Headroom'
                      /\ SendsSilence => Headroom <= Lateness /\ Headroom + Period <= Headroom'
    BY DEF SilenceIsPaidFor
  <2>1. -(ActiveTurn + Overrun + Period) < Headroom
    <3>1. Period * queue \in Nat /\ deadline \in Int /\ deadline <= Period
      BY PeriodAssumption DEF CadenceInv, CadenceTypeOK
    <3>2. next_tick \in Int /\ -(ActiveTurn + Overrun) < next_tick
      BY PeriodAssumption DEF CadenceInv, CadenceTypeOK, TurnsAreInTime
    <3> QED BY <3>1, <3>2, PeriodAssumption DEF Headroom
  <2> QED BY <2>1, SilencePays
<1> QED BY <1>1, <1>2, TickStaysNear, CadenceInvariant, PTL DEF CadenceSpec
=============================================================================
