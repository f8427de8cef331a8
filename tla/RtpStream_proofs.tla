--------------------------- MODULE RtpStream_proofs ---------------------------
(***************************************************************************)
(* Theorems about RtpStream, for every set of callers, every capacity of   *)
(* the jitter buffer and every bound on the channels, and about Playout,   *)
(* for every capacity, every round of sequence numbers and every lateness. *)
(***************************************************************************)
EXTENDS RtpStream, Playout, SequenceTheorems, FiniteSetTheorems, WellFoundedInduction, TLAPS

LineOK ==
    /\ line \in [state : PhoneState, caller : Caller \cup {NoCaller}]
    /\ line.state = "Idle" => line.caller = NoCaller

RtpCommand == [cmd : {"StartStream", "StopStream"}, remote : Caller \cup {NoCaller}]

RtpOK ==
    /\ rtp \in [active : BOOLEAN, signaled : Caller \cup {NoCaller}, observed : Caller \cup {NoCaller}]
    /\ rtp.observed \in {NoCaller, rtp.signaled}

(* The last command that the RTP task will not ignore is for the caller of *)
(* the line ...                                                            *)
CommandsServeLine ==
    /\ rtp_cmds \in Seq(RtpCommand)
    /\ \A i \in DOMAIN rtp_cmds : Decides(i, rtp_cmds) =>
          \/ rtp_cmds[i] = Stop
          \/ line.caller # NoCaller /\ rtp_cmds[i] = Start(line.caller)

(* ... and where there is none, so is what it does. *)
StreamServesLine ==
    Ignored(rtp_cmds) /\ rtp.active => line.caller # NoCaller /\ rtp.signaled = line.caller

StreamInv == LineOK /\ RtpOK /\ CommandsServeLine /\ StreamServesLine

LEMMA AppendFacts ==
    ASSUME NEW S, NEW s \in Seq(S), NEW e \in S
    PROVE  /\ Append(s, e) \in Seq(S) /\ DOMAIN Append(s, e) = 1 .. Len(s) + 1
           /\ DOMAIN s = 1 .. Len(s) /\ Len(s) \in Nat
           /\ \A i \in 1 .. Len(s) : Append(s, e)[i] = s[i]
           /\ Append(s, e)[Len(s) + 1] = e
OBVIOUS

LEMMA CommandTypes ==
    /\ Stop \in RtpCommand /\ Stop # Unparsable
    /\ \A caller \in Caller \cup {NoCaller} : Start(caller) \in RtpCommand
    /\ Unparsable \in RtpCommand
BY DEF Stop, Start, Unparsable, RtpCommand

LEMMA StreamInit == Init => StreamInv
<1> SUFFICES ASSUME Init PROVE StreamInv
  OBVIOUS
<1>1. LineOK
  BY DEF Init, NoLine, PhoneState, LineOK
<1>2. rtp_cmds = <<>> /\ rtp = Stopped
  BY DEF Init
<1>3. RtpOK
  BY <1>2 DEF RtpOK, Stopped
<1>4. CommandsServeLine
  BY <1>2 DEF CommandsServeLine, Decides
<1>5. StreamServesLine
  BY <1>2 DEF StreamServesLine, Stopped
<1> QED BY <1>1, <1>3, <1>4, <1>5 DEF StreamInv

(* The SIP task appends a command that is not ignored: it is for the       *)
(* caller of the line ...                                                  *)
LEMMA DecisiveKeeps ==
    ASSUME StreamInv, UNCHANGED rtp, LineOK',
           NEW cmd \in RtpCommand, cmd # Unparsable,
           rtp_cmds' = Append(rtp_cmds, cmd),
           cmd = Stop \/ (line'.caller # NoCaller /\ cmd = Start(line'.caller))
    PROVE  StreamInv'
<1>1. /\ rtp_cmds' \in Seq(RtpCommand) /\ Len(rtp_cmds) \in Nat
      /\ DOMAIN rtp_cmds' = 1 .. Len(rtp_cmds) + 1 /\ rtp_cmds'[Len(rtp_cmds) + 1] = cmd
  BY AppendFacts DEF StreamInv, CommandsServeLine
<1>2. ASSUME NEW i \in DOMAIN rtp_cmds', Decides(i, rtp_cmds')
      PROVE  i = Len(rtp_cmds) + 1
  BY <1>1, <1>2 DEF Decides
<1>3. CommandsServeLine'
  BY <1>1, <1>2 DEF CommandsServeLine
<1>4. StreamServesLine'
  BY <1>1 DEF StreamServesLine, Ignored
<1>5. RtpOK'
  BY DEF StreamInv, RtpOK
<1> QED BY <1>3, <1>4, <1>5 DEF StreamInv

(* ... or one that is: the caller of the line stays the same.              *)
LEMMA IgnoredKeeps ==
    ASSUME StreamInv, UNCHANGED rtp, LineOK',
           line'.caller # NoCaller, line'.caller = line.caller,
           rtp_cmds' = Append(rtp_cmds, Unparsable)
    PROVE  StreamInv'
<1>1. /\ rtp_cmds' \in Seq(RtpCommand) /\ Len(rtp_cmds) \in Nat
      /\ DOMAIN rtp_cmds = 1 .. Len(rtp_cmds)
      /\ DOMAIN rtp_cmds' = 1 .. Len(rtp_cmds) + 1
      /\ \A i \in 1 .. Len(rtp_cmds) : rtp_cmds'[i] = rtp_cmds[i]
      /\ rtp_cmds'[Len(rtp_cmds) + 1] = Unparsable
  BY AppendFacts, CommandTypes DEF StreamInv, CommandsServeLine
<1>2. ASSUME NEW i \in DOMAIN rtp_cmds', Decides(i, rtp_cmds')
      PROVE  i \in DOMAIN rtp_cmds /\ Decides(i, rtp_cmds) /\ rtp_cmds'[i] = rtp_cmds[i]
  <2>1. i \in DOMAIN rtp_cmds /\ rtp_cmds'[i] = rtp_cmds[i]
    BY <1>1, <1>2 DEF Decides
  <2>2. \A j \in DOMAIN rtp_cmds : j \in DOMAIN rtp_cmds' /\ rtp_cmds'[j] = rtp_cmds[j]
    BY <1>1
  <2> QED BY <1>2, <2>1, <2>2 DEF Decides
<1>3. CommandsServeLine'
  BY <1>1, <1>2 DEF StreamInv, CommandsServeLine
<1>4. Ignored(rtp_cmds') => Ignored(rtp_cmds)
  BY <1>1 DEF Ignored
<1>5. StreamServesLine'
  BY <1>4 DEF StreamInv, StreamServesLine
<1>6. RtpOK'
  BY DEF StreamInv, RtpOK
<1> QED BY <1>3, <1>5, <1>6 DEF StreamInv

LEMMA StreamInductive == StreamInv /\ [Next]_vars => StreamInv'
<1> SUFFICES ASSUME StreamInv, [Next]_vars PROVE StreamInv'
  OBVIOUS
<1>1. CASE \E caller \in Caller : Rings(caller)
  <2>1. PICK caller \in Caller : Rings(caller)
    BY <1>1
  <2>2. line.state = "Idle" /\ line' = [state |-> "Ringing", caller |-> caller]
        /\ rtp_cmds' = rtp_cmds /\ rtp' = rtp
    BY <2>1 DEF Rings
  <2>3. LineOK'
    BY <2>2 DEF LineOK, PhoneState
  <2>4. CommandsServeLine'
    BY <2>2 DEF StreamInv, CommandsServeLine, LineOK
  <2>5. StreamServesLine'
    BY <2>2 DEF StreamInv, StreamServesLine, LineOK
  <2>6. RtpOK'
    BY <2>2 DEF StreamInv, RtpOK
  <2> QED BY <2>3, <2>4, <2>5, <2>6 DEF StreamInv
<1>a. CASE EstablishesWithoutContext
  <2>1. /\ line.caller = NoCaller /\ line' = [line EXCEPT !.state = "Established"]
        /\ rtp_cmds' = rtp_cmds /\ rtp' = rtp
    BY <1>a DEF EstablishesWithoutContext
  <2>2. LineOK' /\ line'.caller = NoCaller
    BY <2>1 DEF StreamInv, LineOK, PhoneState
  <2>3. CommandsServeLine' /\ StreamServesLine' /\ RtpOK'
    BY <2>1, <2>2 DEF StreamInv, CommandsServeLine, StreamServesLine, RtpOK
  <2> QED BY <2>2, <2>3 DEF StreamInv
<1>2. ASSUME UNCHANGED rtp, LineOK', line'.caller # NoCaller, line'.caller = line.caller, StartOrHold
      PROVE  StreamInv'
  <2>1. PICK cmd \in {Start(line.caller), Unparsable, Stop} : rtp_cmds' = Append(rtp_cmds, cmd)
    BY <1>2 DEF StartOrHold, Command
  <2>2. line.caller \in Caller \cup {NoCaller}
    BY DEF StreamInv, LineOK
  <2>3. cmd \in RtpCommand
    BY <2>2, CommandTypes
  <2>4. CASE cmd = Unparsable
    BY <1>2, <2>1, <2>4, IgnoredKeeps
  <2>5. CASE cmd # Unparsable
    BY <1>2, <2>1, <2>3, <2>5, DecisiveKeeps
  <2> QED BY <2>4, <2>5
<1>3. CASE Establishes
  <2>1. /\ line.caller # NoCaller /\ line' = [line EXCEPT !.state = "Established"]
        /\ rtp' = rtp /\ StartOrHold
    BY <1>3 DEF Establishes
  <2>2. LineOK' /\ line'.caller # NoCaller /\ line'.caller = line.caller
    BY <2>1 DEF StreamInv, LineOK, PhoneState
  <2> QED BY <1>2, <2>1, <2>2
<1>4. CASE Renegotiates
  <2>1. rtp' = rtp /\ line' = line /\ line.caller # NoCaller /\ StartOrHold
    BY <1>4 DEF Renegotiates
  <2>2. LineOK'
    BY <2>1 DEF StreamInv, LineOK
  <2> QED BY <1>2, <2>1, <2>2
<1>5. CASE Ends
  <2>1. rtp' = rtp /\ line' = NoLine /\ rtp_cmds' = Append(rtp_cmds, Stop)
    BY <1>5 DEF Ends, Command
  <2>2. LineOK'
    BY <2>1 DEF LineOK, NoLine, PhoneState
  <2> QED BY <2>1, <2>2, CommandTypes, DecisiveKeeps
<1>6. CASE RtpPollCommands
  <2>1. /\ rtp_cmds' = <<>> /\ line' = line
        /\ \/ Ignored(rtp_cmds) /\ rtp' = rtp
           \/ \E i \in DOMAIN rtp_cmds :
                  Decides(i, rtp_cmds) /\ rtp' = HandleRtpCommand(rtp_cmds[i])
    BY <1>6 DEF RtpPollCommands
  <2>2. LineOK'
    BY <2>1 DEF StreamInv, LineOK
  <2>3. CommandsServeLine'
    BY <2>1 DEF CommandsServeLine, Decides
  <2>4. CASE Ignored(rtp_cmds) /\ rtp' = rtp
    <3>1. RtpOK' /\ StreamServesLine'
      BY <2>1, <2>4 DEF StreamInv, RtpOK, StreamServesLine
    <3> QED BY <2>2, <2>3, <3>1 DEF StreamInv
  <2>5. ASSUME NEW i \in DOMAIN rtp_cmds, Decides(i, rtp_cmds),
               rtp' = HandleRtpCommand(rtp_cmds[i])
        PROVE  StreamInv'
    <3>1. CASE rtp_cmds[i] = Stop
      <4>1. rtp' = Stopped
        BY <2>5, <3>1 DEF HandleRtpCommand, Stop
      <4>2. RtpOK' /\ StreamServesLine'
        BY <4>1 DEF RtpOK, StreamServesLine, Stopped
      <4> QED BY <2>2, <2>3, <4>2 DEF StreamInv
    <3>2. CASE line.caller # NoCaller /\ rtp_cmds[i] = Start(line.caller)
      <4>1. rtp' = [active |-> TRUE, signaled |-> line.caller, observed |-> NoCaller]
        BY <2>5, <3>2 DEF HandleRtpCommand, Start
      <4>2. line.caller \in Caller \cup {NoCaller}
        BY DEF StreamInv, LineOK
      <4>3. RtpOK'
        BY <4>1, <4>2 DEF RtpOK
      <4>4. StreamServesLine'
        BY <2>1, <3>2, <4>1 DEF StreamServesLine
      <4> QED BY <2>2, <2>3, <4>3, <4>4 DEF StreamInv
    <3> QED BY <2>5, <3>1, <3>2 DEF StreamInv, CommandsServeLine
  <2> QED BY <2>1, <2>4, <2>5
<1>7. CASE \E p \in Packet : RtpReceive(p)
  <2>1. PICK p \in Packet : RtpReceive(p)
    BY <1>7
  <2>2. /\ rtp' = [rtp EXCEPT !.observed = p.from] /\ p.from = rtp.signaled
        /\ line' = line /\ rtp_cmds' = rtp_cmds
    BY <2>1 DEF RtpReceive, Accepts, sip
  <2>3. LineOK' /\ CommandsServeLine'
    BY <2>2 DEF StreamInv, LineOK, CommandsServeLine
  <2>4. RtpOK' /\ rtp'.active = rtp.active /\ rtp'.signaled = rtp.signaled
    BY <2>2 DEF StreamInv, RtpOK
  <2>5. StreamServesLine'
    BY <2>2, <2>4 DEF StreamInv, StreamServesLine
  <2> QED BY <2>3, <2>4, <2>5 DEF StreamInv
<1>8. CASE UNCHANGED <<line, rtp_cmds, rtp>>
  BY <1>8 DEF StreamInv, LineOK, RtpOK, CommandsServeLine, StreamServesLine
<1>9. AudioPollCommand \/ AudioCommandsDone \/ AudioPollMedia \/ AudioMediaDone \/ AudioInterrupted
      \/ AudioDrained \/ AudioSkips \/ AudioPlays \/ UNCHANGED vars => UNCHANGED <<line, rtp_cmds, rtp>>
  BY DEF AudioPollCommand, AudioCommandsDone, AudioPollMedia, AudioMediaDone, AudioInterrupted,
         AudioDrained, AudioSkips, AudioPlays, vars, sip
<1> QED BY <1>1, <1>3, <1>4, <1>5, <1>6, <1>7, <1>8, <1>9, <1>a DEF Next

(* What the microphone hears goes to the caller of the line or to nobody,  *)
(* for any packets that reach the socket, once the RTP task has handled    *)
(* its commands.                                                           *)
THEOREM MicrophoneReachesCaller == Spec => []SendsToTheCaller
<1>1. StreamInv => SendsToTheCaller
  BY DEF StreamInv, RtpOK, StreamServesLine, SendsToTheCaller, Destination, Ignored
<1> QED BY <1>1, StreamInit, StreamInductive, PTL DEF Spec

----------------------------------------------------------------------------
(* The jitter buffer. *)

(* A set of sequence numbers has a least one. *)
LEMMA LeastExists ==
    ASSUME NEW T, T \subseteq Nat, T # {}
    PROVE  Min(T) \in T
<1> DEFINE R == { ss \in Nat \X Nat : ss[1] < ss[2] }
<1>1. IsWellFoundedOn(R, Nat)
  BY NatLessThanWellFounded DEF OpToRel
<1>2. \A x, y \in Nat : <<y, x>> \in R <=> y < x
  OBVIOUS
<1> HIDE DEF R
<1>3. PICK x \in T : \A y \in T : ~ (<<y, x>> \in R)
  BY <1>1, WFMin
<1>4. ASSUME NEW y \in T PROVE x <= y
  <2>1. x \in Nat /\ y \in Nat
    OBVIOUS
  <2>2. ~ (y < x)
    BY <1>2, <1>3, <2>1, Zenon
  <2> QED BY <2>1, <2>2
<1> QED BY <1>4 DEF Min

(* The buffers that hold frames of F. *)
Buffer(F) ==
    [next_seq : 0 .. SeqModulus - 1 \cup {None},
     frames   : { s \in Seq(F) : Len(s) <= Capacity }]

LEMMA EmptyBufferTyped == ASSUME NEW F PROVE EmptyBuffer \in Buffer(F)
BY BufferAssumption DEF EmptyBuffer, Buffer

(* A pushed frame joins frames that were there. *)
LEMMA PushKeeps ==
    ASSUME NEW F, NEW G, NEW b \in Buffer(F), NEW frame \in F, frame \in G,
           \A i \in DOMAIN b.frames : b.frames[i] \in G
    PROVE  /\ Push(b, frame) \in Buffer(F)
           /\ \A i \in DOMAIN Push(b, frame).frames : Push(b, frame).frames[i] \in G
<1> DEFINE frames == b.frames
           room == IF Full(frames) THEN Tail(frames) ELSE frames
           after == IF frame.seq \in Seqs(room) THEN room ELSE Append(room, frame)
<1>1. frames \in Seq(F) /\ Len(frames) <= Capacity
  BY DEF Buffer
<1>2. /\ room \in Seq(F) /\ Len(room) < Capacity
      /\ \A i \in DOMAIN room : room[i] \in G
  <2>1. CASE Full(frames)
    <3>1. frames # <<>> /\ room = Tail(frames) /\ Len(frames) = Capacity
      BY <1>1, <2>1, BufferAssumption DEF Full
    <3>2. /\ Tail(frames) \in Seq(F) /\ Len(Tail(frames)) = Len(frames) - 1
          /\ \A i \in 1 .. Len(Tail(frames)) : Tail(frames)[i] = frames[i + 1] /\ i + 1 \in DOMAIN frames
          /\ DOMAIN Tail(frames) = 1 .. Len(Tail(frames))
      BY <1>1, <3>1
    <3>3. Len(Tail(frames)) < Capacity
      BY <1>1, <3>1, <3>2, BufferAssumption
    <3>4. \A i \in DOMAIN Tail(frames) : Tail(frames)[i] \in G
      BY <3>2
    <3> HIDE DEF room
    <3> QED BY <3>1, <3>2, <3>3, <3>4
  <2>2. CASE ~ Full(frames)
    BY <1>1, <2>2, BufferAssumption DEF Full
  <2> QED BY <2>1, <2>2
<1> HIDE DEF room
<1>3. /\ after \in Seq(F) /\ Len(after) <= Capacity
      /\ \A i \in DOMAIN after : after[i] \in G
  <2>1. CASE frame.seq \in Seqs(room)
    BY <1>2, <2>1, BufferAssumption
  <2>2. CASE frame.seq \notin Seqs(room)
    <3>1. after = Append(room, frame)
      BY <2>2
    <3>2. /\ Append(room, frame) \in Seq(F) /\ Len(Append(room, frame)) = Len(room) + 1
          /\ \A i \in 1 .. Len(room) : Append(room, frame)[i] = room[i]
          /\ Append(room, frame)[Len(room) + 1] = frame
          /\ DOMAIN Append(room, frame) = 1 .. Len(room) + 1
          /\ DOMAIN room = 1 .. Len(room) /\ Len(room) \in Nat
      BY <1>2
    <3>3. \A i \in 1 .. Len(room) + 1 : i \in 1 .. Len(room) \/ i = Len(room) + 1
      BY <3>2
    <3>4. Len(Append(room, frame)) <= Capacity
      BY <1>2, <3>2, BufferAssumption
    <3>5. \A i \in DOMAIN Append(room, frame) : Append(room, frame)[i] \in G
      BY <1>2, <3>2, <3>3
    <3> HIDE DEF after
    <3> QED BY <3>1, <3>2, <3>4, <3>5
  <2> QED BY <2>1, <2>2
<1>4. Push(b, frame) = [b EXCEPT !.frames = after]
  BY DEF Push, room
<1> HIDE DEF after
<1>5. Push(b, frame).frames = after /\ Push(b, frame) \in Buffer(F)
  BY <1>3, <1>4 DEF Buffer
<1> QED BY <1>3, <1>5

(* Frames less one are frames that were there. *)
LEMMA RemoveKeeps ==
    ASSUME NEW F, NEW G, NEW s \in Seq(F), NEW i \in DOMAIN s,
           \A j \in DOMAIN s : s[j] \in G
    PROVE  /\ RemoveAt(s, i) \in Seq(F) /\ Len(RemoveAt(s, i)) = Len(s) - 1
           /\ \A j \in DOMAIN RemoveAt(s, i) : RemoveAt(s, i)[j] \in G
<1> DEFINE H == F \cap G
           before == SubSeq(s, 1, i - 1)
           behind == SubSeq(s, i + 1, Len(s))
<1>1. i \in 1 .. Len(s) /\ Len(s) \in Nat /\ \A j \in 1 .. Len(s) : s[j] \in H
  OBVIOUS
<1> HIDE DEF H
<1>2. before \in Seq(H) /\ Len(before) = i - 1
  <2>1. \A j \in 1 .. i - 1 : s[j] \in H
    BY <1>1
  <2> QED BY <1>1, <2>1, SubSeqProperties
<1>3. behind \in Seq(H) /\ Len(behind) = Len(s) - i
  <2>1. \A j \in i + 1 .. Len(s) : s[j] \in H
    BY <1>1
  <2>2. /\ behind \in Seq(H)
        /\ Len(behind) = IF i + 1 <= Len(s) THEN Len(s) - (i + 1) + 1 ELSE 0
    BY <1>1, <2>1, SubSeqProperties
  <2> QED BY <1>1, <2>2
<1> HIDE DEF before, behind
<1>4. before \o behind \in Seq(H) /\ Len(before \o behind) = Len(s) - 1
  BY <1>1, <1>2, <1>3, ConcatProperties
<1>5. RemoveAt(s, i) = before \o behind
  BY DEF RemoveAt, before, behind
<1>6. \A t \in Seq(H) : t \in Seq(F) /\ \A j \in DOMAIN t : t[j] \in G
  BY DEF H
<1> QED BY <1>4, <1>5, <1>6

LEMMA SeqsTyped ==
    ASSUME NEW F, \A f \in F : f.seq \in Nat, NEW frames \in Seq(F)
    PROVE  Seqs(frames) \subseteq Nat
<1>1. \A i \in DOMAIN frames : frames[i] \in F
  OBVIOUS
<1>2. \A i \in DOMAIN frames : frames[i].seq \in Nat
  BY <1>1
<1> QED BY <1>2 DEF Seqs

(* What is played is in the b, ... *)
LEMMA PlayedIsThere ==
    ASSUME NEW F, \A f \in F : f.seq \in Nat, NEW b \in Buffer(F), Played(b) # None
    PROVE  /\ Played(b) \in Nat
           /\ Position(b.frames, Played(b)) \in DOMAIN b.frames
<1> DEFINE frames == b.frames
<1>1. frames \in Seq(F) /\ Seqs(frames) \subseteq Nat
  BY SeqsTyped DEF Buffer
<1>2. Played(b) \in Seqs(frames)
  <2>1. CASE Full(frames)
    <3>1. 1 \in DOMAIN frames
      BY <1>1, <2>1, BufferAssumption DEF Full
    <3>2. Seqs(frames) # {}
      BY <3>1 DEF Seqs
    <3>3. Min(Seqs(frames)) \in Seqs(frames)
      BY <1>1, <3>2, LeastExists
    <3> QED BY <2>1, <3>3 DEF Played
  <2>2. CASE ~ Full(frames)
    BY <2>2 DEF Played
  <2> QED BY <2>1, <2>2
<1>3. PICK i \in DOMAIN frames : frames[i].seq = Played(b)
  BY <1>2 DEF Seqs
<1>4. Position(frames, Played(b)) \in DOMAIN frames
  BY <1>3 DEF Position
<1> QED BY <1>1, <1>2, <1>4

LEMMA NextSeqTyped ==
    ASSUME NEW seq \in Nat
    PROVE  (seq + 1) % SeqModulus \in 0 .. SeqModulus - 1 \cup {None}
BY BufferAssumption

LEMMA ExpectedTyped ==
    ASSUME NEW F, \A f \in F : f.seq \in Nat, NEW b \in Buffer(F)
    PROVE  Expected(b) \in Nat \cup {None}
<1>1. CASE b.next_seq = None /\ b.frames # <<>>
  <2>1. b.frames \in Seq(F) /\ 1 \in DOMAIN b.frames
    BY <1>1 DEF Buffer
  <2>2. Seqs(b.frames) \subseteq Nat /\ Seqs(b.frames) # {}
    BY <2>1, SeqsTyped DEF Seqs
  <2>3. Min(Seqs(b.frames)) \in Nat
    BY <2>2, LeastExists
  <2> QED BY <1>1, <2>3 DEF Expected
<1>2. CASE ~ (b.next_seq = None /\ b.frames # <<>>)
  <2>1. b.next_seq \in Nat \cup {None}
    BY BufferAssumption DEF Buffer
  <2> QED BY <1>2, <2>1 DEF Expected
<1> QED BY <1>1, <1>2

(* ... and what stays was there. *)
LEMMA PopKeeps ==
    ASSUME NEW F, \A f \in F : f.seq \in Nat, NEW G, NEW b \in Buffer(F),
           \A i \in DOMAIN b.frames : b.frames[i] \in G
    PROVE  /\ Pop(b) \in Buffer(F)
           /\ \A i \in DOMAIN Pop(b).frames : Pop(b).frames[i] \in G
<1> DEFINE played == Played(b)
           frames == b.frames
<1>1. frames \in Seq(F) /\ Len(frames) <= Capacity /\ Len(frames) \in Nat
  BY DEF Buffer
<1>2. CASE played # None
  <2> DEFINE i == Position(frames, played)
             left == RemoveAt(frames, i)
  <2>1. played \in Nat /\ i \in DOMAIN frames
    BY <1>2, PlayedIsThere
  <2>2. left \in Seq(F) /\ Len(left) = Len(frames) - 1 /\ \A j \in DOMAIN left : left[j] \in G
    BY <1>1, <2>1, RemoveKeeps
  <2>3. Len(left) <= Capacity
    BY <1>1, <2>2, BufferAssumption
  <2>4. Pop(b) = [next_seq |-> (played + 1) % SeqModulus, frames |-> left]
    BY <1>2 DEF Pop
  <2> HIDE DEF left, played
  <2>5. Pop(b) \in Buffer(F)
    BY <2>1, <2>2, <2>3, <2>4, NextSeqTyped DEF Buffer
  <2> QED BY <2>2, <2>4, <2>5
<1>3. CASE played = None /\ Expected(b) = None
  BY <1>3 DEF Pop
<1>4. CASE played = None /\ Expected(b) # None
  <2>1. Pop(b) = [b EXCEPT !.next_seq = (Expected(b) + 1) % SeqModulus]
    BY <1>4 DEF Pop
  <2>2. (Expected(b) + 1) % SeqModulus \in 0 .. SeqModulus - 1 \cup {None}
    BY <1>4, ExpectedTyped, NextSeqTyped
  <2>3. Pop(b) \in Buffer(F) /\ Pop(b).frames = frames
    BY <2>1, <2>2 DEF Buffer
  <2> QED BY <2>3
<1> QED BY <1>2, <1>3, <1>4
----------------------------------------------------------------------------
(* The media of a call. *)

MediaTyped ==
    /\ overlap \in BOOLEAN /\ listening \in BOOLEAN
    /\ audio_cmds \in Seq(PhoneState) /\ media_in \in Seq(Packet)
    /\ turn \in {"commands", "media", "playout", "drain"}
    /\ call_state \in PhoneState
    /\ jitter \in Buffer(Packet)
    /\ tuned \in Caller \cup {NoCaller}

LEMMA PacketTyped == \A p \in Packet : p.seq \in Nat /\ p.from \in Caller
BY BufferAssumption DEF Packet

LEMMA TailFacts ==
    ASSUME NEW S, NEW s \in Seq(S), s # <<>>
    PROVE  /\ Tail(s) \in Seq(S) /\ Head(s) \in S /\ Head(s) = s[1] /\ 1 \in DOMAIN s
           /\ DOMAIN s = 1 .. Len(s) /\ Len(s) \in Nat
           /\ DOMAIN Tail(s) = 1 .. Len(s) - 1
           /\ \A i \in DOMAIN Tail(s) : i + 1 \in DOMAIN s /\ Tail(s)[i] = s[i + 1]
OBVIOUS

LEMMA MediaInit == Init => MediaTyped
<1> SUFFICES ASSUME Init PROVE MediaTyped
  OBVIOUS
<1>1. "Idle" \in PhoneState
  BY DEF PhoneState
<1>2. audio_cmds \in Seq(PhoneState) /\ media_in \in Seq(Packet)
  BY <1>1 DEF Init
<1>3. jitter \in Buffer(Packet)
  BY EmptyBufferTyped DEF Init
<1> QED BY <1>1, <1>2, <1>3 DEF Init, MediaTyped

LEMMA MediaInductive == MediaTyped /\ [Next]_vars => MediaTyped'
<1> SUFFICES ASSUME MediaTyped, [Next]_vars PROVE MediaTyped'
  OBVIOUS
<1> USE DEF MediaTyped
<1>1. ASSUME NEW state \in PhoneState, Tell(state) PROVE audio_cmds' \in Seq(PhoneState)
  BY <1>1, AppendFacts DEF Tell
<1>2. CASE \E caller \in Caller : Rings(caller)
  BY <1>1, <1>2 DEF Rings, audio, PhoneState
<1>3. CASE Establishes
  BY <1>1, <1>3 DEF Establishes, audio, PhoneState
<1>4. CASE Renegotiates
  BY <1>4 DEF Renegotiates, audio
<1>5. CASE Ends
  BY <1>1, <1>5 DEF Ends, audio, PhoneState
<1>6. CASE RtpPollCommands
  BY <1>6 DEF RtpPollCommands, audio
<1>7. CASE \E p \in Packet : RtpReceive(p)
  BY <1>7, AppendFacts DEF RtpReceive, sip, audio
<1>8. CASE AudioPollCommand
  <2>1. Tail(audio_cmds) \in Seq(PhoneState) /\ Head(audio_cmds) \in PhoneState
    BY <1>8, TailFacts DEF AudioPollCommand
  <2> QED BY <1>8, <2>1, EmptyBufferTyped DEF AudioPollCommand, HandleCommand, ResetBuffer
<1>9. CASE AudioPollMedia
  <2>1. Tail(media_in) \in Seq(Packet) /\ Head(media_in) \in Packet
    BY <1>9, TailFacts DEF AudioPollMedia
  <2>2. \A i \in DOMAIN jitter.frames : jitter.frames[i] \in Packet
    BY DEF Buffer
  <2>3. Push(jitter, Head(media_in)) \in Buffer(Packet)
    BY <2>1, <2>2, PushKeeps
  <2> QED BY <1>9, <2>1, <2>3 DEF AudioPollMedia, sip
<1>10. CASE AudioPlays
  <2>1. jitter.frames \in Seq(Packet) /\ \A i \in DOMAIN jitter.frames : jitter.frames[i] \in Packet
    BY DEF Buffer
  <2>2. Pop(jitter) \in Buffer(Packet)
    BY <2>1, PopKeeps, PacketTyped
  <2>3. tuned' \in Caller \cup {NoCaller}
    <3>1. CASE Played(jitter) = None
      BY <1>10, <3>1 DEF AudioPlays
    <3>2. CASE Played(jitter) # None
      <4>1. Position(jitter.frames, Played(jitter)) \in DOMAIN jitter.frames
        BY <3>2, PlayedIsThere, PacketTyped
      <4> QED BY <1>10, <2>1, <3>2, <4>1, PacketTyped DEF AudioPlays
    <3> QED BY <3>1, <3>2
  <2> QED BY <1>10, <2>2, <2>3 DEF AudioPlays, sip
<1>11. CASE AudioCommandsDone \/ AudioInterrupted \/ AudioDrained \/ AudioSkips
  BY <1>11 DEF AudioCommandsDone, AudioInterrupted, AudioDrained, AudioSkips, sip
<1>12. CASE AudioMediaDone
  BY <1>12 DEF AudioMediaDone, sip
<1>13. CASE UNCHANGED vars
  BY <1>13 DEF vars, sip, audio
<1>14. CASE EstablishesWithoutContext
  BY <1>1, <1>14 DEF EstablishesWithoutContext, audio, PhoneState
<1> QED
  BY <1>2, <1>3, <1>4, <1>5, <1>6, <1>7, <1>8, <1>9, <1>10, <1>11, <1>12, <1>13, <1>14 DEF Next

(* The channels, the RTP task, the audio task and its buffer keep their    *)
(* types: the buffer never holds more than its capacity.                   *)
THEOREM TypeCorrect == Spec => []TypeOK
<1>1. StreamInv /\ MediaTyped => TypeOK
  BY DEF StreamInv, LineOK, RtpOK, CommandsServeLine, RtpCommand, MediaTyped, Buffer, TypeOK
<1> QED BY <1>1, StreamInit, StreamInductive, MediaInit, MediaInductive, PTL DEF Spec

----------------------------------------------------------------------------
(* In a call that found the channels empty, what is on its way is for its  *)
(* caller, and from him ...                                                *)
OfTheCall == { p \in Packet : p.from = line.caller }

CommandOfTheCall == {Stop, Unparsable, Start(line.caller)}

ChannelsServeCall ==
    line.caller # NoCaller /\ ~ overlap =>
        /\ \A i \in DOMAIN rtp_cmds : rtp_cmds[i] \in CommandOfTheCall
        /\ rtp.active => rtp.signaled = line.caller
        /\ \A i \in DOMAIN media_in : media_in[i] \in OfTheCall

(* ... and so are the frames that the audio task has, if it will not reset *)
(* its buffer.                                                             *)
BufferOfTheCall ==
    /\ \A i \in DOMAIN jitter.frames : jitter.frames[i] \in OfTheCall
    /\ tuned \in {NoCaller, line.caller}

WillReset == \E i \in DOMAIN audio_cmds : audio_cmds[i] # "Established"

BufferServesCall == line.caller # NoCaller /\ ~ overlap => WillReset \/ BufferOfTheCall

TypedInv == StreamInv /\ MediaTyped

LEMMA ChannelsInductive ==
    TypedInv /\ ChannelsServeCall /\ [Next]_vars => ChannelsServeCall'
<1> SUFFICES ASSUME TypedInv, ChannelsServeCall, [Next]_vars,
                    line'.caller # NoCaller, ~ overlap'
             PROVE  /\ \A i \in DOMAIN rtp_cmds' : rtp_cmds'[i] \in CommandOfTheCall'
                    /\ rtp'.active => rtp'.signaled = line'.caller
                    /\ \A i \in DOMAIN media_in' : media_in'[i] \in OfTheCall'
  BY DEF ChannelsServeCall
<1>1. CASE \E caller \in Caller : Rings(caller)
  <2>1. /\ line.state = "Idle" /\ rtp_cmds = <<>> /\ media_in = <<>>
        /\ UNCHANGED <<rtp_cmds, media_in, rtp>>
    BY <1>1 DEF Rings
  <2>2. ~ rtp.active
    BY <2>1 DEF TypedInv, StreamInv, StreamServesLine, LineOK, Ignored
  <2> QED BY <2>1, <2>2
<1>2. ASSUME line.caller # NoCaller, ~ overlap, line'.caller = line.caller, UNCHANGED <<rtp, media_in>>,
             StartOrHold
      PROVE  /\ \A i \in DOMAIN rtp_cmds' : rtp_cmds'[i] \in CommandOfTheCall'
             /\ rtp'.active => rtp'.signaled = line'.caller
             /\ \A i \in DOMAIN media_in' : media_in'[i] \in OfTheCall'
  <2>1. PICK cmd \in CommandOfTheCall : rtp_cmds' = Append(rtp_cmds, cmd)
    BY <1>2 DEF StartOrHold, Command, CommandOfTheCall
  <2>2. /\ DOMAIN rtp_cmds' = 1 .. Len(rtp_cmds) + 1 /\ DOMAIN rtp_cmds = 1 .. Len(rtp_cmds)
        /\ Len(rtp_cmds) \in Nat /\ rtp_cmds'[Len(rtp_cmds) + 1] = cmd
        /\ \A i \in 1 .. Len(rtp_cmds) : rtp_cmds'[i] = rtp_cmds[i]
    <3>1. cmd \in RtpCommand
      BY CommandTypes DEF CommandOfTheCall, TypedInv, StreamInv, LineOK
    <3> QED BY <2>1, <3>1, AppendFacts DEF TypedInv, StreamInv, CommandsServeLine
  <2>3. \A i \in DOMAIN rtp_cmds' : i \in DOMAIN rtp_cmds \/ i = Len(rtp_cmds) + 1
    BY <2>2
  <2>4. CommandOfTheCall' = CommandOfTheCall /\ OfTheCall' = OfTheCall
    BY <1>2 DEF CommandOfTheCall, OfTheCall
  <2> QED BY <1>2, <2>2, <2>3, <2>4 DEF ChannelsServeCall
<1>3. CASE Establishes
  BY <1>2, <1>3 DEF Establishes, TypedInv, StreamInv, LineOK
<1>4. CASE Renegotiates
  BY <1>2, <1>4 DEF Renegotiates
<1>5. CASE Ends
  BY <1>5 DEF Ends, NoLine
<1>6. CASE RtpPollCommands
  <2>1. /\ rtp_cmds' = <<>> /\ UNCHANGED <<line, overlap, media_in>>
        /\ \/ rtp' = rtp
           \/ \E i \in DOMAIN rtp_cmds :
                  Decides(i, rtp_cmds) /\ rtp' = HandleRtpCommand(rtp_cmds[i])
    BY <1>6 DEF RtpPollCommands
  <2>2. OfTheCall' = OfTheCall
    BY <2>1 DEF OfTheCall
  <2>3. ASSUME NEW i \in DOMAIN rtp_cmds, Decides(i, rtp_cmds), rtp' = HandleRtpCommand(rtp_cmds[i])
        PROVE  rtp'.active => rtp'.signaled = line.caller
    <3>1. rtp_cmds[i] \in {Stop, Start(line.caller)}
      BY <2>1, <2>3 DEF ChannelsServeCall, CommandOfTheCall, Decides
    <3> QED BY <2>3, <3>1 DEF HandleRtpCommand, Stopped, Stop, Start
  <2> QED BY <2>1, <2>2, <2>3 DEF ChannelsServeCall
<1>7. CASE \E p \in Packet : RtpReceive(p)
  <2>1. PICK p \in Packet : RtpReceive(p)
    BY <1>7
  <2>2. /\ rtp.active /\ p.from = rtp.signaled /\ rtp' = [rtp EXCEPT !.observed = p.from]
        /\ media_in' = Append(media_in, p) /\ UNCHANGED <<line, overlap, rtp_cmds>>
    BY <2>1 DEF RtpReceive, Accepts, sip
  <2>3. p \in OfTheCall
    BY <2>2 DEF ChannelsServeCall, OfTheCall
  <2>4. rtp'.active = rtp.active /\ rtp'.signaled = rtp.signaled
    BY <2>2 DEF TypedInv, StreamInv, RtpOK
  <2>5. /\ DOMAIN media_in' = 1 .. Len(media_in) + 1 /\ DOMAIN media_in = 1 .. Len(media_in)
        /\ Len(media_in) \in Nat /\ media_in'[Len(media_in) + 1] = p
        /\ \A i \in 1 .. Len(media_in) : media_in'[i] = media_in[i]
    BY <2>2, AppendFacts DEF TypedInv, MediaTyped
  <2>6. \A i \in DOMAIN media_in' : i \in DOMAIN media_in \/ i = Len(media_in) + 1
    BY <2>5
  <2>7. CommandOfTheCall' = CommandOfTheCall /\ OfTheCall' = OfTheCall
    BY <2>2 DEF CommandOfTheCall, OfTheCall
  <2> QED BY <2>2, <2>3, <2>4, <2>5, <2>6, <2>7 DEF ChannelsServeCall
<1>8. CASE AudioPollMedia
  <2>1. media_in # <<>> /\ media_in' = Tail(media_in) /\ UNCHANGED <<line, overlap, rtp_cmds, rtp>>
    BY <1>8 DEF AudioPollMedia, sip
  <2>2. \A i \in DOMAIN media_in' : i + 1 \in DOMAIN media_in /\ media_in'[i] = media_in[i + 1]
    BY <2>1, TailFacts DEF TypedInv, MediaTyped
  <2>3. CommandOfTheCall' = CommandOfTheCall /\ OfTheCall' = OfTheCall
    BY <2>1 DEF CommandOfTheCall, OfTheCall
  <2> QED BY <2>1, <2>2, <2>3 DEF ChannelsServeCall
<1>9. CASE UNCHANGED <<line, overlap, rtp_cmds, rtp, media_in>>
  BY <1>9 DEF ChannelsServeCall, CommandOfTheCall, OfTheCall
<1>10. AudioPollCommand \/ AudioCommandsDone \/ AudioMediaDone \/ AudioInterrupted \/ AudioDrained
       \/ AudioSkips \/ AudioPlays \/ UNCHANGED vars => UNCHANGED <<line, overlap, rtp_cmds, rtp, media_in>>
  BY DEF AudioPollCommand, AudioCommandsDone, AudioMediaDone, AudioInterrupted, AudioDrained,
         AudioSkips, AudioPlays, vars, sip
<1>11. ~ EstablishesWithoutContext
  BY DEF EstablishesWithoutContext, TypedInv, StreamInv, LineOK
<1> QED BY <1>1, <1>3, <1>4, <1>5, <1>6, <1>7, <1>8, <1>9, <1>10, <1>11 DEF Next

(* A command more does not undo that the buffer will be reset. *)
LEMMA TellKeepsReset ==
    ASSUME MediaTyped, NEW state \in PhoneState, audio_cmds' = Append(audio_cmds, state)
    PROVE  WillReset \/ state # "Established" => WillReset'
<1>1. /\ DOMAIN audio_cmds' = 1 .. Len(audio_cmds) + 1 /\ DOMAIN audio_cmds = 1 .. Len(audio_cmds)
      /\ Len(audio_cmds) \in Nat /\ audio_cmds'[Len(audio_cmds) + 1] = state
      /\ \A i \in 1 .. Len(audio_cmds) : audio_cmds'[i] = audio_cmds[i]
  BY AppendFacts DEF MediaTyped
<1>2. Len(audio_cmds) + 1 \in DOMAIN audio_cmds' /\ \A i \in DOMAIN audio_cmds : i \in DOMAIN audio_cmds'
  BY <1>1
<1> QED BY <1>1, <1>2 DEF WillReset

LEMMA BufferInductive ==
    TypedInv /\ ChannelsServeCall /\ BufferServesCall /\ [Next]_vars => BufferServesCall'
<1> SUFFICES ASSUME TypedInv, ChannelsServeCall, BufferServesCall, [Next]_vars,
                    line'.caller # NoCaller, ~ overlap'
             PROVE  WillReset' \/ BufferOfTheCall'
  BY DEF BufferServesCall
<1>1. CASE \E caller \in Caller : Rings(caller)
  <2>1. audio_cmds' = Append(audio_cmds, "Ringing")
    BY <1>1 DEF Rings, Tell
  <2>2. "Ringing" \in PhoneState
    BY DEF PhoneState
  <2> QED BY <2>1, <2>2, TellKeepsReset DEF TypedInv
<1>2. ASSUME UNCHANGED <<jitter, tuned>>, line'.caller = line.caller, BufferOfTheCall
      PROVE  BufferOfTheCall'
  BY <1>2 DEF BufferOfTheCall, OfTheCall
<1>3. CASE Establishes
  <2>1. /\ audio_cmds' = Append(audio_cmds, "Established") /\ UNCHANGED <<jitter, tuned, overlap>>
        /\ line.caller # NoCaller /\ line' = [line EXCEPT !.state = "Established"]
    BY <1>3 DEF Establishes, Tell, audio
  <2>2. line'.caller = line.caller
    BY <2>1 DEF TypedInv, StreamInv, LineOK
  <2>3. "Established" \in PhoneState
    BY DEF PhoneState
  <2>4. WillReset => WillReset'
    BY <2>1, <2>3, TellKeepsReset DEF TypedInv
  <2> QED BY <1>2, <2>1, <2>2, <2>4 DEF BufferServesCall
<1>4. ASSUME UNCHANGED <<line, overlap, audio_cmds, jitter, tuned>> PROVE WillReset' \/ BufferOfTheCall'
  BY <1>4 DEF BufferServesCall, WillReset, BufferOfTheCall, OfTheCall
<1>5. CASE Ends
  BY <1>5 DEF Ends, NoLine
<1>6. CASE AudioPollCommand
  <2>1. /\ audio_cmds # <<>> /\ audio_cmds' = Tail(audio_cmds) /\ HandleCommand(Head(audio_cmds))
        /\ UNCHANGED <<line, overlap>>
    BY <1>6 DEF AudioPollCommand
  <2>2. CASE Head(audio_cmds) = "Established"
    <3>1. UNCHANGED <<jitter, tuned>>
      BY <2>1, <2>2 DEF HandleCommand
    <3>2. ASSUME NEW i \in DOMAIN audio_cmds, audio_cmds[i] # "Established" PROVE WillReset'
      <4>1. /\ Head(audio_cmds) = audio_cmds[1] /\ DOMAIN audio_cmds = 1 .. Len(audio_cmds)
            /\ Len(audio_cmds) \in Nat /\ DOMAIN audio_cmds' = 1 .. Len(audio_cmds) - 1
            /\ \A j \in DOMAIN audio_cmds' : audio_cmds'[j] = audio_cmds[j + 1]
        BY <2>1, TailFacts DEF TypedInv, MediaTyped
      <4>2. i # 1
        BY <2>2, <3>2, <4>1
      <4>3. i - 1 \in DOMAIN audio_cmds' /\ (i - 1) + 1 = i
        BY <4>1, <4>2
      <4> QED BY <3>2, <4>1, <4>3 DEF WillReset
    <3> QED BY <1>2, <2>1, <3>1, <3>2 DEF BufferServesCall, WillReset
  <2>3. CASE Head(audio_cmds) # "Established"
    <3>1. jitter' = EmptyBuffer /\ tuned' = NoCaller
      BY <2>1, <2>3 DEF HandleCommand, ResetBuffer
    <3> QED BY <3>1 DEF BufferOfTheCall, EmptyBuffer
  <2> QED BY <2>2, <2>3
<1>7. CASE AudioPollMedia
  <2>1. /\ media_in # <<>> /\ jitter' = Push(jitter, Head(media_in))
        /\ UNCHANGED <<line, overlap, audio_cmds, tuned>>
    BY <1>7 DEF AudioPollMedia, sip
  <2>2. Head(media_in) \in Packet /\ Head(media_in) \in OfTheCall
    <3>1. Head(media_in) \in Packet /\ Head(media_in) = media_in[1] /\ 1 \in DOMAIN media_in
      BY <2>1, TailFacts DEF TypedInv, MediaTyped
    <3> QED BY <2>1, <3>1 DEF ChannelsServeCall
  <2>3. CASE BufferOfTheCall
    <3>1. \A i \in DOMAIN jitter'.frames : jitter'.frames[i] \in OfTheCall
      BY <2>1, <2>2, <2>3, PushKeeps DEF TypedInv, MediaTyped, BufferOfTheCall
    <3> QED BY <2>1, <2>3, <3>1 DEF BufferOfTheCall, OfTheCall
  <2>4. CASE WillReset
    BY <2>1, <2>4 DEF WillReset
  <2> QED BY <2>1, <2>3, <2>4 DEF BufferServesCall
<1>8. CASE AudioPlays
  <2>1. /\ jitter' = Pop(jitter) /\ UNCHANGED <<line, overlap, audio_cmds>>
        /\ tuned' = IF Played(jitter) = None THEN tuned
                    ELSE jitter.frames[Position(jitter.frames, Played(jitter))].from
    BY <1>8 DEF AudioPlays, sip
  <2>2. CASE BufferOfTheCall
    <3>1. \A i \in DOMAIN jitter'.frames : jitter'.frames[i] \in OfTheCall
      BY <2>1, <2>2, PopKeeps, PacketTyped DEF TypedInv, MediaTyped, BufferOfTheCall
    <3>2. tuned' \in {NoCaller, line.caller}
      <4>1. CASE Played(jitter) = None
        BY <2>1, <2>2, <4>1 DEF BufferOfTheCall
      <4>2. CASE Played(jitter) # None
        <5>1. Position(jitter.frames, Played(jitter)) \in DOMAIN jitter.frames
          BY <4>2, PlayedIsThere, PacketTyped DEF TypedInv, MediaTyped
        <5> QED BY <2>1, <2>2, <4>2, <5>1 DEF BufferOfTheCall, OfTheCall
      <4> QED BY <4>1, <4>2
    <3> QED BY <2>1, <3>1, <3>2 DEF BufferOfTheCall, OfTheCall
  <2>3. CASE WillReset
    BY <2>1, <2>3 DEF WillReset
  <2> QED BY <2>1, <2>2, <2>3 DEF BufferServesCall
<1>9. Renegotiates \/ RtpPollCommands \/ (\E p \in Packet : RtpReceive(p)) \/ AudioCommandsDone
      \/ AudioMediaDone \/ AudioInterrupted \/ AudioDrained \/ AudioSkips \/ UNCHANGED vars
      => UNCHANGED <<line, overlap, audio_cmds, jitter, tuned>>
  BY DEF Renegotiates, RtpPollCommands, RtpReceive, AudioCommandsDone, AudioMediaDone,
         AudioInterrupted, AudioDrained, AudioSkips, vars, sip, audio
<1>10. ~ EstablishesWithoutContext
  BY DEF EstablishesWithoutContext, TypedInv, StreamInv, LineOK
<1> QED BY <1>1, <1>3, <1>4, <1>5, <1>6, <1>7, <1>8, <1>9, <1>10 DEF Next

(* In a call that has a context and found the channels empty, the audio    *)
(* task buffers and plays frames of its caller only, once it has heard of  *)
(* the call.                                                               *)
THEOREM JitterBelongs == Spec => []JitterBelongsToCall
<1>1. Init => ChannelsServeCall /\ BufferServesCall
  BY DEF Init, NoLine, ChannelsServeCall, BufferServesCall
<1>2. TypedInv /\ BufferServesCall => JitterBelongsToCall
  <2> SUFFICES ASSUME TypedInv, BufferServesCall, line.caller # NoCaller,
                      audio_cmds = <<>>, ~ overlap
               PROVE  /\ \A f \in ToSet(jitter.frames) : f.from = line.caller
                      /\ tuned \in {NoCaller, line.caller}
    BY DEF JitterBelongsToCall
  <2>1. BufferOfTheCall
    BY DEF BufferServesCall, WillReset
  <2> QED BY <2>1 DEF BufferOfTheCall, OfTheCall, ToSet
<1>3. TypedInv <=> StreamInv /\ MediaTyped
  BY DEF TypedInv
<1> QED BY <1>1, <1>2, <1>3, StreamInit, StreamInductive, MediaInit, MediaInductive,
           ChannelsInductive, BufferInductive, PTL DEF Spec
----------------------------------------------------------------------------
(* Playout: the silence after the network has become steady. *)

PlayoutFrame == [seq : 0 .. SeqModulus - 1, old : BOOLEAN]

PlayoutTyped ==
    /\ sent \in 0 .. SeqModulus - 1
    /\ buffer \in Buffer(PlayoutFrame)
    /\ steady \in BOOLEAN /\ due \in {"send", "arrive", "play"}
    /\ gap \in Nat

Held(k) == Behind(k) \in Seqs(buffer.frames)

(* While the speaker is silent the buffer gives up none of the frames that *)
(* come: all that were sent since then are in it, and there is room.  It   *)
(* may be full only after a frame was played.                              *)
SilenceIsBuffered ==
    /\ gap < Capacity /\ gap < SeqModulus
    /\ ~ steady => due = "send" /\ gap = 0
    /\ due = "send" => \A k \in 0 .. gap - 1 : Held(k)
    /\ due = "arrive" => \A k \in 1 .. gap : Held(k)
    /\ due = "play" => \A k \in 0 .. gap : Held(k)
    /\ due # "play" /\ gap > 0 => ~ Full(buffer.frames)

PlayoutInv == PlayoutTyped /\ SilenceIsBuffered

LEMMA PlayoutFrameTyped == \A f \in PlayoutFrame : f.seq \in 0 .. SeqModulus - 1 /\ f.seq \in Nat
BY BufferAssumption DEF PlayoutFrame

(* A round of sequence numbers. *)
LEMMA RoundFacts ==
    ASSUME NEW x \in 0 .. SeqModulus - 1
    PROVE  x % SeqModulus = x /\ (x + SeqModulus) % SeqModulus = x
BY BufferAssumption

LEMMA FollowingIs ==
    ASSUME NEW x \in 0 .. SeqModulus - 1
    PROVE  Following(x) = IF x = SeqModulus - 1 THEN 0 ELSE x + 1
<1>1. CASE x = SeqModulus - 1
  <2>1. 0 \in 0 .. SeqModulus - 1 /\ x + 1 = 0 + SeqModulus
    BY <1>1, BufferAssumption
  <2> QED BY <1>1, <2>1, RoundFacts DEF Following
<1>2. CASE x # SeqModulus - 1
  <2>1. x + 1 \in 0 .. SeqModulus - 1
    BY <1>2, BufferAssumption
  <2> QED BY <1>2, <2>1, RoundFacts DEF Following
<1> QED BY <1>1, <1>2

LEMMA BackInRound ==
    ASSUME NEW x \in 0 .. SeqModulus - 1, NEW k \in 0 .. SeqModulus - 1
    PROVE  (x + SeqModulus - k) % SeqModulus = IF k <= x THEN x - k ELSE x + SeqModulus - k
<1>1. CASE k <= x
  <2>1. x - k \in 0 .. SeqModulus - 1 /\ x + SeqModulus - k = (x - k) + SeqModulus
    BY <1>1, BufferAssumption
  <2> QED BY <1>1, <2>1, RoundFacts
<1>2. CASE ~ (k <= x)
  <2>1. x + SeqModulus - k \in 0 .. SeqModulus - 1
    BY <1>2, BufferAssumption
  <2> QED BY <1>2, <2>1, RoundFacts
<1> QED BY <1>1, <1>2

LEMMA BehindIs ==
    ASSUME sent \in 0 .. SeqModulus - 1, NEW k \in 0 .. SeqModulus - 1
    PROVE  Behind(k) = IF k <= sent THEN sent - k ELSE sent + SeqModulus - k
BY BackInRound DEF Behind

(* Within a round no two frames have the same number, and every number is  *)
(* that of a frame.                                                        *)
LEMMA BehindIsOneToOne ==
    ASSUME sent \in 0 .. SeqModulus - 1
    PROVE  /\ \A j, k \in 0 .. SeqModulus - 1 : Behind(j) = Behind(k) => j = k
           /\ \A x \in 0 .. SeqModulus - 1 : \E k \in 0 .. SeqModulus - 1 : Behind(k) = x
<1>1. ASSUME NEW j \in 0 .. SeqModulus - 1, NEW k \in 0 .. SeqModulus - 1, Behind(j) = Behind(k)
      PROVE  j = k
  <2>1. Behind(j) = IF j <= sent THEN sent - j ELSE sent + SeqModulus - j
    BY BehindIs
  <2>2. Behind(k) = IF k <= sent THEN sent - k ELSE sent + SeqModulus - k
    BY BehindIs
  <2>3. (IF j <= sent THEN sent - j ELSE sent + SeqModulus - j)
        = (IF k <= sent THEN sent - k ELSE sent + SeqModulus - k)
    BY <1>1, <2>1, <2>2
  <2> QED BY <2>3, BufferAssumption
<1>2. ASSUME NEW x \in 0 .. SeqModulus - 1 PROVE \E k \in 0 .. SeqModulus - 1 : Behind(k) = x
  <2>1. CASE x <= sent
    <3>1. sent - x \in 0 .. SeqModulus - 1 /\ sent - x <= sent /\ sent - (sent - x) = x
      BY <2>1, BufferAssumption
    <3>2. Behind(sent - x) = x
      BY <3>1, BehindIs
    <3> QED BY <3>1, <3>2
  <2>2. CASE ~ (x <= sent)
    <3> DEFINE k == sent + SeqModulus - x
    <3>1. k \in 0 .. SeqModulus - 1 /\ ~ (k <= sent) /\ sent + SeqModulus - k = x
      BY <2>2, BufferAssumption
    <3>2. Behind(k) = x
      BY <3>1, BehindIs
    <3> QED BY <3>1, <3>2
  <2> QED BY <2>1, <2>2
<1> QED BY <1>1, <1>2

(* A frame whose number was used again is as it was, but old. *)
LEMMA AgedSame ==
    ASSUME NEW frames \in Seq(PlayoutFrame), NEW seq
    PROVE  /\ Aged(frames, seq) \in Seq(PlayoutFrame) /\ Len(Aged(frames, seq)) = Len(frames)
           /\ Seqs(Aged(frames, seq)) = Seqs(frames)
<1> DEFINE aged == Aged(frames, seq)
<1>1. DOMAIN frames = 1 .. Len(frames) /\ Len(frames) \in Nat
      /\ \A i \in 1 .. Len(frames) : frames[i] \in PlayoutFrame
  OBVIOUS
<1>2. aged = [i \in 1 .. Len(frames) |-> [frames[i] EXCEPT !.old = @ \/ frames[i].seq = seq]]
  BY <1>1 DEF Aged
<1>3. ASSUME NEW i \in 1 .. Len(frames)
      PROVE  aged[i] \in PlayoutFrame /\ aged[i].seq = frames[i].seq
  <2>1. frames[i] \in PlayoutFrame
    BY <1>1
  <2>2. aged[i] = [frames[i] EXCEPT !.old = @ \/ frames[i].seq = seq]
    BY <1>2
  <2>3. (frames[i].old \/ frames[i].seq = seq) \in BOOLEAN
    OBVIOUS
  <2>4. aged[i] = [seq |-> frames[i].seq, old |-> (frames[i].old \/ frames[i].seq = seq)]
    BY <2>1, <2>2 DEF PlayoutFrame
  <2> QED BY <2>1, <2>3, <2>4 DEF PlayoutFrame
<1> HIDE DEF aged
<1>4. aged \in Seq(PlayoutFrame) /\ Len(aged) = Len(frames) /\ DOMAIN aged = 1 .. Len(frames)
  <2>1. aged \in [1 .. Len(frames) -> PlayoutFrame]
    BY <1>2, <1>3
  <2> QED BY <1>1, <2>1
<1>5. Seqs(aged) = Seqs(frames)
  BY <1>1, <1>3, <1>4 DEF Seqs
<1> QED BY <1>4, <1>5 DEF aged

(* A frame that is pushed is held, and drives out none where there is room. *)
LEMMA PushHolds ==
    ASSUME NEW F, NEW b \in Buffer(F), NEW frame \in F
    PROVE  /\ frame.seq \in Seqs(Push(b, frame).frames)
           /\ ~ Full(b.frames) => Seqs(b.frames) \subseteq Seqs(Push(b, frame).frames)
<1> DEFINE frames == b.frames
           room == IF Full(frames) THEN Tail(frames) ELSE frames
           after == IF frame.seq \in Seqs(room) THEN room ELSE Append(room, frame)
<1>1. frames \in Seq(F) /\ Len(frames) \in Nat
  BY DEF Buffer
<1>2. room \in Seq(F)
  <2>1. CASE Full(frames)
    <3>1. frames # <<>>
      BY <1>1, <2>1, BufferAssumption DEF Full
    <3> QED BY <1>1, <2>1, <3>1
  <2> QED BY <1>1, <2>1
<1>3. ~ Full(frames) => room = frames
  OBVIOUS
<1>4. Push(b, frame) = [b EXCEPT !.frames = after]
  BY DEF Push, room
<1> HIDE DEF room
<1>5. frame.seq \in Seqs(after) /\ Seqs(room) \subseteq Seqs(after)
  <2>1. CASE frame.seq \in Seqs(room)
    BY <2>1
  <2>2. CASE frame.seq \notin Seqs(room)
    <3>1. after = Append(room, frame)
      BY <2>2
    <3>2. /\ DOMAIN after = 1 .. Len(room) + 1
          /\ DOMAIN room = 1 .. Len(room) /\ Len(room) \in Nat
          /\ \A i \in 1 .. Len(room) : after[i] = room[i]
          /\ after[Len(room) + 1] = frame
      BY <1>2, <3>1, AppendFacts
    <3> HIDE DEF after
    <3>3. Len(room) + 1 \in DOMAIN after /\ \A i \in DOMAIN room : i \in DOMAIN after
      BY <3>2
    <3> QED BY <3>2, <3>3 DEF Seqs
  <2> QED BY <2>1, <2>2
<1> HIDE DEF after
<1>6. Push(b, frame).frames = after
  BY <1>4 DEF Buffer
<1> QED BY <1>3, <1>5, <1>6

(* The speaker is silent only where the buffer has room, and is without    *)
(* the frame that it waits for.                                            *)
LEMMA SilenceMeans ==
    ASSUME NEW b \in Buffer(PlayoutFrame), b.frames # <<>>, Played(b) = None
    PROVE  /\ ~ Full(b.frames)
           /\ Expected(b) \in 0 .. SeqModulus - 1 /\ Expected(b) \notin Seqs(b.frames)
<1> DEFINE frames == b.frames
<1>1. frames \in Seq(PlayoutFrame) /\ 1 \in DOMAIN frames
  BY DEF Buffer
<1>2. Seqs(frames) \subseteq 0 .. SeqModulus - 1 /\ Seqs(frames) # {}
  <2>1. \A i \in DOMAIN frames : frames[i] \in PlayoutFrame
    BY <1>1
  <2>2. \A i \in DOMAIN frames : frames[i].seq \in 0 .. SeqModulus - 1
    BY <2>1, PlayoutFrameTyped
  <2> QED BY <1>1, <2>2 DEF Seqs
<1>3. Min(Seqs(frames)) \in Seqs(frames)
  <2>1. Seqs(frames) \subseteq Nat
    BY <1>2, BufferAssumption
  <2> QED BY <1>2, <2>1, LeastExists
<1>4. Expected(b) \in 0 .. SeqModulus - 1
  <2>1. CASE b.next_seq = None
    BY <1>2, <1>3, <2>1 DEF Expected
  <2>2. CASE b.next_seq # None
    BY <2>2 DEF Expected, Buffer
  <2> QED BY <2>1, <2>2
<1>5. \A x \in 0 .. SeqModulus - 1 : x # None
  BY BufferAssumption DEF None
<1>6. Expected(b) \notin Seqs(frames)
  <2>1. SUFFICES ASSUME Expected(b) \in Seqs(frames) PROVE FALSE
    OBVIOUS
  <2>2. Played(b) = Expected(b)
    BY <2>1 DEF Played
  <2> QED BY <1>4, <1>5, <2>2
<1>7. ~ Full(frames)
  <2>1. SUFFICES ASSUME Full(frames) PROVE FALSE
    OBVIOUS
  <2>2. Played(b) = Min(Seqs(frames))
    BY <1>6, <2>1 DEF Played
  <2> QED BY <1>2, <1>3, <1>5, <2>2
<1> QED BY <1>4, <1>6, <1>7

(* Frames of different numbers are as many as the buffer holds, at most. *)
LEMMA HeldAreFew ==
    ASSUME PlayoutTyped, NEW n \in Nat, n < SeqModulus, \A k \in 0 .. n : Held(k)
    PROVE  n + 1 <= Len(buffer.frames)
<1> DEFINE frames == buffer.frames
           at == [k \in 0 .. n |-> CHOOSE i \in DOMAIN frames : frames[i].seq = Behind(k)]
<1>1. frames \in Seq(PlayoutFrame) /\ Len(frames) \in Nat /\ DOMAIN frames = 1 .. Len(frames)
  BY DEF PlayoutTyped, Buffer
<1>2. ASSUME NEW k \in 0 .. n PROVE at[k] \in DOMAIN frames /\ frames[at[k]].seq = Behind(k)
  <2>1. \E i \in DOMAIN frames : frames[i].seq = Behind(k)
    BY DEF Held, Seqs
  <2> QED BY <2>1
<1>3. at \in [0 .. n -> 1 .. Len(frames)]
  BY <1>1, <1>2
<1>4. \A j, k \in 0 .. n : at[j] = at[k] => j = k
  <2>1. \A k \in 0 .. n : k \in 0 .. SeqModulus - 1
    BY BufferAssumption
  <2>2. \A j, k \in 0 .. n : at[j] = at[k] => Behind(j) = Behind(k)
    BY <1>2
  <2> QED BY <2>1, <2>2, BehindIsOneToOne DEF PlayoutTyped
<1> HIDE DEF at
<1>5. /\ IsFiniteSet(0 .. n) /\ Cardinality(0 .. n) = n + 1
      /\ IsFiniteSet(1 .. Len(frames)) /\ Cardinality(1 .. Len(frames)) = Len(frames)
  <2>1. IsFiniteSet(0 .. n) /\ Cardinality(0 .. n) = IF 0 > n THEN 0 ELSE n - 0 + 1
    BY FS_Interval
  <2>2. \A m \in Nat : IsFiniteSet(1 .. m) /\ Cardinality(1 .. m) = IF 1 > m THEN 0 ELSE m - 1 + 1
    BY FS_Interval
  <2> QED BY <1>1, <2>1, <2>2
<1>6. ~ (Len(frames) < n + 1)
  BY <1>3, <1>4, <1>5, FS_PigeonHole
<1> QED BY <1>1, <1>6

LEMMA PlayoutInitInvariant == PlayoutInit => PlayoutInv
<1> SUFFICES ASSUME PlayoutInit PROVE PlayoutInv
  OBVIOUS
<1>1. PlayoutTyped
  BY EmptyBufferTyped DEF PlayoutInit, PlayoutTyped
<1>2. SilenceIsBuffered
  BY BufferAssumption DEF PlayoutInit, SilenceIsBuffered
<1> QED BY <1>1, <1>2 DEF PlayoutInv

(* Every frame falls behind by one; the one that is sent is to come.       *)
LEMMA SendKeeps == PlayoutInv /\ Send => PlayoutInv'
<1> SUFFICES ASSUME PlayoutInv, Send PROVE PlayoutInv'
  OBVIOUS
<1> USE DEF PlayoutInv
<1>1. /\ sent \in 0 .. SeqModulus - 1 /\ buffer \in Buffer(PlayoutFrame)
      /\ steady \in BOOLEAN /\ due \in {"send", "arrive", "play"} /\ gap \in Nat
      /\ gap < Capacity /\ gap < SeqModulus
  BY DEF PlayoutTyped, SilenceIsBuffered
<1>2. /\ sent' = Following(sent) /\ buffer' = [buffer EXCEPT !.frames = Aged(@, sent')]
      /\ gap' = gap /\ steady' = steady
      /\ due = "send" /\ due' = IF steady THEN "arrive" ELSE "send"
  BY <1>1 DEF Send, Turn, SilenceIsBuffered
<1>3. /\ sent' \in 0 .. SeqModulus - 1
      /\ sent' = IF sent = SeqModulus - 1 THEN 0 ELSE sent + 1
  BY <1>1, <1>2, FollowingIs, BufferAssumption
<1>4. /\ buffer' \in Buffer(PlayoutFrame)
      /\ Len(buffer'.frames) = Len(buffer.frames) /\ Seqs(buffer'.frames) = Seqs(buffer.frames)
  <2>1. buffer.frames \in Seq(PlayoutFrame) /\ buffer'.frames = Aged(buffer.frames, sent')
    BY <1>1, <1>2 DEF Buffer
  <2> HIDE DEF PlayoutInv
  <2>2. /\ buffer'.frames \in Seq(PlayoutFrame) /\ Len(buffer'.frames) = Len(buffer.frames)
        /\ Seqs(buffer'.frames) = Seqs(buffer.frames)
    BY <2>1, AgedSame
  <2>3. buffer' = [next_seq |-> buffer.next_seq, frames |-> buffer'.frames]
    BY <1>1, <1>2 DEF Buffer
  <2> QED BY <1>1, <2>2, <2>3 DEF Buffer
<1>5. PlayoutTyped'
  BY <1>1, <1>2, <1>3, <1>4 DEF PlayoutTyped
<1>6. ASSUME NEW k \in 1 .. gap PROVE Held(k)'
  <2>1. k \in 0 .. SeqModulus - 1 /\ k - 1 \in 0 .. SeqModulus - 1 /\ k - 1 \in 0 .. gap - 1
    BY <1>1, BufferAssumption
  <2>2. Behind(k)' = IF k <= sent' THEN sent' - k ELSE sent' + SeqModulus - k
    BY <1>3, <2>1, BackInRound DEF Behind
  <2>3. Behind(k - 1) = IF k - 1 <= sent THEN sent - (k - 1) ELSE sent + SeqModulus - (k - 1)
    BY <1>1, <2>1, BehindIs
  <2>4. Behind(k)' = Behind(k - 1)
    BY <1>1, <1>3, <2>1, <2>2, <2>3, BufferAssumption
  <2>5. Held(k - 1)
    BY <1>2, <2>1 DEF SilenceIsBuffered
  <2> QED BY <1>4, <2>4, <2>5 DEF Held
<1>7. gap > 0 => ~ Full(buffer'.frames)
  BY <1>2, <1>4 DEF SilenceIsBuffered, Full
<1>8. SilenceIsBuffered'
  <2>1. CASE steady
    BY <1>1, <1>2, <1>6, <1>7, <2>1 DEF SilenceIsBuffered
  <2>2. CASE ~ steady
    <3>1. gap = 0 /\ due' = "send" /\ \A k \in 0 .. gap' - 1 : FALSE
      BY <1>2, <2>2 DEF SilenceIsBuffered
    <3> QED BY <1>1, <1>2, <2>2, <3>1 DEF SilenceIsBuffered
  <2> QED BY <2>1, <2>2
<1> QED BY <1>5, <1>8

(* The frame that was sent last joins those that are held.                 *)
LEMMA ArriveKeeps == PlayoutInv /\ Arrive => PlayoutInv'
<1> SUFFICES ASSUME PlayoutInv, Arrive PROVE PlayoutInv'
  OBVIOUS
<1> USE DEF PlayoutInv
<1>1. /\ sent \in 0 .. SeqModulus - 1 /\ buffer \in Buffer(PlayoutFrame)
      /\ steady \in BOOLEAN /\ due \in {"send", "arrive", "play"} /\ gap \in Nat
      /\ gap < Capacity /\ gap < SeqModulus
  BY DEF PlayoutTyped, SilenceIsBuffered
<1>2. /\ sent' = sent /\ gap' = gap /\ steady' = steady
      /\ steady => due = "arrive" /\ due' = "play"
      /\ ~ steady => due' = due
  BY DEF Arrive, Turn
<1>3. PICK k \in 0 .. (IF steady THEN 0 ELSE MaxLate) :
         buffer' = Push(buffer, [seq |-> Behind(k), old |-> FALSE])
  BY DEF Arrive
<1> DEFINE frame == [seq |-> Behind(k), old |-> FALSE]
<1>4. frame \in PlayoutFrame
  <2>1. Behind(k) \in 0 .. SeqModulus - 1
    <3>1. k \in Int
      BY LateAssumption
    <3> QED BY <1>1, <3>1, BufferAssumption DEF Behind
  <2> QED BY <2>1 DEF PlayoutFrame
<1> HIDE DEF PlayoutInv
<1>5. buffer' \in Buffer(PlayoutFrame)
  <2>1. \A i \in DOMAIN buffer.frames : buffer.frames[i] \in PlayoutFrame
    BY <1>1 DEF Buffer
  <2> HIDE DEF frame
  <2> QED BY <1>1, <1>3, <1>4, <2>1, PushKeeps DEF frame
<1>6. PlayoutTyped'
  BY <1>1, <1>2, <1>5 DEF PlayoutTyped
<1>7. /\ Behind(k) \in Seqs(buffer'.frames)
      /\ ~ Full(buffer.frames) => Seqs(buffer.frames) \subseteq Seqs(buffer'.frames)
  <2>1. /\ frame.seq \in Seqs(Push(buffer, frame).frames)
        /\ ~ Full(buffer.frames) => Seqs(buffer.frames) \subseteq Seqs(Push(buffer, frame).frames)
    BY <1>1, <1>4, PushHolds
  <2> QED BY <1>3, <2>1
<1>8. CASE steady
  <2>1. k = 0 /\ due = "arrive" /\ due' = "play"
    BY <1>2, <1>3, <1>8
  <2>2. ASSUME NEW j \in 0 .. gap PROVE Held(j)'
    <3>1. Behind(j)' = Behind(j)
      BY <1>2 DEF Behind
    <3>2. CASE j = 0
      BY <1>7, <2>1, <3>1, <3>2 DEF Held
    <3>3. CASE j # 0
      <4>1. j \in 1 .. gap /\ gap > 0
        BY <1>1, <3>3
      <4>2. Held(j) /\ ~ Full(buffer.frames)
        BY <2>1, <4>1 DEF PlayoutInv, SilenceIsBuffered
      <4> QED BY <1>7, <3>1, <4>2 DEF Held
    <3> QED BY <3>2, <3>3
  <2> QED BY <1>1, <1>2, <1>6, <1>8, <2>1, <2>2 DEF PlayoutInv, SilenceIsBuffered
<1>9. CASE ~ steady
  <2>1. gap = 0 /\ due = "send" /\ due' = "send"
    BY <1>2, <1>9 DEF PlayoutInv, SilenceIsBuffered
  <2>2. \A j \in 0 .. gap' - 1 : FALSE
    BY <1>2, <2>1
  <2> QED BY <1>1, <1>2, <1>6, <1>9, <2>1, <2>2 DEF PlayoutInv, SilenceIsBuffered
<1> QED BY <1>8, <1>9

(* A period of silence: the frames held are fewer than there is room for,  *)
(* and fewer than a round, in which the expected one would be.             *)
LEMMA SilenceKeeps ==
    ASSUME PlayoutInv, steady, due = "play", Played(buffer) = None
    PROVE  /\ gap + 1 < Capacity /\ gap + 1 < SeqModulus
           /\ ~ Full(buffer.frames) /\ \A k \in 0 .. gap : Held(k)
<1>1. PlayoutTyped /\ gap \in Nat /\ gap < SeqModulus /\ \A k \in 0 .. gap : Held(k)
  BY DEF PlayoutInv, PlayoutTyped, SilenceIsBuffered
<1>2. buffer \in Buffer(PlayoutFrame) /\ sent \in 0 .. SeqModulus - 1
  BY <1>1 DEF PlayoutTyped
<1>3. buffer.frames # <<>>
  <2>1. Held(0)
    BY <1>1
  <2>2. \E i \in DOMAIN buffer.frames : TRUE
    BY <2>1 DEF Held, Seqs
  <2> QED BY <2>2
<1>4. /\ ~ Full(buffer.frames)
      /\ Expected(buffer) \in 0 .. SeqModulus - 1 /\ Expected(buffer) \notin Seqs(buffer.frames)
  BY <1>2, <1>3, SilenceMeans
<1>5. gap + 1 < Capacity
  <2>1. gap + 1 <= Len(buffer.frames)
    BY <1>1, HeldAreFew
  <2>2. Len(buffer.frames) \in Nat /\ Len(buffer.frames) <= Capacity /\ Len(buffer.frames) # Capacity
    BY <1>2, <1>4 DEF Buffer, Full
  <2> QED BY <1>1, <2>1, <2>2, BufferAssumption
<1>6. gap + 1 < SeqModulus
  <2>1. SUFFICES ASSUME gap = SeqModulus - 1 PROVE FALSE
    BY <1>1, BufferAssumption
  <2>2. PICK k \in 0 .. SeqModulus - 1 : Behind(k) = Expected(buffer)
    BY <1>2, <1>4, BehindIsOneToOne
  <2> QED BY <1>1, <1>4, <2>1, <2>2 DEF Held
<1> QED BY <1>1, <1>4, <1>5, <1>6

LEMMA PlayKeeps == PlayoutInv /\ Play => PlayoutInv'
<1> SUFFICES ASSUME PlayoutInv, Play PROVE PlayoutInv'
  OBVIOUS
<1>1. /\ sent \in 0 .. SeqModulus - 1 /\ buffer \in Buffer(PlayoutFrame)
      /\ steady \in BOOLEAN /\ due \in {"send", "arrive", "play"} /\ gap \in Nat
      /\ gap < Capacity /\ gap < SeqModulus
  BY DEF PlayoutInv, PlayoutTyped, SilenceIsBuffered
<1>2. /\ sent' = sent /\ steady' = steady /\ buffer' = Pop(buffer)
      /\ steady => due = "play" /\ due' = "send"
      /\ ~ steady => due' = due /\ gap' = gap
      /\ steady => lag' = LagOf(Played(buffer)) /\ gap' = IF lag' = None THEN gap + 1 ELSE 0
  BY DEF Play, Turn
<1>3. buffer' \in Buffer(PlayoutFrame)
  <2>1. \A i \in DOMAIN buffer.frames : buffer.frames[i] \in PlayoutFrame
    BY <1>1 DEF Buffer
  <2>2. \A f \in PlayoutFrame : f.seq \in Nat
    BY PlayoutFrameTyped
  <2> QED BY <1>1, <1>2, <2>1, <2>2, PopKeeps
<1>4. CASE ~ steady
  <2>1. gap = 0 /\ due = "send"
    BY <1>4 DEF PlayoutInv, SilenceIsBuffered
  <2>2. PlayoutTyped'
    BY <1>1, <1>2, <1>3, <1>4 DEF PlayoutTyped
  <2>3. \A j \in 0 .. gap' - 1 : FALSE
    BY <1>2, <1>4, <2>1
  <2> QED BY <1>1, <1>2, <1>4, <2>1, <2>2, <2>3 DEF PlayoutInv, SilenceIsBuffered
<1>5. CASE steady /\ Played(buffer) # None
  <2>1. lag' # None
    <3> DEFINE played == Played(buffer)
    <3>1. played \in Nat
      <4>1. \A f \in PlayoutFrame : f.seq \in Nat
        BY PlayoutFrameTyped
      <4> QED BY <1>1, <1>5, <4>1, PlayedIsThere
    <3>2. (sent + SeqModulus - played) % SeqModulus \in 0 .. SeqModulus - 1
      BY <1>1, <3>1, BufferAssumption
    <3>3. Late # None /\ \A x \in 0 .. SeqModulus - 1 : x # None
      BY BufferAssumption DEF Late, None
    <3> QED BY <1>2, <1>5, <3>2, <3>3 DEF LagOf
  <2>2. gap' = 0 /\ due' = "send"
    BY <1>2, <1>5, <2>1
  <2>3. PlayoutTyped'
    BY <1>1, <1>2, <1>3, <2>2 DEF PlayoutTyped
  <2>4. (\A j \in 0 .. gap' - 1 : FALSE) /\ 0 < Capacity /\ 0 < SeqModulus
    BY <2>2, BufferAssumption
  <2> QED BY <1>2, <1>5, <2>2, <2>3, <2>4 DEF PlayoutInv, SilenceIsBuffered
<1>6. CASE steady /\ Played(buffer) = None
  <2>1. /\ gap + 1 < Capacity /\ gap + 1 < SeqModulus
        /\ ~ Full(buffer.frames) /\ \A k \in 0 .. gap : Held(k)
    BY <1>2, <1>6, SilenceKeeps
  <2>2. gap' = gap + 1 /\ due' = "send"
    BY <1>2, <1>6 DEF LagOf
  <2>3. buffer'.frames = buffer.frames
    BY <1>1, <1>2, <1>6 DEF Pop, Buffer
  <2>4. \A k \in 0 .. gap' - 1 : k \in 0 .. gap /\ Held(k)'
    <3>1. \A k \in 0 .. gap' - 1 : k \in 0 .. gap
      BY <1>1, <2>2
    <3> QED BY <1>2, <2>1, <2>3, <3>1 DEF Held, Behind
  <2>5. PlayoutTyped'
    BY <1>1, <1>2, <1>3, <2>2 DEF PlayoutTyped
  <2> QED BY <1>2, <1>6, <2>1, <2>2, <2>3, <2>4, <2>5 DEF PlayoutInv, SilenceIsBuffered
<1> QED BY <1>1, <1>4, <1>5, <1>6

THEOREM PlayoutInductive == PlayoutInv /\ [PlayoutNext]_playoutVars => PlayoutInv'
<1> SUFFICES ASSUME PlayoutInv, [PlayoutNext]_playoutVars PROVE PlayoutInv'
  OBVIOUS
<1>1. CASE Send
  BY <1>1, SendKeeps
<1>2. CASE Arrive
  BY <1>2, ArriveKeeps
<1>3. CASE Play
  BY <1>3, PlayKeeps
<1>4. CASE Settle
  <2>1. ~ steady /\ steady' = TRUE /\ UNCHANGED <<sent, buffer, due, lag, gap>>
    BY <1>4 DEF Settle
  <2> QED BY <2>1 DEF PlayoutInv, PlayoutTyped, SilenceIsBuffered, Held, Behind
<1>5. CASE UNCHANGED playoutVars
  BY <1>5 DEF playoutVars, PlayoutInv, PlayoutTyped, SilenceIsBuffered, Held, Behind
<1> QED BY <1>1, <1>2, <1>3, <1>4, <1>5 DEF PlayoutNext

(* Once frames come and are played steadily, the speaker of                *)
(* maybe_playout_one_frame is silent for fewer periods in a row than the   *)
(* jitter buffer holds frames, whatever push and pop left in it before.    *)
THEOREM SilenceIsBounded == PlayoutSpec => []SilenceEnds
<1>1. PlayoutInv => SilenceEnds
  BY DEF PlayoutInv, SilenceIsBuffered, SilenceEnds
<1> QED BY <1>1, PlayoutInitInvariant, PlayoutInductive, PTL DEF PlayoutSpec
----------------------------------------------------------------------------
(* Playout: one distance, once it is found. *)

(* n frames in the order they were sent, beginning k - 1 behind the last.  *)
Ordered(k, n) == [i \in 1 .. n |-> [seq |-> Behind(k - i), old |-> FALSE]]

OrderedBuffer(k, n) == [next_seq |-> Behind(k - 1), frames |-> Ordered(k, n)]

(* The playout is d behind the sender, and what it has not played is in    *)
(* the buffer, in order and without a gap.                                 *)
KeepsDistance(d) ==
    /\ steady /\ lag = d
    /\ due = "send" => buffer = OrderedBuffer(d, d)
    /\ due = "arrive" => buffer = OrderedBuffer(d + 1, d)
    /\ due = "play" => buffer = OrderedBuffer(d + 1, d + 1)

InStep == \E d \in 0 .. Capacity - 1 : d < SeqModulus /\ KeepsDistance(d)

(* A frame that falls behind keeps its number. *)
LEMMA BehindShifts ==
    ASSUME sent \in 0 .. SeqModulus - 1, sent' = Following(sent),
           NEW k \in -1 .. SeqModulus - 2
    PROVE  Behind(k + 1)' = Behind(k)
<1>1. /\ sent' \in 0 .. SeqModulus - 1
      /\ sent' = IF sent = SeqModulus - 1 THEN 0 ELSE sent + 1
  BY FollowingIs, BufferAssumption
<1>2. CASE k = -1
  <2>1. sent + SeqModulus - k = sent + 1 + SeqModulus /\ k + 1 = 0
    BY <1>2, BufferAssumption
  <2>2. Behind(k + 1)' = sent'
    <3>1. Behind(k + 1)' = (sent' + SeqModulus - 0) % SeqModulus
      BY <2>1 DEF Behind
    <3>2. sent' + SeqModulus - 0 = sent' + SeqModulus
      BY <1>1, BufferAssumption
    <3> QED BY <1>1, <3>1, <3>2, RoundFacts
  <2>3. Behind(k) = sent'
    <3>1. CASE sent = SeqModulus - 1
      <4>1. 0 \in 0 .. SeqModulus - 1 /\ SeqModulus \in Nat \ {0}
        BY BufferAssumption
      <4>2. sent + 1 + SeqModulus = SeqModulus + SeqModulus
        BY <3>1, <4>1
      <4>3. \A m \in Nat \ {0} : (m + m) % m = 0
        OBVIOUS
      <4>4. (SeqModulus + SeqModulus) % SeqModulus = 0
        BY <4>1, <4>3
      <4> QED BY <1>1, <2>1, <3>1, <4>2, <4>4 DEF Behind
    <3>2. CASE sent # SeqModulus - 1
      <4>1. (sent' + SeqModulus) % SeqModulus = sent'
        BY <1>1, RoundFacts
      <4> QED BY <1>1, <2>1, <3>2, <4>1 DEF Behind
    <3> QED BY <3>1, <3>2
  <2> QED BY <2>2, <2>3
<1>3. CASE k # -1
  <2>1. k \in 0 .. SeqModulus - 1 /\ k + 1 \in 0 .. SeqModulus - 1
    BY <1>3, BufferAssumption
  <2>2. Behind(k + 1)' = IF k + 1 <= sent' THEN sent' - (k + 1) ELSE sent' + SeqModulus - (k + 1)
    BY <1>1, <2>1, BackInRound DEF Behind
  <2>3. Behind(k) = IF k <= sent THEN sent - k ELSE sent + SeqModulus - k
    BY <2>1, BehindIs
  <2> QED BY <1>1, <2>1, <2>2, <2>3, BufferAssumption
<1> QED BY <1>2, <1>3

(* What is sent is none of what is waiting, so that nothing becomes old. *)
LEMMA SendInStep ==
    ASSUME PlayoutInv, Send, NEW d \in 0 .. Capacity - 1, d < SeqModulus, KeepsDistance(d)
    PROVE  KeepsDistance(d)'
<1>1. /\ sent \in 0 .. SeqModulus - 1 /\ d \in Nat /\ steady /\ lag = d
      /\ due = "send" /\ due' = "arrive" /\ buffer = OrderedBuffer(d, d)
      /\ sent' = Following(sent) /\ buffer' = [buffer EXCEPT !.frames = Aged(@, sent')]
      /\ lag' = lag /\ steady' = steady
  BY BufferAssumption DEF PlayoutInv, PlayoutTyped, Send, Turn, KeepsDistance
<1>2. \A k \in -1 .. SeqModulus - 2 : Behind(k + 1)' = Behind(k)
  BY <1>1, BehindShifts
<1>3. sent' \in 0 .. SeqModulus - 1
  BY <1>1, FollowingIs, BufferAssumption
<1>4. ASSUME NEW i \in 1 .. d
      PROVE  Behind(d - i) = Behind(d + 1 - i)' /\ Behind(d - i) # sent'
  <2>1. d - i \in -1 .. SeqModulus - 2 /\ (d - i) + 1 = d + 1 - i
        /\ d + 1 - i \in 0 .. SeqModulus - 1 /\ d + 1 - i # 0
    BY <1>1, BufferAssumption
  <2>2. Behind(d - i) = Behind(d + 1 - i)'
    BY <1>2, <2>1
  <2>3. /\ Behind(d + 1 - i)' = IF d + 1 - i <= sent' THEN sent' - (d + 1 - i)
                                ELSE sent' + SeqModulus - (d + 1 - i)
    BY <1>3, <2>1, BackInRound DEF Behind
  <2> QED BY <1>3, <2>1, <2>2, <2>3, BufferAssumption
<1>5. Behind(d)' = Behind(d - 1)
  <2>1. d - 1 \in -1 .. SeqModulus - 2 /\ (d - 1) + 1 = d
    BY <1>1, BufferAssumption
  <2> QED BY <1>2, <2>1
<1>6. Aged(Ordered(d, d), sent') = Ordered(d + 1, d)'
  <2>1. /\ DOMAIN Ordered(d, d) = 1 .. d
        /\ \A i \in 1 .. d : Ordered(d, d)[i] = [seq |-> Behind(d - i), old |-> FALSE]
    BY <1>1 DEF Ordered
  <2>2. ASSUME NEW i \in 1 .. d
        PROVE  [Ordered(d, d)[i] EXCEPT !.old = @ \/ Ordered(d, d)[i].seq = sent']
               = [seq |-> Behind(d + 1 - i)', old |-> FALSE]
    <3> DEFINE f == Ordered(d, d)[i]
               x == Behind(d + 1 - i)'
    <3>1. f = [seq |-> x, old |-> FALSE] /\ x # sent'
      BY <1>4, <2>1
    <3> HIDE DEF f, x
    <3>2. (f.old \/ f.seq = sent') = FALSE
      BY <3>1
    <3>3. f \in [seq : {x}, old : BOOLEAN]
      BY <3>1
    <3>4. [f EXCEPT !.old = @ \/ f.seq = sent']
          = [seq |-> f.seq, old |-> (f.old \/ f.seq = sent')]
      BY <3>3
    <3>5. f.seq = x
      BY <3>1
    <3> QED BY <3>2, <3>4, <3>5 DEF f, x
  <2>3. Ordered(d + 1, d)' = [i \in 1 .. d |-> [seq |-> Behind(d + 1 - i)', old |-> FALSE]]
    BY DEF Ordered
  <2> QED BY <2>1, <2>2, <2>3 DEF Aged
<1>7. buffer' = [next_seq |-> Behind(d - 1), frames |-> Aged(Ordered(d, d), sent')]
  BY <1>1 DEF OrderedBuffer
<1>8. buffer' = OrderedBuffer(d + 1, d)'
  <2>1. d + 1 - 1 = d
    BY <1>1
  <2> QED BY <1>5, <1>6, <1>7, <2>1 DEF OrderedBuffer
<1> QED BY <1>1, <1>8 DEF KeepsDistance

(* It joins them at the end; there is room. *)
LEMMA ArriveInStep ==
    ASSUME PlayoutInv, Arrive, NEW d \in 0 .. Capacity - 1, d < SeqModulus, KeepsDistance(d)
    PROVE  KeepsDistance(d)'
<1> DEFINE frame == [seq |-> Behind(0), old |-> FALSE]
           waiting == Ordered(d + 1, d)
<1>1. /\ sent \in 0 .. SeqModulus - 1 /\ d \in Nat /\ steady /\ lag = d
      /\ due = "arrive" /\ due' = "play" /\ buffer = OrderedBuffer(d + 1, d)
      /\ sent' = sent /\ lag' = lag /\ steady' = steady
  BY BufferAssumption DEF PlayoutInv, PlayoutTyped, Arrive, Turn, KeepsDistance
<1>2. buffer' = Push(buffer, frame)
  <2>1. 0 .. 0 = {0}
    OBVIOUS
  <2> QED BY <1>1, <2>1 DEF Arrive
<1>3. /\ Len(waiting) = d /\ DOMAIN waiting = 1 .. d
      /\ \A i \in 1 .. d : waiting[i] = [seq |-> Behind(d + 1 - i), old |-> FALSE]
                           /\ waiting[i].seq = Behind(d + 1 - i)
  BY <1>1 DEF Ordered
<1>4. ASSUME NEW i \in 1 .. d PROVE Behind(d + 1 - i) # Behind(0)
  <2>1. d + 1 - i \in 0 .. SeqModulus - 1 /\ 0 \in 0 .. SeqModulus - 1 /\ d + 1 - i # 0
    BY <1>1, BufferAssumption
  <2> QED BY <1>1, <2>1, BehindIsOneToOne
<1>5. Behind(0) \notin Seqs(waiting)
  BY <1>3, <1>4 DEF Seqs
<1>6. ~ Full(waiting)
  BY <1>3, BufferAssumption DEF Full
<1>7. buffer.frames = waiting /\ buffer.next_seq = Behind(d)
  <2>1. d + 1 - 1 = d
    BY <1>1
  <2> QED BY <1>1, <2>1 DEF OrderedBuffer
<1>8. waiting \in Seq(PlayoutFrame)
  BY <1>7 DEF PlayoutInv, PlayoutTyped, Buffer
<1>13. frame \in PlayoutFrame
  <2>1. Behind(0) \in 0 .. SeqModulus - 1
    BY <1>1, BehindIs, BufferAssumption
  <2> QED BY <2>1 DEF PlayoutFrame
<1> HIDE DEF waiting, frame
<1>9. Push(buffer, frame) = [buffer EXCEPT !.frames = Append(waiting, frame)]
  BY <1>5, <1>6, <1>7 DEF Push, frame
<1>10. Append(waiting, frame) = Ordered(d + 1, d + 1)
  <2>1. Append(waiting, frame) = [i \in 1 .. d + 1 |-> IF i <= d THEN waiting[i] ELSE frame]
    <3>1. /\ Append(waiting, frame) \in Seq(PlayoutFrame)
          /\ Len(Append(waiting, frame)) = d + 1
          /\ \A i \in 1 .. d + 1 :
                Append(waiting, frame)[i] = IF i <= d THEN waiting[i] ELSE frame
      BY <1>1, <1>3, <1>8, <1>13
    <3>2. \A q \in Seq(PlayoutFrame) : q = [i \in 1 .. Len(q) |-> q[i]]
      OBVIOUS
    <3>3. Append(waiting, frame) = [i \in 1 .. d + 1 |-> Append(waiting, frame)[i]]
      BY <3>1, <3>2
    <3> QED BY <3>1, <3>3
  <2>2. ASSUME NEW i \in 1 .. d + 1
        PROVE  (IF i <= d THEN waiting[i] ELSE frame) = [seq |-> Behind(d + 1 - i), old |-> FALSE]
    <3>1. CASE i <= d
      BY <1>1, <1>3, <3>1
    <3>2. CASE ~ (i <= d)
      <4>1. d + 1 - i = 0
        BY <1>1, <3>2
      <4> QED BY <3>2, <4>1 DEF frame
    <3> QED BY <3>1, <3>2
  <2> QED BY <2>1, <2>2 DEF Ordered
<1>11. buffer' = OrderedBuffer(d + 1, d + 1)
  <2>1. buffer' = [next_seq |-> Behind(d), frames |-> Append(waiting, frame)]
    BY <1>1, <1>2, <1>7, <1>9 DEF OrderedBuffer
  <2>2. d + 1 - 1 = d
    BY <1>1
  <2> QED BY <1>10, <2>1, <2>2 DEF OrderedBuffer
<1>12. OrderedBuffer(d + 1, d + 1)' = OrderedBuffer(d + 1, d + 1)
  BY <1>1 DEF OrderedBuffer, Ordered, Behind
<1> QED BY <1>1, <1>11, <1>12 DEF KeepsDistance

(* The first of them is expected, and the others stay. *)
LEMMA PlayInStep ==
    ASSUME PlayoutInv, Play, NEW d \in 0 .. Capacity - 1, d < SeqModulus, KeepsDistance(d)
    PROVE  KeepsDistance(d)'
<1> DEFINE frames == Ordered(d + 1, d + 1)
           first == Behind(d)
<1>1. /\ sent \in 0 .. SeqModulus - 1 /\ d \in Nat /\ steady /\ lag = d
      /\ due = "play" /\ due' = "send" /\ buffer = OrderedBuffer(d + 1, d + 1)
      /\ sent' = sent /\ steady' = steady
      /\ buffer' = Pop(buffer) /\ lag' = LagOf(Played(buffer))
  BY BufferAssumption DEF PlayoutInv, PlayoutTyped, Play, Turn, KeepsDistance
<1>2. /\ Len(frames) = d + 1 /\ DOMAIN frames = 1 .. d + 1
      /\ \A i \in 1 .. d + 1 : /\ frames[i] = [seq |-> Behind(d + 1 - i), old |-> FALSE]
                               /\ frames[i].seq = Behind(d + 1 - i) /\ frames[i].old = FALSE
  <2>1. d + 1 \in Nat
    BY <1>1
  <2> QED BY <2>1 DEF Ordered
<1>3. buffer.frames = frames /\ buffer.next_seq = first
  <2>1. d + 1 - 1 = d
    BY <1>1
  <2> QED BY <1>1, <2>1 DEF OrderedBuffer
<1>4. frames \in Seq(PlayoutFrame)
  BY <1>3 DEF PlayoutInv, PlayoutTyped, Buffer
<1>5. /\ d \in 0 .. SeqModulus - 1
      /\ first = IF d <= sent THEN sent - d ELSE sent + SeqModulus - d
      /\ first \in 0 .. SeqModulus - 1 /\ first # None
  <2>1. d \in 0 .. SeqModulus - 1
    BY <1>1, BufferAssumption
  <2>2. first = IF d <= sent THEN sent - d ELSE sent + SeqModulus - d
    BY <1>1, <2>1, BehindIs
  <2> QED BY <1>1, <2>1, <2>2, BufferAssumption DEF None
<1> HIDE DEF frames, first
<1>6. 1 \in 1 .. d + 1 /\ frames[1].seq = first /\ frames[1].old = FALSE
  <2>1. 1 \in 1 .. d + 1 /\ d + 1 - 1 = d
    BY <1>1
  <2> QED BY <1>2, <2>1 DEF first
<1>7. ASSUME NEW i \in 1 .. d + 1, frames[i].seq = first PROVE i = 1
  <2>1. d + 1 - i \in 0 .. SeqModulus - 1
    BY <1>1, BufferAssumption
  <2>2. Behind(d + 1 - i) = Behind(d)
    BY <1>2, <1>7 DEF first
  <2>3. d + 1 - i = d
    BY <1>1, <1>5, <2>1, <2>2, BehindIsOneToOne
  <2> QED BY <1>1, <2>3
<1>8. Position(frames, first) = 1
  BY <1>2, <1>6, <1>7 DEF Position
<1>9. Played(buffer) = first
  <2>1. Expected(buffer) = first
    BY <1>3, <1>5 DEF Expected
  <2>2. first \in Seqs(frames)
    BY <1>2, <1>6 DEF Seqs
  <2> QED BY <1>3, <2>1, <2>2 DEF Played
<1>10. lag' = d
  <2>1. lag' = (sent + SeqModulus - first) % SeqModulus
    BY <1>1, <1>3, <1>5, <1>6, <1>8, <1>9 DEF LagOf
  <2>2. (sent + SeqModulus - first) % SeqModulus
        = IF first <= sent THEN sent - first ELSE sent + SeqModulus - first
    BY <1>1, <1>5, BackInRound
  <2> QED BY <1>1, <1>5, <2>1, <2>2, BufferAssumption
<1>11. Pop(buffer) = [next_seq |-> (first + 1) % SeqModulus, frames |-> RemoveAt(frames, 1)]
  BY <1>3, <1>5, <1>8, <1>9 DEF Pop
<1>12. (first + 1) % SeqModulus = Behind(d - 1)
  <2>1. CASE d <= sent
    <3>1. (first + 1) % SeqModulus = (first + 1 + SeqModulus) % SeqModulus
      <4>1. CASE first = SeqModulus - 1
        <5>1. SeqModulus \in Nat \ {0} /\ first + 1 = SeqModulus
          BY <4>1, BufferAssumption
        <5>2. \A m \in Nat \ {0} : (m + m) % m = 0 /\ m % m = 0
          OBVIOUS
        <5> QED BY <5>1, <5>2
      <4>2. CASE first # SeqModulus - 1
        <5>1. first + 1 \in 0 .. SeqModulus - 1
          BY <1>5, <4>2, BufferAssumption
        <5> QED BY <5>1, RoundFacts
      <4> QED BY <4>1, <4>2
    <3>2. sent + SeqModulus - (d - 1) = first + 1 + SeqModulus
      BY <1>1, <1>5, <2>1, BufferAssumption
    <3> QED BY <3>1, <3>2 DEF Behind
  <2>2. CASE ~ (d <= sent)
    <3>1. sent + SeqModulus - (d - 1) = first + 1
      BY <1>1, <1>5, <2>2, BufferAssumption
    <3> QED BY <3>1 DEF Behind
  <2> QED BY <2>1, <2>2
<1>13. RemoveAt(frames, 1) = Ordered(d, d)
  <2>1. RemoveAt(frames, 1) = SubSeq(frames, 1, 0) \o SubSeq(frames, 2, d + 1)
    BY <1>2 DEF RemoveAt
  <2>2. SubSeq(frames, 1, 0) = << >>
    BY <1>4
  <2>3. /\ SubSeq(frames, 2, d + 1) \in Seq(PlayoutFrame)
        /\ SubSeq(frames, 2, d + 1) = [i \in 1 .. d |-> frames[i + 1]]
    BY <1>1, <1>2, <1>4
  <2>4. RemoveAt(frames, 1) = [i \in 1 .. d |-> frames[i + 1]]
    BY <2>1, <2>2, <2>3
  <2>5. ASSUME NEW i \in 1 .. d PROVE frames[i + 1] = [seq |-> Behind(d - i), old |-> FALSE]
    <3>1. i + 1 \in 1 .. d + 1 /\ d + 1 - (i + 1) = d - i
      BY <1>1
    <3> QED BY <1>2, <3>1
  <2> QED BY <2>4, <2>5 DEF Ordered
<1>14. buffer' = OrderedBuffer(d, d)'
  <2>1. OrderedBuffer(d, d)' = OrderedBuffer(d, d)
    BY <1>1 DEF OrderedBuffer, Ordered, Behind
  <2> QED BY <1>1, <1>11, <1>12, <1>13, <2>1 DEF OrderedBuffer
<1> QED BY <1>1, <1>10, <1>14 DEF KeepsDistance

(* Where push and pop have once come to play frame after frame at one      *)
(* distance from the sender, they do so for as long as the frames come     *)
(* steadily, through every wrap of the sequence numbers.  This is what     *)
(* SteadyPlayout needs of the steps; that they come to it is left to TLC.  *)
THEOREM DistanceIsKept ==
    PlayoutSpec => [](InStep => [][lag' = lag /\ lag \in 0 .. Capacity - 1]_playoutVars)
<1>1. PlayoutInv /\ InStep /\ [PlayoutNext]_playoutVars
          => InStep' /\ [lag' = lag /\ lag \in 0 .. Capacity - 1]_playoutVars
  <2> SUFFICES ASSUME PlayoutInv, [PlayoutNext]_playoutVars,
                      NEW d \in 0 .. Capacity - 1, d < SeqModulus, KeepsDistance(d)
               PROVE  KeepsDistance(d)'
    BY DEF InStep, KeepsDistance
  <2>1. CASE Send
    BY <2>1, SendInStep
  <2>2. CASE Arrive
    BY <2>2, ArriveInStep
  <2>3. CASE Play
    BY <2>3, PlayInStep
  <2>4. ~ Settle
    BY DEF Settle, KeepsDistance
  <2>5. CASE UNCHANGED playoutVars
    BY <2>5 DEF playoutVars, KeepsDistance, OrderedBuffer, Ordered, Behind
  <2> QED BY <2>1, <2>2, <2>3, <2>4, <2>5 DEF PlayoutNext
<1> QED BY <1>1, PlayoutInitInvariant, PlayoutInductive, PTL DEF PlayoutSpec
=============================================================================
