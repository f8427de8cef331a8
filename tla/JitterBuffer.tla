---------------------------- MODULE JitterBuffer ----------------------------
(***************************************************************************)
(* The jitter buffer of rtp_audio: frames in the order they arrived, and   *)
(* the sequence number to play next.  A frame has a sequence number (seq)  *)
(* and what the user of this module tells frames apart by.                 *)
(***************************************************************************)
EXTENDS Integers, SequencesExt

CONSTANTS
    Capacity,     \* CAP, 10 in the audio task
    SeqModulus    \* sequence numbers wrap here, at 2^16

ASSUME BufferAssumption == Capacity \in Nat \ {0} /\ SeqModulus \in Nat \ {0}

None == -1

EmptyBuffer == [next_seq |-> None, frames |-> <<>>]

Seqs(frames) == { frames[i].seq : i \in DOMAIN frames }

Full(frames) == Len(frames) = Capacity

(* Mutant: a frame is added however many there are. *)
PushUnbounded(buffer, frame) ==
    [buffer EXCEPT !.frames = IF frame.seq \in Seqs(@) THEN @ ELSE Append(@, frame)]

(* A full buffer gives up its oldest arrival before the duplicate check. *)
Push(buffer, frame) ==
    LET room == IF Full(buffer.frames) THEN Tail(buffer.frames) ELSE buffer.frames IN
    [buffer EXCEPT !.frames = IF frame.seq \in Seqs(room) THEN room ELSE Append(room, frame)]

(* The sequence number to play; the least integer there is, at first. *)
Expected(buffer) ==
    IF buffer.next_seq = None /\ buffer.frames # <<>>
    THEN Min(Seqs(buffer.frames))
    ELSE buffer.next_seq

(* Mutant of Played: a full buffer waits for the expected frame too. *)
PlayedWaiting(buffer) ==
    IF Expected(buffer) \in Seqs(buffer.frames) THEN Expected(buffer) ELSE None

(* The frame that is played, or None for silence: the expected one or,     *)
(* when the buffer is full without it, the least.                          *)
Played(buffer) ==
    CASE Expected(buffer) \in Seqs(buffer.frames) -> Expected(buffer)
      [] Expected(buffer) \notin Seqs(buffer.frames) /\ Full(buffer.frames) ->
             Min(Seqs(buffer.frames))
      [] OTHER -> None

Position(frames, seq) == CHOOSE i \in DOMAIN frames : frames[i].seq = seq

(* Mutant of Pop: playing the least frame does not move what is expected. *)
PopUnmoved(buffer) ==
    LET played == Played(buffer) IN
    [next_seq |-> IF Expected(buffer) = None THEN None ELSE (Expected(buffer) + 1) % SeqModulus,
     frames   |-> IF played = None THEN buffer.frames
                  ELSE RemoveAt(buffer.frames, Position(buffer.frames, played))]

(* pop_frame: the buffer after it. *)
Pop(buffer) ==
    LET played == Played(buffer) IN
    IF played # None
    THEN [next_seq |-> (played + 1) % SeqModulus,
          frames   |-> RemoveAt(buffer.frames, Position(buffer.frames, played))]
    ELSE IF Expected(buffer) = None THEN buffer
    ELSE [buffer EXCEPT !.next_seq = (Expected(buffer) + 1) % SeqModulus]
=============================================================================
