------------------------------- MODULE Playout -------------------------------
(***************************************************************************)
(* What the jitter buffer is for: a remote party numbers its frames, the   *)
(* network brings them late, twice, out of order or not at all, the audio  *)
(* task plays one per period while it listens.  At some point all this     *)
(* becomes steady, and the buffer has to recover from what it was left     *)
(* with.  A frame is old when its sequence number was used again.          *)
(***************************************************************************)
EXTENDS JitterBuffer

CONSTANT MaxLate   \* how many frames a frame may fall behind

ASSUME LateAssumption == MaxLate \in Nat /\ MaxLate < SeqModulus

VARIABLES
    sent,      \* the sequence number last sent
    buffer,
    steady,    \* each frame arrives, and one is played, before the next is sent
    due,       \* what comes next, when steady
    lag,       \* how far the frame last played was behind the one last sent;
               \* None for silence, Late for an old one (when steady)
    gap        \* periods of silence in a row (when steady)

playoutVars == <<sent, buffer, steady, due, lag, gap>>

Late == -2

PlayoutInit ==
    /\ sent \in 0 .. SeqModulus - 1
    /\ buffer = EmptyBuffer
    /\ steady = FALSE /\ due = "send"
    /\ lag = None /\ gap = 0

(* The sender, the network and the audio task take turns when steady; the  *)
(* sender may pause before, and so may the playout, while the button is    *)
(* held and the jitter buffer goes on being filled.                        *)
Turn(this, next) ==
    /\ steady => due = this
    /\ due' = IF steady THEN next ELSE due
    /\ UNCHANGED steady

Following(seq) == (seq + 1) % SeqModulus

Behind(k) == (sent + SeqModulus - k) % SeqModulus

(* What is left of a sequence number becomes old as it is used again. *)
Aged(frames, seq) ==
    [i \in DOMAIN frames |-> [frames[i] EXCEPT !.old = @ \/ frames[i].seq = seq]]

Send ==
    /\ Turn("send", "arrive")
    /\ sent' = Following(sent)
    /\ buffer' = [buffer EXCEPT !.frames = Aged(@, sent')]
    /\ UNCHANGED <<lag, gap>>

Arrive ==
    /\ Turn("arrive", "play")
    /\ \E k \in 0 .. (IF steady THEN 0 ELSE MaxLate) :
         buffer' = Push(buffer, [seq |-> Behind(k), old |-> FALSE])
    /\ UNCHANGED <<sent, lag, gap>>

LagOf(played) ==
    IF played = None THEN None
    ELSE IF buffer.frames[Position(buffer.frames, played)].old THEN Late
    ELSE (sent + SeqModulus - played) % SeqModulus

(* maybe_playout_one_frame *)
Play ==
    /\ Turn("play", "send")
    /\ buffer' = Pop(buffer)
    /\ IF steady
       THEN /\ lag' = LagOf(Played(buffer))
            /\ gap' = IF lag' = None THEN gap + 1 ELSE 0
       ELSE UNCHANGED <<lag, gap>>
    /\ UNCHANGED sent

Settle ==
    /\ ~ steady
    /\ steady' = TRUE
    /\ UNCHANGED <<sent, buffer, due, lag, gap>>

PlayoutNext == Send \/ Arrive \/ Play \/ Settle

(* A steady network and a steady device do not stop. *)
PlayoutSpec == PlayoutInit /\ [][PlayoutNext]_playoutVars /\ WF_playoutVars(steady /\ PlayoutNext)

----------------------------------------------------------------------------
(* Wherever playout and buffer were when the frames came steadily again,   *)
(* after a pause of the sender or of the listener too, the speaker is      *)
(* silent for fewer frames than the buffer holds: it fills up meanwhile,   *)
(* and playout goes on with what it holds.                                 *)
SilenceEnds == gap < Capacity

(* From then on the playout is, in the end, without a gap, in order and at *)
(* one distance from the sender.  In between it may jump, at the wrap of   *)
(* the sequence numbers where the least is not the oldest, and play frames *)
(* left behind, late by as much as a round of all sequence numbers.        *)
SteadyPlayout == <>steady => <>[][lag' = lag /\ lag \in 0 .. Capacity - 1]_playoutVars
=============================================================================
