------------------------------- MODULE SipCall -------------------------------
(***************************************************************************)
(* The calls of the phone: SipTask of app with the dialog and the INVITE   *)
(* server transactions of its SipStack, between the network (any caller    *)
(* that follows SIP; a message may be duplicated, delayed, reordered or    *)
(* lost), the user's button and the clock.                                 *)
(*                                                                         *)
(* The task is one thread: a step is one message handled to its end, one   *)
(* button event, one expiry of the ring timeout or one poll of the timers. *)
(* Its loop runs every 10 ms, so a Tick never passes over what is due; the *)
(* order of the calls inside a turn of the loop is left open.              *)
(*                                                                         *)
(* The three tasks it commands are seen through what was last sent to      *)
(* them: phone is the PhoneState that the UI and the audio task were told  *)
(* (they are always told together), rtp the call whose media address the   *)
(* RTP task was given, NoCall when it was told to stop.                    *)
(***************************************************************************)
EXTENDS Dialog, FiniteSets

CONSTANTS
    CSeq,         \* CSeq numbers of INVITEs: 1 opens the call, others modify it
    Offer,        \* Offer[call, cseq]: the SDP body of that INVITE
    RingTimeout,  \* settings.ring_timeout, in ticks
    MaxTag        \* bound: how many dialogs are given a local tag

ASSUME CSeqAssumption == CSeq \subseteq Nat \ {0} /\ 1 \in CSeq

ASSUME OfferAssumption == Offer \in [CallId \X CSeq -> {"none", "bad", "hold", "media"}]

ASSUME RingAssumption == RingTimeout \in Nat \ {0} /\ MaxTag \in Nat

PhoneState == {"Idle", "Ringing", "Established"}

(* invite and ring_deadline are the fields of CallContext; remote_sdp is   *)
(* reduced to whose media it describes, NoCall when its port is 0 (hold).  *)
CallContext ==
    [invite : Request, remote_sdp : CallId \cup {NoCall}, ring_deadline : Timer(RingTimeout)]

NoContext == [invite |-> NoRequest, remote_sdp |-> NoCall, ring_deadline |-> None]

Final == [call_id : CallId, cseq : CSeq, status : 200 .. 699, tag : Nat \cup {OneOffTag}]

VARIABLES
    dialog,        \* SipStack.dialog.state
    next_tag,      \* the tag the next dialog is given
    transactions,  \* SipStack.invite_transactions
    call_ctx,      \* SipTask.call_ctx
    phone,         \* last state sent to the UI and audio tasks
    rtp,           \* last command sent to the RTP task
    finals         \* every final response to an INVITE put on the wire

vars == <<dialog, next_tag, transactions, call_ctx, phone, rtp, finals>>

Init ==
    /\ dialog = IdleDialog
    /\ next_tag = 1
    /\ transactions = {}
    /\ call_ctx = NoContext
    /\ phone = "Idle"
    /\ rtp = NoCall
    /\ finals = {}

PhoneStateOf(d) ==
    IF d.state = "Terminated" THEN "Idle" ELSE d.state

InCall == call_ctx # NoContext

Answered == InCall /\ call_ctx.ring_deadline = None

OfferOf(req) == Offer[<<req.call_id, req.cseq>>]

MediaOf(req) == IF OfferOf(req) = "hold" THEN NoCall ELSE req.call_id

Usable(req) == OfferOf(req) \in {"hold", "media"}

(* Mutant of Send: the counter of tags does not advance. *)
SendReusingTag(txs, d, req, status) ==
    /\ transactions' =
         IF Buildable(req) THEN OnOutgoingResponse(txs, req.call_id, req.cseq, status) ELSE txs
    /\ finals' =
         IF Buildable(req) /\ IsFinal(status)
         THEN finals \cup {[call_id |-> req.call_id, cseq |-> req.cseq, status |-> status,
                            tag |-> ResponseTag(d, req, next_tag)]}
         ELSE finals
    /\ UNCHANGED next_tag

(* Build, record and send a response to an INVITE while the dialog is d    *)
(* and the transactions are txs: nothing happens when it cannot be built.  *)
Send(txs, d, req, status) ==
    /\ transactions' =
         IF Buildable(req) THEN OnOutgoingResponse(txs, req.call_id, req.cseq, status) ELSE txs
    /\ finals' =
         IF Buildable(req) /\ IsFinal(status)
         THEN finals \cup {[call_id |-> req.call_id, cseq |-> req.cseq, status |-> status,
                            tag |-> ResponseTag(d, req, next_tag)]}
         ELSE finals
    /\ next_tag' = IF TakesTag(d, req) THEN next_tag + 1 ELSE next_tag

(* Mutants of EndCall: the stream is not stopped, the context is not       *)
(* cleared, the other tasks are not told.                                  *)
EndCallStreaming ==
    dialog' = TerminatedDialog /\ phone' = "Idle" /\ call_ctx' = NoContext /\ UNCHANGED rtp

EndCallKeepingContext ==
    dialog' = TerminatedDialog /\ phone' = "Idle" /\ rtp' = NoCall /\ UNCHANGED call_ctx

EndCallSilently ==
    dialog' = TerminatedDialog /\ rtp' = NoCall /\ call_ctx' = NoContext /\ UNCHANGED phone

(* broadcast_phone_state, stop_rtp_streams and the end of the context. *)
EndCall ==
    /\ dialog' = TerminatedDialog
    /\ phone' = "Idle"
    /\ rtp' = NoCall
    /\ call_ctx' = NoContext

----------------------------------------------------------------------------
(* INVITE.  The transaction manager sees it first; it resends the last     *)
(* response of a retransmission, which puts nothing new on the wire, and   *)
(* the dialog classifies the INVITE whether it is a retransmission or not. *)

Received(req) == OnInvite(transactions, req.call_id, req.cseq)

Initial(req) ==
    /\ InviteKind(dialog, req) = "Initial"
    /\ next_tag <= MaxTag

InviteIgnored(req) ==
    /\ Initial(req)
    /\ OfferOf(req) = "none"
    /\ dialog' = AfterInvite(dialog, req)
    /\ transactions' = Received(req)
    /\ UNCHANGED <<next_tag, call_ctx, phone, rtp, finals>>

InviteRefused(req) ==
    LET d == AfterInvite(dialog, req) IN
    /\ Initial(req)
    /\ OfferOf(req) = "bad"
    /\ Send(Received(req), d, req, 488)
    /\ dialog' = AfterResponse(d, req, next_tag)
    /\ UNCHANGED <<call_ctx, phone, rtp>>

InviteRings(req) ==
    LET d == AfterInvite(dialog, req) IN
    /\ Initial(req)
    /\ Usable(req)
    /\ Send(Received(req), d, req, 180)
    /\ dialog' = AfterResponse(d, req, next_tag)
    /\ call_ctx' = [invite |-> req, remote_sdp |-> MediaOf(req), ring_deadline |-> RingTimeout]
    /\ phone' = "Ringing"
    /\ UNCHANGED rtp

Reinvite(req) == InviteKind(dialog, req) = "Reinvite"

(* No usable offer, or no call context: an INVITE of the ringing dialog     *)
(* itself can meet a dialog that an INVITE without an offer left so.       *)
ReinviteRefused(req) ==
    /\ Reinvite(req)
    /\ ~ (Usable(req) /\ InCall)
    /\ Send(Received(req), dialog, req, IF Usable(req) THEN 481 ELSE 488)
    /\ dialog' = AfterResponse(dialog, req, next_tag)
    /\ UNCHANGED <<call_ctx, phone, rtp>>

ReinviteAccepted(req) ==
    /\ Reinvite(req)
    /\ Usable(req)
    /\ InCall
    /\ call_ctx' = [call_ctx EXCEPT !.remote_sdp = MediaOf(req)]
    /\ rtp' = MediaOf(req)
    /\ Send(Received(req), dialog, req, 200)
    /\ dialog' = AfterResponse(dialog, req, next_tag)
    /\ UNCHANGED phone

InviteBusy(req) ==
    /\ InviteKind(dialog, req) = "InitialWhileBusy"
    /\ Send(Received(req), dialog, req, 486)
    /\ dialog' = AfterResponse(dialog, req, next_tag)
    /\ UNCHANGED <<call_ctx, phone, rtp>>

RecvInvite(req) ==
    \/ InviteIgnored(req) \/ InviteRefused(req) \/ InviteRings(req)
    \/ ReinviteRefused(req) \/ ReinviteAccepted(req)
    \/ InviteBusy(req)

----------------------------------------------------------------------------
(* ACK, CANCEL and BYE.  A CANCEL or BYE that does not match changes       *)
(* nothing; an ACK that does not match still confirms its transaction.     *)

AckConfirms(f) ==
    /\ AckMatches(dialog, f.call_id, f.tag)
    /\ transactions' = OnAck(transactions, f.call_id, f.cseq)
    /\ dialog' = AfterAck(dialog)
    /\ phone' = "Established"
    /\ rtp' = IF InCall THEN call_ctx.remote_sdp ELSE rtp
    /\ UNCHANGED <<next_tag, call_ctx, finals>>

AckUnmatched(f) ==
    /\ ~ AckMatches(dialog, f.call_id, f.tag)
    /\ transactions' = OnAck(transactions, f.call_id, f.cseq)
    /\ UNCHANGED <<dialog, next_tag, call_ctx, phone, rtp, finals>>

RecvAck(f) == AckConfirms(f) \/ AckUnmatched(f)

(* The two responses are built while the state is Idle, taken out of the   *)
(* dialog; if the first cannot be built, Idle is what stays.               *)
CancelEnds(call) ==
    /\ CancelMatches(dialog, call)
    /\ Buildable(dialog.original_invite)
    /\ Send(transactions, IdleDialog, dialog.original_invite, 487)
    /\ EndCall

CancelFails(call) ==
    /\ CancelMatches(dialog, call)
    /\ ~ Buildable(dialog.original_invite)
    /\ dialog' = IdleDialog
    /\ UNCHANGED <<next_tag, transactions, call_ctx, phone, rtp, finals>>

RecvCancel(call) == CancelEnds(call) \/ CancelFails(call)

(* The caller that sends BYE was sent a 200, so its requests can be        *)
(* answered: the failure of build_response_for_request cannot happen here. *)
RecvBye(f) ==
    /\ ByeMatches(dialog, f.call_id, f.tag)
    /\ EndCall
    /\ UNCHANGED <<next_tag, transactions, finals>>

----------------------------------------------------------------------------
(* The button and the timers *)

Answer ==
    /\ dialog.state = "Ringing"
    /\ InCall
    /\ Send(transactions, dialog, call_ctx.invite, 200)
    /\ dialog' = AfterResponse(dialog, call_ctx.invite, next_tag)
    /\ call_ctx' = [call_ctx EXCEPT !.ring_deadline = None]
    /\ UNCHANGED <<phone, rtp>>

HangUp ==
    /\ Answered
    /\ EndCall
    /\ UNCHANGED <<next_tag, transactions, finals>>

(* Mutant: the timeout is looked for in the wrong dialog state. *)
RingTimeoutDueWhenEstablished ==
    dialog.state = "Established" /\ InCall /\ call_ctx.ring_deadline = 0

RingTimeoutDue ==
    dialog.state = "Ringing" /\ InCall /\ call_ctx.ring_deadline = 0

(* Mutant: the call is dropped without a response to the INVITE. *)
CheckCallTimeoutsUnanswered ==
    /\ RingTimeoutDue
    /\ EndCall
    /\ UNCHANGED <<next_tag, transactions, finals>>

CheckCallTimeouts ==
    /\ RingTimeoutDue
    /\ Send(transactions, dialog, call_ctx.invite, 480)
    /\ EndCall

PollTimers ==
    /\ transactions' = PollTx(transactions)
    /\ UNCHANGED <<dialog, next_tag, call_ctx, phone, rtp, finals>>

Tick ==
    /\ ~ RingTimeoutDue
    /\ \A t \in transactions : ~ Due(t)
    /\ transactions' = { Elapse(t) : t \in transactions }
    /\ call_ctx' = [call_ctx EXCEPT !.ring_deadline = CountDown(@)]
    /\ UNCHANGED <<dialog, next_tag, phone, rtp, finals>>

----------------------------------------------------------------------------
(* What the callers and the network can deliver: the INVITE of any call at *)
(* any time; an ACK of a final response that was sent; a BYE or an INVITE  *)
(* inside the call, with the tag of the 200 that opened it; a CANCEL.      *)

Opened == { f \in finals : f.cseq = 1 /\ f.status = 200 }

OpeningInvite(call) == [call_id |-> call, cseq |-> 1, to_tag |-> NoTag]

LaterInvite(f, cseq) ==
    [call_id |-> f.call_id, cseq |-> cseq, to_tag |-> f.tag]

FromNetwork(call) ==
    \/ RecvInvite(OpeningInvite(call))
    \/ \E f \in Opened, cseq \in CSeq \ {1} :
         f.call_id = call /\ RecvInvite(LaterInvite(f, cseq))
    \/ \E f \in finals : f.call_id = call /\ RecvAck(f)
    \/ \E f \in Opened : f.call_id = call /\ RecvBye(f)
    \/ RecvCancel(call)

Next ==
    \/ \E call \in CallId : FromNetwork(call)
    \/ Answer
    \/ HangUp
    \/ CheckCallTimeouts
    \/ PollTimers
    \/ Tick

(* The task's loop never stops: it checks the ring timeout and polls the   *)
(* transactions on every turn, and time passes.                            *)
Fairness ==
    WF_vars(CheckCallTimeouts) /\ WF_vars(PollTimers) /\ WF_vars(Tick)

Spec == Init /\ [][Next]_vars /\ Fairness

----------------------------------------------------------------------------
(* Properties.  An ordinary caller puts a tag in From and a Via the phone  *)
(* can read in its requests; the properties that fail for the other        *)
(* callers say so in their hypothesis.                                     *)

Ordinary(call) == call \notin Untagged /\ call \notin CompactVia

OrdinaryCallers == \A call \in CallId : Ordinary(call)

TypeOK ==
    /\ dialog \in [state : DialogState, call_id : CallId \cup {NoCall}, local_tag : Nat,
                   original_invite : Request \cup {NoRequest}]
    /\ next_tag \in Nat
    /\ transactions \subseteq Transaction
    /\ call_ctx \in CallContext \cup {NoContext}
    /\ phone \in PhoneState
    /\ rtp \in CallId \cup {NoCall}
    /\ finals \subseteq Final

(* The RTP task is never left streaming to a call that is over, nor to a   *)
(* caller who is not the one the dialog is with, through re-INVITEs, hold, *)
(* a second caller, CANCEL, hang-up and BYE in any order.                  *)
StreamBelongsToDialog ==
    rtp # NoCall /\ Ordinary(rtp) => Live(dialog) /\ rtp = dialog.call_id

(* SipTask's context and the core's dialog, two records updated by         *)
(* different handlers, are about the same call; no context outlives its    *)
(* dialog, where Answer, HangUp and the ring timeout could not act on it.  *)
ContextBelongsToDialog ==
    InCall /\ Ordinary(call_ctx.invite.call_id) =>
        Live(dialog) /\ call_ctx.invite.call_id = dialog.call_id

(* The UI and the audio task know the state of the dialog, except when an  *)
(* INVITE without a usable offer left it ringing with no context.  Such a  *)
(* dialog may go on to be established, by the ACK of its 488, and shows    *)
(* that; but it never has a stream, which no button could end.             *)
PhoneShowsDialog ==
    OrdinaryCallers =>
        /\ \/ phone = PhoneStateOf(dialog)
           \/ phone = "Idle" /\ dialog.state = "Ringing" /\ ~ InCall
        /\ ~ InCall => rtp = NoCall

(* A To tag identifies one dialog: whatever order the dialogs of different *)
(* callers begin, are refused and end in, no two calls are sent responses  *)
(* with the same dialog tag, so that one caller's ACK or BYE cannot match  *)
(* another's call.                                                         *)
TagsIdentifyCalls ==
    \A f, g \in finals : f.tag = g.tag /\ f.tag # OneOffTag => f.call_id = g.call_id

(* Once the user has answered the INVITE that opened the dialog, the caller *)
(* was sent a 200 whose tag is the one the dialog waits for in the ACK.    *)
AnsweredCallIsConfirmable ==
    OrdinaryCallers /\ dialog.state = "Ringing" /\ Answered /\ call_ctx.invite.cseq = 1 =>
        \E f \in Opened : AckMatches(dialog, f.call_id, f.tag)

(* A caller other than the one the phone is in a call with changes nothing *)
(* of that call: not the dialog, its context, the stream or what is shown. *)
StrangersChangeNothing ==
    [][\A call \in CallId \ Untagged :
         Live(dialog) /\ dialog.call_id # call /\ FromNetwork(call)
           => UNCHANGED <<dialog, call_ctx, phone, rtp>>]_vars

(* A ring the user does not answer ends: the timeout is never postponed    *)
(* for ever by retransmissions, other callers or stray ACKs.               *)
Unanswered == phone = "Ringing" /\ InCall /\ ~ Answered

UnansweredRingEnds == OrdinaryCallers => (Unanswered ~> ~ Unanswered)

(* Every INVITE that opens a call with an SDP body is sent a final response *)
(* in the end, whatever state it found the phone in and whatever happened   *)
(* to it since.  One of a dialog that is over when it comes (CSeq 2) may    *)
(* ring, be established by the ACK of an older one, and get no answer.      *)
InviteIsAnswered ==
    OrdinaryCallers =>
        \A call \in CallId :
            Offer[call, 1] # "none" =>
                (Known(transactions, call, 1)
                   ~> \E f \in finals : f.call_id = call /\ f.cseq = 1)

(* What the source says, and does not do. *)

(* sip.rs:28, ring_deadline: "Some(...) while ringing, None otherwise". *)
DeadlineMeansRinging ==
    InCall /\ ~ Answered => dialog.state = "Ringing"

(* The phone is a single line: it implements the abstract CallSlot.        *)
Slot == INSTANCE CallSlot WITH
    owner  <- dialog.call_id,
    stage  <- IF dialog.state \in {"Idle", "Terminated"} THEN "Free" ELSE dialog.state,
    stream <- rtp # NoCall

ImplementsCallSlot == Slot!Spec
=============================================================================
