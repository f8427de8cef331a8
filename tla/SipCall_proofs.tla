---------------------------- MODULE SipCall_proofs ----------------------------
(***************************************************************************)
(* What SipCall keeps true for any callers, whatever their INVITEs offer,  *)
(* any timer values and any number of dialogs: its shape, which call each  *)
(* record of it belongs to, the tags, the single line, and what is owed to *)
(* the user and to the caller while a call rings.                          *)
(***************************************************************************)
EXTENDS SipCall, InviteServerTx_proofs

Sent == [call_id : CallId, cseq : CSeq, to_tag : Nat \cup {OneOffTag}]

DialogOK(d) ==
    /\ d \in [state : DialogState, call_id : CallId \cup {NoCall}, local_tag : Nat,
              original_invite : Request \cup {NoRequest}]
    /\ Live(d) => d.call_id \in CallId \ Untagged
    /\ ~ Live(d) => d.call_id = NoCall
    /\ d.state = "Ringing" => d.original_invite \in Sent /\ d.original_invite.call_id = d.call_id

ContextOK(c) == c = NoContext \/ (c \in CallContext /\ c.invite \in Sent)

(* A call that is held, by the context or by the stream, is the dialog's. *)
Held(call, d) == call # NoCall /\ Ordinary(call) => Live(d) /\ call = d.call_id

(* The context and the stream are about the dialog's call: what the stream *)
(* is given comes from the context, so the context's SDP must be too.      *)
Bound(d, c, r) ==
    Held(c.invite.call_id, d) /\ Held(c.remote_sdp, d) /\ Held(r, d)

IInv ==
    /\ WellKept(transactions)
    /\ DialogOK(dialog)
    /\ next_tag \in Nat \ {0}
    /\ ContextOK(call_ctx)
    /\ phone \in PhoneState
    /\ rtp \in CallId \cup {NoCall}
    /\ finals \subseteq Final
    /\ Bound(dialog, call_ctx, rtp)

----------------------------------------------------------------------------
(* Lemmas about the operators *)

(* A response changes nothing of the dialog but its local tag. *)
LEMMA AfterResponseKept ==
    ASSUME NEW d, DialogOK(d), NEW req, NEW n \in Nat
    PROVE  LET e == AfterResponse(d, req, n)
           IN  /\ DialogOK(e)
               /\ e.state = d.state /\ e.call_id = d.call_id
               /\ e.original_invite = d.original_invite
BY DEF DialogOK, AfterResponse, Live

(* What is held stays held by a dialog of the same state and call. *)
LEMMA HeldBySame ==
    ASSUME NEW d, NEW e, NEW c, NEW r, e.state = d.state, e.call_id = d.call_id,
           Bound(d, c, r)
    PROVE  Bound(e, c, r)
BY DEF Bound, Held, Live

(* An initial INVITE meets a dialog that is over, or leaves it alone: what *)
(* was held, was held by no ordinary caller.                               *)
LEMMA AfterInviteKept ==
    ASSUME NEW d, DialogOK(d), NEW req \in Sent, InviteKind(d, req) = "Initial"
    PROVE  LET e == AfterInvite(d, req)
           IN  /\ DialogOK(e)
               /\ \A c : Held(c, d) => Held(c, e)
               /\ Held(req.call_id, e)
<1>1. CASE req.call_id \in Untagged
  <2>1. AfterInvite(d, req) = d
    BY <1>1 DEF AfterInvite
  <2>2. ~ Ordinary(req.call_id)
    BY <1>1 DEF Ordinary
  <2> QED
    BY <2>1, <2>2 DEF Held
<1>2. CASE req.call_id \notin Untagged
  <2>1. ~ Live(d)
    BY <1>2 DEF InviteKind
  <2>2. AfterInvite(d, req) = RingingDialog(req)
    BY <1>2 DEF AfterInvite
  <2>3. DialogOK(RingingDialog(req))
    <3>1. req \in Request
      BY CSeqAssumption DEF Sent, Request
    <3> QED
      BY <1>2, <3>1 DEF RingingDialog, DialogOK, DialogState, Live, NoTag, Sent
  <2>4. Live(RingingDialog(req)) /\ RingingDialog(req).call_id = req.call_id
    BY DEF RingingDialog, Live
  <2> QED
    BY <2>1, <2>2, <2>3, <2>4 DEF Held
<1> QED
  BY <1>1, <1>2

(* An ended dialog holds nothing, and nothing is held. *)
LEMMA EndedKept ==
    /\ DialogOK(TerminatedDialog) /\ DialogOK(IdleDialog)
    /\ ContextOK(NoContext)
    /\ \A d : Bound(d, NoContext, NoCall)
BY DEF DialogOK, TerminatedDialog, IdleDialog, Live, DialogState, NoTag, ContextOK, Bound, Held,
       NoContext, NoRequest

(* The history and the counter of tags, when a response is sent. *)
LEMMA SendKept ==
    ASSUME NEW txs, WellKept(txs), NEW d, DialogOK(d), NEW req \in Sent,
           NEW status \in 100 .. 699, next_tag \in Nat \ {0}, finals \subseteq Final,
           Send(txs, d, req, status)
    PROVE  WellKept(transactions') /\ next_tag' \in Nat \ {0} /\ finals' \subseteq Final
<1>1. req.call_id \in CallId /\ req.cseq \in CSeq /\ req.cseq \in Nat
  BY CSeqAssumption DEF Sent
<1>2. WellKept(transactions')
  BY <1>1, OnOutgoingResponseKept DEF Send
<1>3. next_tag' \in Nat \ {0}
  BY DEF Send
<1>4. ResponseTag(d, req, next_tag) \in Nat \cup {OneOffTag}
  <2>1. AfterResponse(d, req, next_tag).local_tag \in Nat
    BY AfterResponseKept DEF DialogOK
  <2> QED
    BY <2>1 DEF ResponseTag, Sent
<1>5. IsFinal(status) => status \in 200 .. 699
  BY DEF IsFinal
<1>6. finals' \subseteq Final
  BY <1>1, <1>4, <1>5 DEF Send, Final
<1> QED
  BY <1>2, <1>3, <1>6
----------------------------------------------------------------------------
(* The steps *)

LEMMA SentIsRequest ==
    ASSUME NEW req \in Sent
    PROVE  req \in Request /\ req.call_id \in CallId /\ req.cseq \in CSeq /\ req.cseq \in Nat
BY CSeqAssumption DEF Sent, Request

LEMMA MediaOfType ==
    ASSUME NEW req \in Sent
    PROVE  MediaOf(req) \in {req.call_id, NoCall}
BY DEF MediaOf

(* An INVITE, whatever it is classified as. *)
LEMMA RecvInviteKept ==
    ASSUME IInv, NEW req \in Sent, RecvInvite(req)
    PROVE  IInv'
<1> DEFINE txs == Received(req)
           d == AfterInvite(dialog, req)
<1> USE DEF IInv
<1>a. WellKept(txs)
  BY SentIsRequest, OnInviteKept DEF Received
<1>b. req.call_id \in CallId
  BY SentIsRequest
<1>c. next_tag \in Nat
  OBVIOUS
<1> HIDE DEF txs
<1>1. CASE InviteIgnored(req)
  <2>1. DialogOK(d) /\ \A c : Held(c, dialog) => Held(c, d)
    BY <1>1, AfterInviteKept DEF InviteIgnored, Initial
  <2>2. Bound(d, call_ctx, rtp)
    BY <2>1 DEF Bound
  <2> QED
    BY <1>1, <1>a, <2>1, <2>2 DEF InviteIgnored, txs
<1>2. CASE InviteRefused(req)
  <2>1. DialogOK(d) /\ \A c : Held(c, dialog) => Held(c, d)
    BY <1>2, AfterInviteKept DEF InviteRefused, Initial
  <2>2. Bound(d, call_ctx, rtp)
    BY <2>1 DEF Bound
  <2>3. Send(txs, d, req, 488) /\ dialog' = AfterResponse(d, req, next_tag)
        /\ UNCHANGED <<call_ctx, phone, rtp>>
    BY <1>2 DEF InviteRefused, txs
  <2> HIDE DEF d
  <2>4. WellKept(transactions') /\ next_tag' \in Nat \ {0} /\ finals' \subseteq Final
    BY <1>a, <2>1, <2>3, SendKept
  <2>5. /\ DialogOK(dialog')
        /\ dialog'.state = d.state /\ dialog'.call_id = d.call_id
    BY <1>c, <2>1, <2>3, AfterResponseKept
  <2>6. Bound(dialog', call_ctx, rtp)
    BY <2>2, <2>5, HeldBySame
  <2> QED
    BY <2>3, <2>4, <2>5, <2>6
<1>3. CASE InviteRings(req)
  <2> DEFINE c == [invite |-> req, remote_sdp |-> MediaOf(req), ring_deadline |-> RingTimeout]
  <2>1. DialogOK(d) /\ (\A x : Held(x, dialog) => Held(x, d)) /\ Held(req.call_id, d)
    BY <1>3, AfterInviteKept DEF InviteRings, Initial
  <2>2. Bound(d, c, rtp)
    BY <2>1, MediaOfType DEF Bound, Held
  <2>3. Send(txs, d, req, 180) /\ dialog' = AfterResponse(d, req, next_tag)
        /\ call_ctx' = c /\ phone' = "Ringing" /\ rtp' = rtp
    BY <1>3 DEF InviteRings, txs
  <2>7. ContextOK(c)
    <3>1. RingTimeout \in Timer(RingTimeout)
      BY RingAssumption DEF Timer
    <3> QED
      BY <1>b, <3>1, MediaOfType, SentIsRequest DEF ContextOK, CallContext
  <2> HIDE DEF d, c
  <2>4. WellKept(transactions') /\ next_tag' \in Nat \ {0} /\ finals' \subseteq Final
    BY <1>a, <2>1, <2>3, SendKept
  <2>5. /\ DialogOK(dialog')
        /\ dialog'.state = d.state /\ dialog'.call_id = d.call_id
    BY <1>c, <2>1, <2>3, AfterResponseKept
  <2>6. Bound(dialog', c, rtp)
    BY <2>2, <2>5, HeldBySame
  <2> QED
    BY <2>3, <2>4, <2>5, <2>6, <2>7 DEF PhoneState
<1>4. ASSUME NEW status \in 100 .. 699, Send(txs, dialog, req, status),
             dialog' = AfterResponse(dialog, req, next_tag)
      PROVE  /\ WellKept(transactions') /\ next_tag' \in Nat \ {0} /\ finals' \subseteq Final
             /\ DialogOK(dialog')
             /\ dialog'.state = dialog.state /\ dialog'.call_id = dialog.call_id
  <2>1. WellKept(transactions') /\ next_tag' \in Nat \ {0} /\ finals' \subseteq Final
    BY <1>a, <1>4, SendKept
  <2>2. DialogOK(dialog') /\ dialog'.state = dialog.state /\ dialog'.call_id = dialog.call_id
    BY <1>c, <1>4, AfterResponseKept
  <2> QED
    BY <2>1, <2>2
<1>5. CASE ReinviteRefused(req) \/ InviteBusy(req)
  <2>1. \E status \in 100 .. 699 : Send(txs, dialog, req, status)
    BY <1>5 DEF ReinviteRefused, InviteBusy, txs
  <2>2. dialog' = AfterResponse(dialog, req, next_tag) /\ UNCHANGED <<call_ctx, phone, rtp>>
    BY <1>5 DEF ReinviteRefused, InviteBusy
  <2>3. Bound(dialog', call_ctx, rtp)
    BY <1>4, <2>1, <2>2, HeldBySame
  <2> QED
    BY <1>4, <2>1, <2>2, <2>3
<1>6. CASE ReinviteAccepted(req)
  <2> DEFINE c == [call_ctx EXCEPT !.remote_sdp = MediaOf(req)]
             m == MediaOf(req)
  <2>1. Send(txs, dialog, req, 200) /\ dialog' = AfterResponse(dialog, req, next_tag)
    BY <1>6 DEF ReinviteAccepted, txs
  <2>2. call_ctx' = c /\ rtp' = m /\ phone' = phone
    BY <1>6 DEF ReinviteAccepted
  <2>3. call_ctx \in CallContext /\ call_ctx.invite \in Sent
    BY <1>6 DEF ReinviteAccepted, InCall, ContextOK
  <2>4. m \in CallId \cup {NoCall}
    BY <1>b, MediaOfType
  <2>5. ContextOK(c) /\ c.invite = call_ctx.invite /\ c.remote_sdp = m
    <3> HIDE DEF m
    <3> QED
      BY <2>3, <2>4 DEF ContextOK, CallContext, m
  <2>6. Live(dialog) /\ dialog.call_id = req.call_id
    BY <1>6 DEF ReinviteAccepted, Reinvite, InviteKind, InDialog, Belongs
  <2>7. Bound(dialog, c, m)
    BY <2>5, <2>6, MediaOfType DEF Bound, Held
  <2> HIDE DEF c, m
  <2>8. Bound(dialog', c, m)
    BY <1>4, <2>1, <2>7, HeldBySame
  <2> QED
    BY <1>4, <2>1, <2>2, <2>4, <2>5, <2>8
<1> QED
  BY <1>1, <1>2, <1>3, <1>5, <1>6 DEF RecvInvite

(* An ACK: the stream becomes the one of the context. *)
LEMMA RecvAckKept ==
    ASSUME IInv, NEW f \in Final, RecvAck(f)
    PROVE  IInv'
<1> USE DEF IInv
<1>1. WellKept(OnAck(transactions, f.call_id, f.cseq))
  BY OnAckKept
<1>2. CASE AckUnmatched(f)
  BY <1>1, <1>2 DEF AckUnmatched
<1>3. CASE AckConfirms(f)
  <2>1. Live(dialog) /\ dialog' = AfterAck(dialog)
    BY <1>3 DEF AckConfirms, AckMatches
  <2>2. DialogOK(dialog') /\ Live(dialog') /\ dialog'.call_id = dialog.call_id
    BY <2>1 DEF DialogOK, AfterAck, Live, DialogState
  <2>3. rtp' \in {rtp, call_ctx.remote_sdp}
    BY <1>3 DEF AckConfirms
  <2>4. rtp' \in CallId \cup {NoCall}
    BY <1>3, <2>3 DEF AckConfirms, ContextOK, InCall, CallContext
  <2>5. Bound(dialog', call_ctx, rtp')
    BY <2>1, <2>2, <2>3 DEF Bound, Held
  <2> QED
    BY <1>1, <1>3, <2>2, <2>4, <2>5 DEF AckConfirms, PhoneState
<1> QED
  BY <1>2, <1>3 DEF RecvAck

(* What ends a call leaves nothing of it, in the order the code does it.   *)
LEMMA EndCallKept ==
    ASSUME IInv, EndCall, WellKept(transactions'), next_tag' \in Nat \ {0}, finals' \subseteq Final
    PROVE  IInv'
BY EndedKept DEF IInv, EndCall, PhoneState

(* A CANCEL.  When its responses cannot be built, the dialog is gone and   *)
(* the context stays: but then the caller is not an ordinary one.          *)
LEMMA RecvCancelKept ==
    ASSUME IInv, NEW call \in CallId, RecvCancel(call)
    PROVE  IInv'
<1> USE DEF IInv
<1>1. dialog.state = "Ringing" /\ dialog.original_invite \in Sent
      /\ dialog.original_invite.call_id = dialog.call_id
  BY DEF RecvCancel, CancelEnds, CancelFails, CancelMatches, DialogOK
<1>2. CASE CancelEnds(call)
  <2>1. Send(transactions, IdleDialog, dialog.original_invite, 487) /\ EndCall
    BY <1>2 DEF CancelEnds
  <2> QED
    BY <1>1, <2>1, EndedKept, SendKept, EndCallKept
<1>3. CASE CancelFails(call)
  <2>1. dialog.call_id \in CompactVia
    BY <1>1, <1>3 DEF CancelFails, Buildable
  <2>2. \A c : Held(c, dialog) => Held(c, IdleDialog)
    BY <2>1 DEF Held, Ordinary
  <2>3. Bound(IdleDialog, call_ctx, rtp)
    BY <2>2 DEF Bound
  <2> QED
    BY <1>3, <2>3, EndedKept DEF CancelFails
<1> QED
  BY <1>2, <1>3 DEF RecvCancel

(* Everything the network delivers. *)
LEMMA FromNetworkKept ==
    ASSUME IInv, NEW call \in CallId, FromNetwork(call)
    PROVE  IInv'
<1>1. finals \subseteq Final
  BY DEF IInv
<1>2. CASE RecvInvite(OpeningInvite(call))
  <2>1. OpeningInvite(call) \in Sent
    BY CSeqAssumption DEF OpeningInvite, Sent, NoTag
  <2> QED
    BY <1>2, <2>1, RecvInviteKept
<1>3. ASSUME NEW f \in Opened, NEW cseq \in CSeq \ {1}, RecvInvite(LaterInvite(f, cseq))
      PROVE  IInv'
  <2>1. LaterInvite(f, cseq) \in Sent
    BY <1>1 DEF Opened, Final, LaterInvite, Sent
  <2> QED
    BY <1>3, <2>1, RecvInviteKept
<1>4. ASSUME NEW f \in finals, RecvAck(f)
      PROVE  IInv'
  BY <1>1, <1>4, RecvAckKept
<1>5. ASSUME NEW f \in Opened, RecvBye(f)
      PROVE  IInv'
  BY <1>5, EndCallKept DEF RecvBye, IInv
<1>6. CASE RecvCancel(call)
  BY <1>6, RecvCancelKept
<1> QED
  BY <1>2, <1>3, <1>4, <1>5, <1>6 DEF FromNetwork

(* The button and the timers. *)
LEMMA AnswerKept ==
    ASSUME IInv, Answer
    PROVE  IInv'
<1> USE DEF IInv
<1> DEFINE c == [call_ctx EXCEPT !.ring_deadline = None]
<1>1. call_ctx \in CallContext /\ call_ctx.invite \in Sent
  BY DEF Answer, InCall, ContextOK
<1>2. Send(transactions, dialog, call_ctx.invite, 200)
      /\ dialog' = AfterResponse(dialog, call_ctx.invite, next_tag)
      /\ call_ctx' = c /\ phone' = phone /\ rtp' = rtp
  BY DEF Answer
<1>3. WellKept(transactions') /\ next_tag' \in Nat \ {0} /\ finals' \subseteq Final
  BY <1>1, <1>2, SendKept
<1>4. DialogOK(dialog') /\ dialog'.state = dialog.state /\ dialog'.call_id = dialog.call_id
  BY <1>1, <1>2, AfterResponseKept
<1>5. ContextOK(c) /\ c.invite = call_ctx.invite /\ c.remote_sdp = call_ctx.remote_sdp
  <2>1. None \in Timer(RingTimeout)
    BY DEF Timer
  <2> QED
    BY <1>1, <2>1 DEF ContextOK, CallContext
<1> HIDE DEF c
<1>6. Bound(dialog', c, rtp)
  BY <1>4, <1>5, HeldBySame DEF Bound
<1> QED
  BY <1>2, <1>3, <1>4, <1>5, <1>6

LEMMA CheckCallTimeoutsKept ==
    ASSUME IInv, CheckCallTimeouts
    PROVE  IInv'
<1>1. call_ctx.invite \in Sent
  BY DEF CheckCallTimeouts, RingTimeoutDue, InCall, ContextOK, IInv
<1> QED
  BY <1>1, SendKept, EndCallKept DEF CheckCallTimeouts, IInv

LEMMA TickKept ==
    ASSUME IInv, Tick
    PROVE  IInv'
<1> USE DEF IInv
<1> DEFINE n == CountDown(call_ctx.ring_deadline)
           c == [call_ctx EXCEPT !.ring_deadline = n]
<1>1. WellKept(transactions')
  BY ElapseKept DEF Tick
<1>2. call_ctx' = c /\ UNCHANGED <<dialog, next_tag, phone, rtp, finals>>
  BY DEF Tick
<1>3. CASE call_ctx = NoContext
  <2>1. c = NoContext
    BY <1>3 DEF NoContext, CountDown, None
  <2> QED
    BY <1>1, <1>2, <1>3, <2>1
<1>4. CASE call_ctx \in CallContext /\ call_ctx.invite \in Sent
  <2>1. n \in Timer(RingTimeout)
    <3>1. call_ctx.ring_deadline \in Timer(RingTimeout)
      BY <1>4 DEF CallContext
    <3> QED
      BY <3>1, RingAssumption DEF Timer, CountDown, None
  <2> HIDE DEF n
  <2>2. ContextOK(c) /\ c.invite = call_ctx.invite /\ c.remote_sdp = call_ctx.remote_sdp
    BY <1>4, <2>1 DEF ContextOK, CallContext
  <2>3. Bound(dialog, c, rtp)
    BY <2>2 DEF Bound
  <2> HIDE DEF c
  <2> QED
    BY <1>1, <1>2, <2>2, <2>3
<1> QED
  BY <1>3, <1>4 DEF ContextOK

LEMMA StepKept ==
    ASSUME IInv, [Next]_vars
    PROVE  IInv'
<1>1. ASSUME NEW call \in CallId, FromNetwork(call)
      PROVE  IInv'
  BY <1>1, FromNetworkKept
<1>2. CASE Answer
  BY <1>2, AnswerKept
<1>3. CASE HangUp
  BY <1>3, EndCallKept DEF HangUp, IInv
<1>4. CASE CheckCallTimeouts
  BY <1>4, CheckCallTimeoutsKept
<1>5. CASE PollTimers
  BY <1>5, PollTxKept DEF PollTimers, IInv
<1>6. CASE Tick
  BY <1>6, TickKept
<1>7. CASE UNCHANGED vars
  BY <1>7 DEF vars, IInv
<1> QED
  BY <1>1, <1>2, <1>3, <1>4, <1>5, <1>6, <1>7 DEF Next

----------------------------------------------------------------------------
(* The theorems *)

(* The invariant of the phone's calls. *)
THEOREM Inductive == Spec => []IInv
<1>1. Init => IInv
  BY EndedKept DEF Init, IInv, WellKept, UniqueIn, PhoneState
<1>2. IInv /\ [Next]_vars => IInv'
  BY StepKept
<1> QED
  BY <1>1, <1>2, PTL DEF Spec

(* The state keeps its shape: of the dialog, the context, the transactions *)
(* and everything that was ever answered.                                  *)
THEOREM TypeCorrect == Spec => []TypeOK
<1>1. IInv => TypeOK
  BY DEF IInv, TypeOK, DialogOK, ContextOK, WellKept, Good
<1> QED
  BY <1>1, Inductive, PTL

(* The RTP task streams to nobody but the caller the dialog is with. *)
THEOREM StreamBelongs == Spec => []StreamBelongsToDialog
<1>1. IInv => StreamBelongsToDialog
  BY DEF IInv, Bound, Held, StreamBelongsToDialog
<1> QED
  BY <1>1, Inductive, PTL

(* The context never outlives its dialog and is about the same call. *)
THEOREM ContextBelongs == Spec => []ContextBelongsToDialog
<1>1. IInv => ContextBelongsToDialog
  BY CallerAssumption DEF IInv, Bound, Held, ContextBelongsToDialog, InCall, ContextOK, Sent
<1> QED
  BY <1>1, Inductive, PTL

----------------------------------------------------------------------------
(***************************************************************************)
(* A To tag identifies one call.  A tag that the phone gives out is stored *)
(* in the dialog, returns in the requests of the caller it was sent to,    *)
(* and is copied from them into later responses: the argument follows      *)
(* every place a tag can be.                                               *)
(***************************************************************************)

NoOnesTag == {NoTag, OneOffTag}

(* Who a request, a dialog or a final response says a tag belongs to. *)
ClaimOf(req) == <<req.to_tag, req.call_id>>

DialogClaim(d) == <<d.local_tag, d.call_id>>

FinalClaims(F) == { <<f.tag, f.call_id>> : f \in F }

Claims(F, d, c) ==
    FinalClaims(F) \cup {DialogClaim(d), ClaimOf(d.original_invite), ClaimOf(c.invite)}

(* No tag is claimed for two calls, and the next tag is claimed by none. *)
Owned(S, n) ==
    /\ \A p \in S : p[1] \in Int /\ p[1] < n
    /\ \A p, q \in S : p[1] = q[1] => p[1] \in NoOnesTag \/ p[2] = q[2]

TagInv == Owned(Claims(finals, dialog, call_ctx), next_tag)

(* The fields of a dialog, which a change of its tag leaves in place. *)
Shaped(d) ==
    d = [state |-> d.state, call_id |-> d.call_id, local_tag |-> d.local_tag,
         original_invite |-> d.original_invite]

(* T has nothing but what is in S, claims that are nobody's, and, if the   *)
(* counter goes from n to m, the tag n for one call.                       *)
Within(T, S, n, m, call) ==
    /\ m \in {n, n + 1}
    /\ \A p \in T : \/ p \in S
                    \/ p[1] \in NoOnesTag
                    \/ p = <<n, call>> /\ m = n + 1

LEMMA OwnedWithin ==
    ASSUME NEW S, NEW T, NEW n \in Nat \ {0}, NEW m, NEW call, Owned(S, n), Within(T, S, n, m, call)
    PROVE  Owned(T, m)
<1>1. n \in Int /\ m \in Int /\ n <= m /\ n > 0
  BY DEF Within
<1>2. \A p \in T : p[1] \in Int /\ p[1] < m
  BY <1>1 DEF Owned, Within, NoOnesTag, NoTag, OneOffTag
<1>3. ASSUME NEW p \in T, NEW q \in T, p[1] = q[1]
      PROVE  p[1] \in NoOnesTag \/ p[2] = q[2]
  <2>1. CASE p \in S /\ q \in S
    BY <1>3, <2>1 DEF Owned
  <2>2. CASE p[1] \in NoOnesTag \/ q[1] \in NoOnesTag
    BY <1>3, <2>2
  <2>3. CASE p = <<n, call>> /\ q = <<n, call>>
    BY <2>3
  <2>4. CASE p = <<n, call>> /\ q \in S
    BY <1>1, <1>3, <2>4 DEF Owned
  <2>5. CASE q = <<n, call>> /\ p \in S
    BY <1>1, <1>3, <2>5 DEF Owned
  <2> QED
    BY <2>1, <2>2, <2>3, <2>4, <2>5 DEF Within
<1> QED
  BY <1>2, <1>3 DEF Owned

(* A response claims for its call the tag it was asked with, the tag of    *)
(* the dialog it is part of, the next tag, or a tag nobody keeps.          *)
LEMMA SendClaims ==
    ASSUME NEW S, NEW txs, NEW d, NEW req, NEW status, next_tag \in Nat \ {0},
           d.local_tag \in Nat, Shaped(d),
           FinalClaims(finals) \subseteq S, DialogClaim(d) \in S,
           ClaimOf(req) \in S \/ req.to_tag \in NoOnesTag,
           Send(txs, d, req, status)
    PROVE  Within(S \cup FinalClaims(finals') \cup {DialogClaim(AfterResponse(d, req, next_tag))},
                  S, next_tag, next_tag', req.call_id)
<1> DEFINE e == AfterResponse(d, req, next_tag)
           w == <<ResponseTag(d, req, next_tag), req.call_id>>
           n == next_tag
<1>1. next_tag' \in {n, n + 1}
  BY DEF Send
<1>2. CASE TakesTag(d, req)
  <2>1. e = [d EXCEPT !.local_tag = n] /\ next_tag' = n + 1
    BY <1>2 DEF AfterResponse, Send
  <2>2. DialogClaim(e) = <<n, req.call_id>> /\ e.local_tag = n
    BY <1>2, <2>1 DEF DialogClaim, TakesTag, Belongs, Shaped
  <2>3. w = <<n, req.call_id>>
    BY <1>2, <2>2 DEF ResponseTag, TakesTag
  <2>4. FinalClaims(finals') \subseteq S \cup {w}
    BY DEF Send, FinalClaims
  <2> QED
    BY <1>1, <2>1, <2>2, <2>3, <2>4 DEF Within
<1>3. CASE ~ TakesTag(d, req)
  <2>1. e = d
    BY <1>3 DEF AfterResponse
  <2>2. w \in S \/ w[1] \in NoOnesTag
    BY <1>3, <2>1 DEF ResponseTag, ClaimOf, NoOnesTag, Belongs, DialogClaim
  <2>4. FinalClaims(finals') \subseteq S \cup {w}
    BY DEF Send, FinalClaims
  <2> QED
    BY <1>1, <2>1, <2>2, <2>4 DEF Within
<1> QED
  BY <1>2, <1>3

(* The shape of a dialog, which its claim needs. *)
LEMMA DialogShape ==
    ASSUME NEW d, DialogOK(d)
    PROVE  d.local_tag \in Nat /\ Shaped(d)
BY DEF DialogOK, Shaped

(* A step that gives out no tag and makes no new claim. *)
LEMMA NothingClaimed ==
    ASSUME IInv, TagInv, next_tag' = next_tag,
           \A p \in Claims(finals', dialog', call_ctx') :
               p \in Claims(finals, dialog, call_ctx) \/ p[1] \in NoOnesTag
    PROVE  TagInv'
<1>1. next_tag \in Nat \ {0}
  BY DEF IInv
<1>2. Within(Claims(finals', dialog', call_ctx'), Claims(finals, dialog, call_ctx),
             next_tag, next_tag', NoCall)
  BY DEF Within
<1> QED
  BY <1>1, <1>2, OwnedWithin DEF TagInv

(* A step that sends a response to req while the dialog is d: afterwards   *)
(* the dialog is d with its tag, or one without.                           *)
LEMMA SendingOwned ==
    ASSUME IInv, TagInv, NEW txs, NEW d, DialogOK(d), NEW req, NEW status,
           Send(txs, d, req, status),
           ClaimOf(req) \in Claims(finals, dialog, call_ctx) \/ req.to_tag \in NoOnesTag,
           DialogClaim(d) \in Claims(finals, dialog, call_ctx) \/ d.local_tag = NoTag,
           dialog'.local_tag = NoTag
             \/ DialogClaim(dialog') = DialogClaim(AfterResponse(d, req, next_tag)),
           \A p \in {ClaimOf(dialog'.original_invite), ClaimOf(call_ctx'.invite)} :
               p \in Claims(finals, dialog, call_ctx) \/ p[1] \in NoOnesTag
    PROVE  TagInv'
<1> DEFINE S == Claims(finals, dialog, call_ctx)
           R == S \cup {DialogClaim(d)}
           T == R \cup FinalClaims(finals') \cup {DialogClaim(AfterResponse(d, req, next_tag))}
           C == Claims(finals', dialog', call_ctx')
<1>1. next_tag \in Nat \ {0}
  BY DEF IInv
<1>2. FinalClaims(finals) \subseteq R /\ DialogClaim(d) \in R
      /\ (ClaimOf(req) \in R \/ req.to_tag \in NoOnesTag)
  BY DEF Claims
<1>3. d.local_tag \in Nat /\ Shaped(d)
  BY DialogShape
<1>4. Within(T, R, next_tag, next_tag', req.call_id)
  <2> HIDE DEF R, S
  <2> QED
    BY <1>1, <1>2, <1>3, SendClaims
<1>5. \A p \in R : p \in S \/ p[1] \in NoOnesTag
  BY DEF DialogClaim, NoOnesTag
<1>6. \A p \in C : p \in T \/ p[1] \in NoOnesTag
  <2>1. \A p \in C : \/ p \in FinalClaims(finals')
                     \/ p = DialogClaim(dialog')
                     \/ p \in {ClaimOf(dialog'.original_invite), ClaimOf(call_ctx'.invite)}
    BY DEF Claims
  <2>2. DialogClaim(dialog') \in T \/ DialogClaim(dialog')[1] \in NoOnesTag
    BY DEF DialogClaim, NoOnesTag
  <2> QED
    BY <2>1, <2>2
<1> HIDE DEF S, R, T, C
<1>7. Within(C, S, next_tag, next_tag', req.call_id)
  BY <1>4, <1>5, <1>6 DEF Within
<1>8. Owned(S, next_tag)
  BY DEF TagInv, S
<1>9. Owned(C, next_tag')
  BY <1>1, <1>7, <1>8, OwnedWithin
<1> QED
  BY <1>9 DEF TagInv, C

(* What stays of the dialog's claims when a response is built. *)
LEMMA AfterResponseOriginal ==
    ASSUME NEW d, DialogOK(d), NEW req
    PROVE  AfterResponse(d, req, next_tag).original_invite = d.original_invite
BY DEF AfterResponse, DialogOK

----------------------------------------------------------------------------
(* The steps *)

LEMMA RecvInviteOwned ==
    ASSUME IInv, TagInv, NEW req \in Sent, RecvInvite(req),
           ClaimOf(req) \in Claims(finals, dialog, call_ctx) \/ req.to_tag \in NoOnesTag
    PROVE  TagInv'
<1> DEFINE S == Claims(finals, dialog, call_ctx)
           d == AfterInvite(dialog, req)
<1>a. DialogOK(dialog) /\ DialogOK(d)
  BY AfterInviteKept DEF IInv, AfterInvite
<1>b. d = dialog \/ d = RingingDialog(req)
  BY DEF AfterInvite
<1>c. /\ DialogClaim(dialog) \in S /\ ClaimOf(dialog.original_invite) \in S
      /\ ClaimOf(call_ctx.invite) \in S
  BY DEF Claims
<1>d. /\ DialogClaim(d) \in S \/ d.local_tag = NoTag
      /\ ClaimOf(d.original_invite) \in S \/ ClaimOf(d.original_invite)[1] \in NoOnesTag
  BY <1>b, <1>c DEF RingingDialog, ClaimOf
<1>e. ClaimOf(req)[1] = req.to_tag
  BY DEF ClaimOf
<1>1. CASE InviteIgnored(req)
  <2>1. dialog' = d /\ UNCHANGED <<next_tag, call_ctx, finals>>
    BY <1>1 DEF InviteIgnored
  <2>2. DialogClaim(d) \in S \/ DialogClaim(d)[1] \in NoOnesTag
    BY <1>d DEF DialogClaim, NoOnesTag
  <2>3. \A p \in Claims(finals', dialog', call_ctx') : p \in S \/ p[1] \in NoOnesTag
    <3> HIDE DEF d
    <3> QED
      BY <1>d, <2>1, <2>2 DEF Claims
  <2> QED
    BY <2>1, <2>3, NothingClaimed
<1>2. ASSUME NEW b, DialogOK(b), NEW status, Send(Received(req), b, req, status),
             b = dialog \/ b = d,
             dialog' = AfterResponse(b, req, next_tag),
             call_ctx'.invite = call_ctx.invite \/ call_ctx'.invite = req
      PROVE  TagInv'
  <2>1. dialog'.original_invite = b.original_invite
    BY <1>2, AfterResponseOriginal
  <2>2. \A p \in {ClaimOf(dialog'.original_invite), ClaimOf(call_ctx'.invite)} :
            p \in S \/ p[1] \in NoOnesTag
    <3> HIDE DEF d
    <3> QED
      BY <1>2, <1>c, <1>d, <1>e, <2>1
  <2>3. DialogClaim(b) \in S \/ b.local_tag = NoTag
    BY <1>2, <1>c, <1>d
  <2> QED
    BY <1>2, <2>2, <2>3, SendingOwned
<1>3. CASE InviteRefused(req) \/ InviteRings(req)
  <2>1. \E status : Send(Received(req), d, req, status)
    BY <1>3 DEF InviteRefused, InviteRings
  <2>2. dialog' = AfterResponse(d, req, next_tag)
        /\ (call_ctx'.invite = call_ctx.invite \/ call_ctx'.invite = req)
    BY <1>3 DEF InviteRefused, InviteRings
  <2> QED
    BY <1>2, <1>a, <2>1, <2>2
<1>4. CASE ReinviteRefused(req) \/ ReinviteAccepted(req)
           \/ InviteBusy(req)
  <2>1. \E status : Send(Received(req), dialog, req, status)
    BY <1>4 DEF ReinviteRefused, ReinviteAccepted, InviteBusy
  <2>2. dialog' = AfterResponse(dialog, req, next_tag)
    BY <1>4 DEF ReinviteRefused, ReinviteAccepted, InviteBusy
  <2>3. call_ctx'.invite = call_ctx.invite
    BY <1>4 DEF ReinviteRefused, ReinviteAccepted, InviteBusy,
                IInv, ContextOK, CallContext, InCall
  <2> QED
    BY <1>2, <1>a, <2>1, <2>2, <2>3
<1> QED
  BY <1>1, <1>3, <1>4 DEF RecvInvite

(* What ends a call claims nothing. *)
LEMMA EndCallClaims ==
    ASSUME EndCall
    PROVE  /\ dialog'.local_tag = NoTag
           /\ \A p \in {ClaimOf(dialog'.original_invite), ClaimOf(call_ctx'.invite)} :
                p[1] \in NoOnesTag
           /\ DialogClaim(dialog')[1] \in NoOnesTag
BY DEF EndCall, TerminatedDialog, IdleDialog, NoContext, NoRequest, ClaimOf, NoOnesTag, DialogClaim

LEMMA EndCallOwned ==
    ASSUME IInv, TagInv, EndCall, UNCHANGED <<next_tag, finals>>
    PROVE  TagInv'
<1>1. \A p \in Claims(finals', dialog', call_ctx') :
          p \in Claims(finals, dialog, call_ctx) \/ p[1] \in NoOnesTag
  BY EndCallClaims DEF Claims
<1> QED
  BY <1>1, NothingClaimed

(* A final response that ends the call: 487 or 480. *)
LEMMA EndCallSendingOwned ==
    ASSUME IInv, TagInv, EndCall, NEW txs, NEW d, d = dialog \/ d = IdleDialog,
           NEW status, NEW req,
           ClaimOf(req) \in Claims(finals, dialog, call_ctx),
           Send(txs, d, req, status)
    PROVE  TagInv'
<1>1. DialogOK(d)
  BY EndedKept DEF IInv
<1>2. DialogClaim(d) \in Claims(finals, dialog, call_ctx) \/ d.local_tag = NoTag
  BY DEF Claims, IdleDialog
<1> QED
  BY <1>1, <1>2, EndCallClaims, SendingOwned

LEMMA FromNetworkOwned ==
    ASSUME IInv, TagInv, NEW call \in CallId, FromNetwork(call)
    PROVE  TagInv'
<1> DEFINE S == Claims(finals, dialog, call_ctx)
<1>0. finals \subseteq Final /\ DialogOK(dialog)
  BY DEF IInv
<1>1. CASE RecvInvite(OpeningInvite(call))
  <2>1. OpeningInvite(call) \in Sent
    BY CSeqAssumption DEF OpeningInvite, Sent, NoTag
  <2>2. OpeningInvite(call).to_tag \in NoOnesTag
    BY DEF OpeningInvite, NoOnesTag
  <2> QED
    BY <1>1, <2>1, <2>2, RecvInviteOwned
<1>2. ASSUME NEW f \in Opened, NEW cseq \in CSeq \ {1}, RecvInvite(LaterInvite(f, cseq))
      PROVE  TagInv'
  <2>1. LaterInvite(f, cseq) \in Sent
    BY <1>0 DEF Opened, Final, LaterInvite, Sent
  <2>2. ClaimOf(LaterInvite(f, cseq)) \in S
    BY DEF Opened, LaterInvite, ClaimOf, Claims, FinalClaims
  <2> QED
    BY <1>2, <2>1, <2>2, RecvInviteOwned
<1>3. ASSUME NEW f \in finals, RecvAck(f)
      PROVE  TagInv'
  <2>1. UNCHANGED <<next_tag, call_ctx, finals>> /\ (dialog' = dialog \/ dialog' = AfterAck(dialog))
    BY <1>3 DEF RecvAck, AckConfirms, AckUnmatched
  <2>2. /\ DialogClaim(AfterAck(dialog)) = DialogClaim(dialog)
        /\ ClaimOf(AfterAck(dialog).original_invite)[1] \in NoOnesTag
    BY <1>0 DEF DialogOK, AfterAck, DialogClaim, ClaimOf, NoRequest, NoOnesTag
  <2>3. \A p \in Claims(finals', dialog', call_ctx') : p \in S \/ p[1] \in NoOnesTag
    BY <2>1, <2>2 DEF Claims
  <2> QED
    BY <2>1, <2>3, NothingClaimed
<1>4. ASSUME NEW f \in Opened, RecvBye(f)
      PROVE  TagInv'
  BY <1>4, EndCallOwned DEF RecvBye
<1>5. CASE CancelEnds(call)
  <2>1. ClaimOf(dialog.original_invite) \in S
    BY DEF Claims
  <2>2. Send(transactions, IdleDialog, dialog.original_invite, 487) /\ EndCall
    BY <1>5 DEF CancelEnds
  <2> QED
    BY <2>1, <2>2, EndCallSendingOwned
<1>6. CASE CancelFails(call)
  <2>1. dialog' = IdleDialog /\ UNCHANGED <<next_tag, call_ctx, finals>>
    BY <1>6 DEF CancelFails
  <2>2. DialogClaim(IdleDialog)[1] \in NoOnesTag
        /\ ClaimOf(IdleDialog.original_invite)[1] \in NoOnesTag
    BY DEF DialogClaim, ClaimOf, IdleDialog, NoRequest, NoOnesTag
  <2>3. \A p \in Claims(finals', dialog', call_ctx') : p \in S \/ p[1] \in NoOnesTag
    BY <2>1, <2>2 DEF Claims
  <2> QED
    BY <2>1, <2>3, NothingClaimed
<1> QED
  BY <1>1, <1>2, <1>3, <1>4, <1>5, <1>6 DEF FromNetwork, RecvCancel

LEMMA StepOwned ==
    ASSUME IInv, TagInv, [Next]_vars
    PROVE  TagInv'
<1> DEFINE S == Claims(finals, dialog, call_ctx)
<1>0. /\ DialogOK(dialog) /\ DialogClaim(dialog) \in S
      /\ ClaimOf(dialog.original_invite) \in S /\ ClaimOf(call_ctx.invite) \in S
  BY DEF IInv, Claims
<1>1. ASSUME NEW call \in CallId, FromNetwork(call)
      PROVE  TagInv'
  BY <1>1, FromNetworkOwned
<1>2. CASE Answer
  <2>1. Send(transactions, dialog, call_ctx.invite, 200)
        /\ dialog' = AfterResponse(dialog, call_ctx.invite, next_tag)
    BY <1>2 DEF Answer
  <2>2. dialog'.original_invite = dialog.original_invite
    BY <1>0, <2>1, AfterResponseOriginal
  <2>3. call_ctx'.invite = call_ctx.invite
    BY <1>2 DEF Answer, IInv, ContextOK, CallContext, InCall
  <2> QED
    BY <1>0, <2>1, <2>2, <2>3, SendingOwned
<1>3. CASE HangUp
  BY <1>3, EndCallOwned DEF HangUp
<1>4. CASE CheckCallTimeouts
  <2>1. Send(transactions, dialog, call_ctx.invite, 480) /\ EndCall
    BY <1>4 DEF CheckCallTimeouts
  <2> QED
    BY <1>0, <2>1, EndCallSendingOwned
<1>5. CASE PollTimers \/ UNCHANGED vars
  <2>1. UNCHANGED <<dialog, next_tag, call_ctx, finals>>
    BY <1>5 DEF PollTimers, vars
  <2> QED
    BY <2>1 DEF TagInv
<1>6. CASE Tick
  <2>1. UNCHANGED <<dialog, next_tag, finals>> /\ call_ctx'.invite = call_ctx.invite
    BY <1>6 DEF Tick, IInv, ContextOK, CallContext, NoContext
  <2>2. Claims(finals', dialog', call_ctx') = S
    BY <2>1 DEF Claims
  <2> QED
    BY <2>1, <2>2 DEF TagInv
<1> QED
  BY <1>1, <1>2, <1>3, <1>4, <1>5, <1>6 DEF Next

(* Every final response has a tag: a dialog without one is given one by    *)
(* the first response it can send.                                         *)
AllTagged == \A f \in finals : f.tag # NoTag

LEMMA Responds ==
    ASSUME IInv, [Next]_vars
    PROVE  finals' = finals \/ \E txs, d, req, status : Shaped(d) /\ Send(txs, d, req, status)
<1>1. Shaped(dialog) /\ Shaped(IdleDialog) /\ \A req : Shaped(RingingDialog(req))
  BY DialogShape DEF IInv, Shaped, IdleDialog, RingingDialog
<1>2. \A req : Shaped(AfterInvite(dialog, req))
  BY <1>1 DEF AfterInvite
<1> HIDE DEF Shaped
<1> QED
  BY <1>1, <1>2
  DEF Next, vars, FromNetwork, RecvInvite, InviteIgnored, InviteRefused, InviteRings,
      ReinviteRefused, ReinviteAccepted, InviteBusy, RecvAck, AckConfirms,
      AckUnmatched, RecvCancel, CancelEnds, CancelFails, RecvBye, Answer, HangUp,
      CheckCallTimeouts, PollTimers, Tick

LEMMA StepTagged ==
    ASSUME IInv, AllTagged, [Next]_vars
    PROVE  AllTagged'
<1>1. ASSUME NEW txs, NEW d, NEW req, NEW status, Shaped(d), Send(txs, d, req, status)
      PROVE  AllTagged'
  <2>1. next_tag # NoTag
    BY DEF IInv, NoTag
  <2>2. ASSUME Buildable(req), Belongs(d, req), req.to_tag = NoTag
        PROVE  AfterResponse(d, req, next_tag).local_tag # NoTag
    <3>1. CASE TakesTag(d, req)
      BY <1>1, <2>1, <3>1 DEF AfterResponse, Shaped
    <3>2. CASE ~ TakesTag(d, req)
      BY <2>2, <3>2 DEF TakesTag, AfterResponse
    <3> QED
      BY <3>1, <3>2
  <2>3. Buildable(req) => ResponseTag(d, req, next_tag) # NoTag
    BY <2>2 DEF ResponseTag, NoTag, OneOffTag
  <2> QED
    BY <1>1, <2>3 DEF AllTagged, Send
<1> QED
  BY <1>1, Responds DEF AllTagged

----------------------------------------------------------------------------
(* No two calls are sent responses with the same dialog tag: one caller's  *)
(* ACK, BYE or later INVITE cannot be taken for another's.                 *)
THEOREM TagsIdentify == Spec => []TagsIdentifyCalls
<1>1. Init => TagInv /\ AllTagged
  <2> SUFFICES ASSUME Init
               PROVE  TagInv /\ AllTagged
    OBVIOUS
  <2>1. \A p \in Claims(finals, dialog, call_ctx) : p = <<NoTag, NoCall>>
    BY DEF Init, Claims, FinalClaims, DialogClaim, ClaimOf, IdleDialog, NoContext, NoRequest
  <2> QED
    BY <2>1 DEF Init, TagInv, AllTagged, Owned, NoOnesTag, NoTag
<1>2. IInv /\ TagInv /\ AllTagged /\ [Next]_vars => TagInv' /\ AllTagged'
  BY StepOwned, StepTagged
<1>3. TagInv /\ AllTagged => TagsIdentifyCalls
  <2> SUFFICES ASSUME TagInv, AllTagged
               PROVE  TagsIdentifyCalls
    OBVIOUS
  <2>1. \A f \in finals : <<f.tag, f.call_id>> \in Claims(finals, dialog, call_ctx)
    BY DEF Claims, FinalClaims
  <2> QED
    BY <2>1 DEF TagInv, AllTagged, Owned, NoOnesTag, TagsIdentifyCalls
<1> QED
  BY <1>1, <1>2, <1>3, Inductive, PTL DEF Spec

----------------------------------------------------------------------------
(***************************************************************************)
(* The phone as a single line: what it shows is the state of its dialog,   *)
(* a second caller changes nothing of the call in progress, and SipCall    *)
(* implements CallSlot.                                                    *)
(***************************************************************************)

(* A caller other than the one of the dialog is busy, or matches nothing:  *)
(* no invariant is needed, the handlers alone see to it.                   *)
THEOREM StrangersAreHarmless == Spec => StrangersChangeNothing
<1> DEFINE Harmless ==
             \A call \in CallId \ Untagged :
               Live(dialog) /\ dialog.call_id # call /\ FromNetwork(call)
                 => UNCHANGED <<dialog, call_ctx, phone, rtp>>
<1>1. Harmless
  <2> SUFFICES ASSUME NEW call \in CallId \ Untagged, Live(dialog), dialog.call_id # call,
                      FromNetwork(call)
               PROVE  UNCHANGED <<dialog, call_ctx, phone, rtp>>
    OBVIOUS
  <2>1. ASSUME NEW req, req.call_id = call, RecvInvite(req)
        PROVE  UNCHANGED <<dialog, call_ctx, phone, rtp>>
    <3>1. InviteKind(dialog, req) = "InitialWhileBusy"
      BY <2>1 DEF InviteKind, InDialog, Belongs
    <3>2. InviteBusy(req)
      BY <2>1, <3>1 DEF RecvInvite, InviteIgnored, InviteRefused, InviteRings, Initial,
                        ReinviteRefused, ReinviteAccepted, Reinvite
    <3>3. AfterResponse(dialog, req, next_tag) = dialog
      BY <2>1 DEF AfterResponse, TakesTag, Belongs
    <3> QED
      BY <3>2, <3>3 DEF InviteBusy
  <2>2. CASE RecvInvite(OpeningInvite(call))
    BY <2>1, <2>2 DEF OpeningInvite
  <2>3. ASSUME NEW f \in Opened, NEW cseq \in CSeq \ {1}, f.call_id = call,
               RecvInvite(LaterInvite(f, cseq))
        PROVE  UNCHANGED <<dialog, call_ctx, phone, rtp>>
    BY <2>1, <2>3 DEF LaterInvite
  <2>4. ASSUME NEW f \in finals, f.call_id = call, RecvAck(f)
        PROVE  UNCHANGED <<dialog, call_ctx, phone, rtp>>
    BY <2>4 DEF RecvAck, AckConfirms, AckUnmatched, AckMatches
  <2>5. ASSUME NEW f \in Opened, f.call_id = call, RecvBye(f)
        PROVE  UNCHANGED <<dialog, call_ctx, phone, rtp>>
    BY <2>5 DEF RecvBye, ByeMatches
  <2>6. CASE RecvCancel(call)
    BY <2>6 DEF RecvCancel, CancelEnds, CancelFails, CancelMatches
  <2> QED
    BY <2>2, <2>3, <2>4, <2>5, <2>6 DEF FromNetwork
<1>2. Spec => [][Harmless]_vars
  BY <1>1, PTL
<1> QED
  BY <1>2 DEF StrangersChangeNothing

----------------------------------------------------------------------------
(* With ordinary callers only, the dialog, the context and the stream end  *)
(* together, and every response can be built.                              *)

(* A context is told from no context by its call. *)
LEMMA ContextHasCall ==
    ASSUME NEW c, ContextOK(c)
    PROVE  c # NoContext <=> c.invite.call_id # NoCall
BY CallerAssumption DEF ContextOK, NoContext, NoRequest, Sent

LEMMA EndTogether ==
    ASSUME OrdinaryCallers, IInv, ~ Live(dialog)
    PROVE  ~ InCall /\ rtp = NoCall /\ dialog.call_id = NoCall /\ dialog.state \in {"Idle", "Terminated"}
<1>1. rtp = NoCall
  BY DEF IInv, Bound, Held, OrdinaryCallers
<1>2. call_ctx.invite.call_id \in CallId \cup {NoCall}
  BY DEF IInv, ContextOK, NoContext, NoRequest, Sent
<1>3. call_ctx.invite.call_id = NoCall
  BY <1>2 DEF IInv, Bound, Held, OrdinaryCallers
<1>4. ~ InCall
  BY <1>3, ContextHasCall DEF IInv, InCall
<1>5. dialog.call_id = NoCall /\ dialog.state \in {"Idle", "Terminated"}
  BY DEF IInv, DialogOK, DialogState, Live
<1> QED
  BY <1>1, <1>4, <1>5

LEMMA NobodyOdd ==
    ASSUME OrdinaryCallers
    PROVE  Untagged = {} /\ CompactVia = {}
BY CallerAssumption DEF OrdinaryCallers, Ordinary

LEMMA CancelSucceeds ==
    ASSUME OrdinaryCallers, IInv, NEW call \in CallId, RecvCancel(call)
    PROVE  CancelEnds(call)
BY NobodyOdd DEF RecvCancel, CancelFails, Buildable

(* What each step does to the dialog's state and call, the stream, the     *)
(* phone and whether there is a context: the five kinds of step.           *)
Seizes(call) ==
    /\ ~ Live(dialog)
    /\ dialog'.state = "Ringing" /\ dialog'.call_id = call
    /\ rtp' = rtp
    /\ \/ phone' = "Ringing"
       \/ phone' = phone /\ call_ctx' = call_ctx

Keeps ==
    /\ dialog'.state = dialog.state /\ dialog'.call_id = dialog.call_id
    /\ phone' = phone
    /\ InCall' = InCall

Confirms ==
    /\ Live(dialog)
    /\ dialog'.state = "Established" /\ dialog'.call_id = dialog.call_id
    /\ phone' = "Established"
    /\ InCall' = InCall /\ (rtp' = rtp \/ InCall)

LEMMA InviteKinds ==
    ASSUME OrdinaryCallers, IInv, NEW req \in Sent, RecvInvite(req)
    PROVE  \/ Seizes(req.call_id)
           \/ Keeps /\ (rtp' = rtp \/ (Live(dialog) /\ InCall))
<1> USE DEF IInv
<1>1. ASSUME Initial(req)
      PROVE  ~ Live(dialog) /\ AfterInvite(dialog, req) = RingingDialog(req)
  BY <1>1, NobodyOdd DEF Initial, InviteKind, AfterInvite
<1>2. \A d : LET e == AfterResponse(d, req, next_tag)
             IN DialogOK(d) => e.state = d.state /\ e.call_id = d.call_id
  BY AfterResponseKept
<1>3. DialogOK(AfterInvite(dialog, req))
  BY AfterInviteKept DEF AfterInvite
<1>4. CASE InviteIgnored(req) \/ InviteRefused(req) \/ InviteRings(req)
  <2>1. Initial(req)
    BY <1>4 DEF InviteIgnored, InviteRefused, InviteRings
  <2>2. dialog' = AfterInvite(dialog, req)
        \/ dialog' = AfterResponse(AfterInvite(dialog, req), req, next_tag)
    BY <1>4 DEF InviteIgnored, InviteRefused, InviteRings
  <2>3. dialog'.state = "Ringing" /\ dialog'.call_id = req.call_id
    BY <1>1, <1>2, <1>3, <2>1, <2>2 DEF RingingDialog
  <2>4. rtp' = rtp /\ (phone' = "Ringing" \/ (phone' = phone /\ call_ctx' = call_ctx))
    BY <1>4 DEF InviteIgnored, InviteRefused, InviteRings
  <2> QED
    BY <1>1, <2>1, <2>3, <2>4 DEF Seizes
<1>5. CASE ReinviteRefused(req) \/ InviteBusy(req)
  <2>1. dialog' = AfterResponse(dialog, req, next_tag) /\ UNCHANGED <<call_ctx, phone, rtp>>
    BY <1>5 DEF ReinviteRefused, InviteBusy
  <2> QED
    BY <1>2, <2>1 DEF Keeps, InCall
<1>6. CASE ReinviteAccepted(req)
  <2>1. dialog' = AfterResponse(dialog, req, next_tag) /\ phone' = phone /\ InCall
    BY <1>6 DEF ReinviteAccepted
  <2>2. Live(dialog)
    BY <1>6 DEF ReinviteAccepted, Reinvite, InviteKind, InDialog, Belongs
  <2>3. call_ctx'.invite = call_ctx.invite
    BY <1>6, <2>1 DEF ReinviteAccepted, ContextOK, InCall, CallContext
  <2>4. ContextOK(call_ctx')
    BY RecvInviteKept
  <2>5. InCall'
    BY <2>1, <2>3, <2>4, ContextHasCall DEF InCall
  <2> QED
    BY <1>2, <2>1, <2>2, <2>5 DEF Keeps
<1> QED
  BY <1>4, <1>5, <1>6 DEF RecvInvite

(* Every step is of one kind. *)
LEMMA StepKinds ==
    ASSUME OrdinaryCallers, IInv, [Next]_vars
    PROVE  \/ \E call \in CallId : Seizes(call)
           \/ Keeps /\ (rtp' = rtp \/ (Live(dialog) /\ InCall))
           \/ Confirms
           \/ EndCall
<1> USE DEF IInv
<1>1. ASSUME NEW req \in Sent, RecvInvite(req)
      PROVE  (\E call \in CallId : Seizes(call)) \/ (Keeps /\ (rtp' = rtp \/ (Live(dialog) /\ InCall)))
  BY <1>1, InviteKinds, SentIsRequest
<1>2. ASSUME NEW f \in Final, RecvAck(f)
      PROVE  Confirms \/ (Keeps /\ rtp' = rtp)
  <2>1. CASE AckConfirms(f)
    BY <2>1 DEF AckConfirms, AckMatches, AfterAck, Confirms, DialogOK, InCall
  <2>2. CASE AckUnmatched(f)
    BY <2>2 DEF AckUnmatched, Keeps, InCall
  <2> QED
    BY <1>2, <2>1, <2>2 DEF RecvAck
<1>3. ASSUME NEW call \in CallId, RecvCancel(call)
      PROVE  EndCall
  BY <1>3, CancelSucceeds DEF CancelEnds
<1>4. ASSUME NEW call \in CallId, FromNetwork(call)
      PROVE  \/ \E c \in CallId : Seizes(c)
             \/ Keeps /\ (rtp' = rtp \/ (Live(dialog) /\ InCall))
             \/ Confirms
             \/ EndCall
  <2>1. OpeningInvite(call) \in Sent
    BY CSeqAssumption DEF OpeningInvite, Sent, NoTag
  <2>2. \A f \in Opened, cseq \in CSeq : LaterInvite(f, cseq) \in Sent
    BY DEF Opened, Final, LaterInvite, Sent
  <2> QED
    BY <1>1, <1>2, <1>3, <1>4, <2>1, <2>2 DEF FromNetwork, RecvBye
<1>5. CASE Answer
  <2>1. call_ctx.invite \in Sent /\ InCall
    BY <1>5 DEF Answer, InCall, ContextOK
  <2>2. dialog' = AfterResponse(dialog, call_ctx.invite, next_tag) /\ phone' = phone /\ rtp' = rtp
    BY <1>5 DEF Answer
  <2>3. dialog'.state = dialog.state /\ dialog'.call_id = dialog.call_id
    BY <2>2, AfterResponseKept
  <2>4. call_ctx'.invite = call_ctx.invite
    BY <1>5, <2>1 DEF Answer, ContextOK, InCall, CallContext
  <2>5. ContextOK(call_ctx')
    BY <1>5, AnswerKept
  <2>6. InCall'
    BY <2>1, <2>4, <2>5, ContextHasCall DEF InCall
  <2> QED
    BY <2>1, <2>2, <2>3, <2>6 DEF Keeps
<1>6. CASE HangUp \/ CheckCallTimeouts
  BY <1>6 DEF HangUp, CheckCallTimeouts
<1>7. CASE PollTimers \/ UNCHANGED vars
  BY <1>7 DEF PollTimers, vars, Keeps, InCall
<1>8. CASE Tick
  <2>1. UNCHANGED <<dialog, phone, rtp>> /\ call_ctx'.invite = call_ctx.invite
    BY <1>8 DEF Tick, ContextOK, CallContext, NoContext
  <2>2. ContextOK(call_ctx')
    BY <1>8, TickKept
  <2>3. InCall' = InCall
    BY <2>1, <2>2, ContextHasCall DEF InCall
  <2> QED
    BY <2>1, <2>3 DEF Keeps
<1> QED
  BY <1>4, <1>5, <1>6, <1>7, <1>8 DEF Next

----------------------------------------------------------------------------
(* The UI and the audio task know the state of the dialog. *)
THEOREM PhoneShows == Spec => []PhoneShowsDialog
<1>1. Init => PhoneShowsDialog
  BY DEF Init, PhoneShowsDialog, PhoneStateOf, IdleDialog
<1>2. ASSUME IInv, PhoneShowsDialog, [Next]_vars
      PROVE  PhoneShowsDialog'
  <2> DEFINE Shown == \/ phone = PhoneStateOf(dialog)
                      \/ phone = "Idle" /\ dialog.state = "Ringing" /\ ~ InCall
             Silent == ~ InCall => rtp = NoCall
  <2> SUFFICES ASSUME OrdinaryCallers
               PROVE  Shown' /\ Silent'
    BY DEF PhoneShowsDialog, PhoneStateOf, InCall
  <2>1. Shown /\ Silent
    BY <1>2 DEF PhoneShowsDialog
  <2>2. ASSUME NEW call \in CallId, Seizes(call)
        PROVE  Shown' /\ Silent'
    <3>1. Shown'
      BY <1>2, <2>1, <2>2, EndTogether DEF Seizes, Live, PhoneStateOf, InCall
    <3>2. Silent'
      BY <1>2, <2>2, EndTogether DEF Seizes
    <3> QED BY <3>1, <3>2
  <2>3. CASE Keeps /\ (rtp' = rtp \/ (Live(dialog) /\ InCall))
    BY <2>1, <2>3 DEF Keeps, PhoneStateOf
  <2>4. CASE Confirms
    BY <2>1, <2>4 DEF Confirms, PhoneStateOf
  <2>5. CASE EndCall
    BY <2>5 DEF EndCall, PhoneStateOf, TerminatedDialog, IdleDialog
  <2> QED
    BY <1>2, <2>2, <2>3, <2>4, <2>5, StepKinds
<1> QED
  BY <1>1, <1>2, Inductive, PTL DEF Spec

(* The phone keeps what a single line promises. *)
THEOREM SingleLine ==
    ASSUME OrdinaryCallers
    PROVE  Spec => ImplementsCallSlot
<1> DEFINE stage == IF dialog.state \in {"Idle", "Terminated"} THEN "Free" ELSE dialog.state
<1>1. Init => Slot!Init
  BY DEF Init, Slot!Init, IdleDialog
<1>2. ASSUME IInv, [Next]_vars
      PROVE  [Slot!Next]_Slot!vars
  <2> USE DEF Slot!Next, Slot!vars
  <2>1. ASSUME NEW call \in CallId, Seizes(call)
        PROVE  Slot!Seize(call)
    BY <1>2, <2>1, EndTogether DEF Seizes, Slot!Seize
  <2>2. CASE Keeps /\ rtp' = rtp
    BY <2>2 DEF Keeps
  <2>3. CASE Keeps /\ Live(dialog)
    BY <2>3 DEF Keeps, Live, Slot!Negotiate
  <2>4. CASE Confirms
    BY <2>4 DEF Confirms, Live, Slot!Negotiate, Slot!Establish
  <2>5. CASE EndCall /\ Live(dialog)
    BY <2>5 DEF EndCall, Live, Slot!Release, TerminatedDialog, IdleDialog
  <2>6. CASE EndCall /\ ~ Live(dialog)
    BY <1>2, <2>6, EndTogether DEF EndCall, TerminatedDialog, IdleDialog
  <2> QED
    BY <1>2, <2>1, <2>2, <2>3, <2>4, <2>5, <2>6, StepKinds
<1> QED
  BY <1>1, <1>2, Inductive, PTL DEF Spec, ImplementsCallSlot, Slot!Spec
----------------------------------------------------------------------------
(* The answer to the INVITE that opened the dialog.  Its ring has a tag    *)
(* from the 180 on, which nothing changes any more, and which the 200 of   *)
(* the answer carries.                                                     *)

Confirmable == \E f \in Opened : AckMatches(dialog, f.call_id, f.tag)

Opens == dialog.state = "Ringing" /\ InCall /\ call_ctx.invite.cseq = 1

TagWaits ==
    OrdinaryCallers /\ Opens =>
        /\ call_ctx.invite.to_tag = NoTag /\ dialog.local_tag # NoTag
        /\ Answered => Confirmable

LEMMA TagStays ==
    ASSUME NEW d, NEW req, NEW n, d.local_tag # NoTag
    PROVE  AfterResponse(d, req, n) = d
BY DEF AfterResponse, TakesTag

(* A step that leaves the ring and its INVITE alone leaves it confirmable. *)
LEMMA SameRing ==
    ASSUME OrdinaryCallers, TagWaits, Opens,
           dialog' = dialog, call_ctx'.invite = call_ctx.invite,
           Answered' => Answered, finals \subseteq finals'
    PROVE  /\ call_ctx'.invite.to_tag = NoTag /\ dialog'.local_tag # NoTag
           /\ Answered' => Confirmable'
BY DEF TagWaits, Confirmable, Opened

LEMMA InviteWaits ==
    ASSUME OrdinaryCallers, IInv, TagWaits, NEW req \in Sent, RecvInvite(req),
           req.cseq = 1 => req.to_tag = NoTag
    PROVE  TagWaits'
<1> SUFFICES ASSUME Opens'
             PROVE  /\ call_ctx'.invite.to_tag = NoTag /\ dialog'.local_tag # NoTag
                    /\ Answered' => Confirmable'
  BY DEF TagWaits
<1>1. ASSUME Initial(req)
      PROVE  ~ InCall /\ AfterInvite(dialog, req) = RingingDialog(req)
  BY <1>1, EndTogether, NobodyOdd DEF Initial, InviteKind, AfterInvite
<1>2. CASE InviteIgnored(req) \/ InviteRefused(req)
  <2>1. ~ InCall'
    BY <1>1, <1>2 DEF InviteIgnored, InviteRefused, InCall
  <2> QED BY <2>1 DEF Opens
<1>3. CASE InviteRings(req)
  <2>1. /\ dialog' = AfterResponse(RingingDialog(req), req, next_tag)
        /\ call_ctx' = [invite |-> req, remote_sdp |-> MediaOf(req), ring_deadline |-> RingTimeout]
    BY <1>1, <1>3 DEF InviteRings
  <2>2. req.to_tag = NoTag
    BY <2>1 DEF Opens
  <2>3. TakesTag(RingingDialog(req), req)
    BY <2>2, NobodyOdd, SentIsRequest DEF TakesTag, Buildable, Belongs, RingingDialog, Live
  <2>4. dialog'.local_tag = next_tag
    BY <2>1, <2>3 DEF AfterResponse, RingingDialog
  <2>5. ~ Answered'
    BY <2>1, RingAssumption DEF Answered, None
  <2> QED BY <2>1, <2>2, <2>4, <2>5 DEF IInv, NoTag
<1>4. CASE ReinviteRefused(req) \/ ReinviteAccepted(req) \/ InviteBusy(req)
  <2>1. dialog' = AfterResponse(dialog, req, next_tag) /\ finals \subseteq finals'
    BY <1>4 DEF ReinviteRefused, ReinviteAccepted, InviteBusy, Send
  <2>2. InCall' => InCall /\ call_ctx'.invite = call_ctx.invite /\ (Answered' => Answered)
    <3>1. CASE UNCHANGED call_ctx
      BY <3>1 DEF InCall, Answered
    <3>2. CASE ReinviteAccepted(req)
      BY <3>2 DEF ReinviteAccepted, IInv, ContextOK, InCall, CallContext, Answered
    <3> QED BY <1>4, <3>1, <3>2 DEF ReinviteRefused, InviteBusy
  <2>3. dialog'.state = dialog.state
    BY <2>1, AfterResponseKept DEF IInv
  <2>4. Opens
    BY <2>2, <2>3 DEF Opens
  <2>5. dialog' = dialog
    BY <2>1, <2>4, TagStays DEF TagWaits
  <2> QED BY <2>1, <2>2, <2>4, <2>5, SameRing DEF Opens
<1> QED BY <1>2, <1>3, <1>4 DEF RecvInvite

LEMMA AnswerWaits ==
    ASSUME OrdinaryCallers, IInv, TagWaits, Answer
    PROVE  TagWaits'
<1> SUFFICES ASSUME Opens'
             PROVE  /\ call_ctx'.invite.to_tag = NoTag /\ dialog'.local_tag # NoTag
                    /\ Answered' => Confirmable'
  BY DEF TagWaits
<1> DEFINE req == call_ctx.invite
           f == [call_id |-> req.call_id, cseq |-> req.cseq, status |-> 200, tag |-> dialog.local_tag]
<1>1. req \in Sent /\ InCall /\ dialog.state = "Ringing"
  BY DEF Answer, InCall, ContextOK, IInv
<1>2. call_ctx'.invite = req
  BY <1>1 DEF Answer, ContextOK, IInv, InCall, CallContext
<1>3. req.cseq = 1
  BY <1>2 DEF Opens
<1>4. Opens
  BY <1>1, <1>3 DEF Opens
<1>5. req.to_tag = NoTag /\ dialog.local_tag # NoTag
  BY <1>4 DEF TagWaits
<1>6. AfterResponse(dialog, req, next_tag) = dialog
  BY <1>5, TagStays
<1>7. dialog' = dialog
  BY <1>6 DEF Answer
<1>8. Live(dialog) /\ dialog.call_id = req.call_id
  <2>1. req.call_id \in CallId
    BY <1>1, SentIsRequest
  <2> QED BY <2>1, CallerAssumption DEF IInv, Bound, Held, OrdinaryCallers
<1>9. ResponseTag(dialog, req, next_tag) = dialog.local_tag
  BY <1>5, <1>6, <1>8 DEF ResponseTag, Belongs
<1>10. f \in Opened'
  <2>1. Buildable(req) /\ IsFinal(200)
    BY <1>1, NobodyOdd DEF Buildable, IsFinal
  <2>2. f \in finals'
    BY <1>9, <2>1 DEF Answer, Send
  <2> QED BY <1>3, <2>2 DEF Opened
<1>11. AckMatches(dialog', f.call_id, f.tag)
  BY <1>7, <1>8 DEF AckMatches
<1>12. Confirmable'
  BY <1>10, <1>11 DEF Confirmable
<1> QED BY <1>2, <1>5, <1>7, <1>12

(* Once the user has answered the INVITE that opened the dialog, its       *)
(* caller was sent a 200 whose ACK the dialog will take.                   *)
THEOREM AnswerIsConfirmable == Spec => []AnsweredCallIsConfirmable
<1>1. Init => TagWaits
  BY DEF Init, TagWaits, Opens, IdleDialog
<1>2. ASSUME IInv, TagWaits, [Next]_vars
      PROVE  TagWaits'
  <2> SUFFICES ASSUME OrdinaryCallers PROVE TagWaits'
    BY DEF TagWaits
  <2>1. ASSUME UNCHANGED <<dialog, call_ctx, finals>> PROVE TagWaits'
    BY <1>2, <2>1 DEF TagWaits, Opens, InCall, Answered, Confirmable, Opened, AckMatches, Live
  <2>2. ASSUME EndCall PROVE TagWaits'
    BY <2>2 DEF EndCall, TagWaits, Opens, TerminatedDialog, IdleDialog
  <2>3. ASSUME NEW call \in CallId, FromNetwork(call) PROVE TagWaits'
    <3>1. CASE RecvInvite(OpeningInvite(call))
      <4>1. OpeningInvite(call) \in Sent /\ OpeningInvite(call).to_tag = NoTag
        BY CSeqAssumption DEF OpeningInvite, Sent, NoTag
      <4> QED BY <1>2, <3>1, <4>1, InviteWaits
    <3>2. ASSUME NEW f \in Opened, NEW cseq \in CSeq \ {1}, RecvInvite(LaterInvite(f, cseq))
          PROVE  TagWaits'
      <4>1. LaterInvite(f, cseq) \in Sent /\ LaterInvite(f, cseq).cseq # 1
        BY <1>2 DEF Opened, Final, LaterInvite, Sent, IInv
      <4> QED BY <1>2, <3>2, <4>1, InviteWaits
    <3>3. ASSUME NEW f \in finals, RecvAck(f) PROVE TagWaits'
      <4>1. CASE AckConfirms(f)
        BY <1>2, <4>1 DEF AckConfirms, AfterAck, TagWaits, Opens, IInv, DialogOK
      <4>2. CASE AckUnmatched(f)
        BY <2>1, <4>2 DEF AckUnmatched
      <4> QED BY <3>3, <4>1, <4>2 DEF RecvAck
    <3>4. CASE RecvCancel(call)
      BY <1>2, <2>2, <3>4, CancelSucceeds DEF CancelEnds
    <3> QED BY <2>2, <2>3, <3>1, <3>2, <3>3, <3>4 DEF FromNetwork, RecvBye
  <2>4. CASE Answer
    BY <1>2, <2>4, AnswerWaits
  <2>5. CASE HangUp \/ CheckCallTimeouts
    BY <2>2, <2>5 DEF HangUp, CheckCallTimeouts
  <2>6. CASE PollTimers \/ UNCHANGED vars
    BY <2>1, <2>6 DEF PollTimers, vars
  <2>7. CASE Tick
    <3>1. dialog' = dialog /\ finals' = finals /\ call_ctx'.invite = call_ctx.invite
      BY <1>2, <2>7 DEF Tick, IInv, ContextOK, CallContext, NoContext
    <3>2. InCall' => InCall
      <4>1. ContextOK(call_ctx')
        BY <1>2, <2>7, TickKept DEF IInv
      <4> QED BY <1>2, <3>1, <4>1, ContextHasCall DEF InCall, IInv
    <3>3. InCall => call_ctx.ring_deadline \in Timer(RingTimeout)
                    /\ call_ctx'.ring_deadline = CountDown(call_ctx.ring_deadline)
      BY <1>2, <2>7 DEF Tick, IInv, ContextOK, InCall, CallContext
    <3>4. \A t \in Timer(RingTimeout) : CountDown(t) = None => t = None
      BY RingAssumption DEF Timer, CountDown, None
    <3>5. Answered' => Answered
      BY <3>2, <3>3, <3>4 DEF Answered
    <3>6. Opens' => Opens
      BY <3>1, <3>2 DEF Opens
    <3> QED BY <1>2, <3>1, <3>5, <3>6, SameRing DEF TagWaits
  <2> QED
    BY <1>2, <2>3, <2>4, <2>5, <2>6, <2>7 DEF Next
<1>3. TagWaits => AnsweredCallIsConfirmable
  BY DEF TagWaits, Opens, Confirmable, AnsweredCallIsConfirmable, Answered
<1> QED
  BY <1>1, <1>2, <1>3, Inductive, PTL DEF Spec
----------------------------------------------------------------------------
(* What is owed to the user and to the caller while a call rings. *)

(* The INVITE that opened a call has a final response. *)
HasAnswer(F, call) == \E f \in F : f.call_id = call /\ f.cseq = 1

(* Which INVITEs the network can deliver: the one that opens a call, and   *)
(* others from a caller whose opening INVITE was answered.                 *)
Delivered(req) ==
    /\ req \in Sent
    /\ req.cseq = 1 \/ HasAnswer(finals, req.call_id)

LEMMA NetworkSteps ==
    ASSUME IInv, OrdinaryCallers, NEW call \in CallId, FromNetwork(call)
    PROVE  \/ \E req \in Sent : Delivered(req) /\ RecvInvite(req)
           \/ \E f \in finals : RecvAck(f)
           \/ CancelEnds(call)
           \/ dialog.state = "Established" /\ EndCall /\ UNCHANGED <<transactions, finals>>
<1>1. OpeningInvite(call) \in Sent /\ Delivered(OpeningInvite(call))
  BY CSeqAssumption DEF OpeningInvite, Sent, NoTag, Delivered
<1>2. ASSUME NEW f \in Opened, NEW cseq \in CSeq
      PROVE  LaterInvite(f, cseq) \in Sent /\ Delivered(LaterInvite(f, cseq))
  BY <1>2 DEF Opened, Final, LaterInvite, Sent, IInv, Delivered, HasAnswer
<1>3. ASSUME NEW f, RecvBye(f)
      PROVE  dialog.state = "Established" /\ EndCall /\ UNCHANGED <<transactions, finals>>
  BY <1>3 DEF RecvBye, ByeMatches
<1> QED
  BY <1>1, <1>2, <1>3, CancelSucceeds DEF FromNetwork

(* A ring that goes on has its INVITE, and its deadline is put off by no   *)
(* retransmission, no other caller and no stray ACK; each tick brings it   *)
(* closer.                                                                 *)
RingRunsOut ==
    OrdinaryCallers /\ Unanswered /\ Unanswered' =>
        /\ call_ctx'.invite = call_ctx.invite
        /\ call_ctx'.ring_deadline <= call_ctx.ring_deadline
        /\ Tick => call_ctx'.ring_deadline = call_ctx.ring_deadline - 1

(* An unanswered ring is the dialog's, and its deadline is a time. *)
LEMMA RingIsLive ==
    ASSUME OrdinaryCallers, IInv, PhoneShowsDialog, Unanswered
    PROVE  /\ dialog.state = "Ringing" /\ Live(dialog)
           /\ call_ctx \in CallContext /\ call_ctx.invite \in Sent
           /\ call_ctx.ring_deadline \in 0 .. RingTimeout
<1>1. dialog.state = "Ringing"
  BY DEF PhoneShowsDialog, PhoneStateOf, Unanswered
<1>2. call_ctx \in CallContext /\ call_ctx.invite \in Sent
  BY DEF Unanswered, InCall, IInv, ContextOK
<1> QED
  BY <1>1, <1>2 DEF Live, Unanswered, Answered, CallContext, Timer

LEMMA RingStep ==
    ASSUME IInv, PhoneShowsDialog, [Next]_vars
    PROVE  RingRunsOut
<1> SUFFICES ASSUME OrdinaryCallers, Unanswered, Unanswered'
             PROVE  /\ call_ctx'.invite = call_ctx.invite
                    /\ call_ctx'.ring_deadline <= call_ctx.ring_deadline
                    /\ Tick => call_ctx'.ring_deadline = call_ctx.ring_deadline - 1
  BY DEF RingRunsOut
<1>1. /\ dialog.state = "Ringing" /\ Live(dialog)
      /\ call_ctx \in CallContext /\ call_ctx.ring_deadline \in 0 .. RingTimeout
  BY RingIsLive
<1>2. ~ EndCall
  BY DEF EndCall, Unanswered
<1>3. CASE Tick
  <2>1. call_ctx' = [call_ctx EXCEPT !.ring_deadline = CountDown(@)]
    BY <1>3 DEF Tick
  <2>2. call_ctx.ring_deadline # 0
    BY <1>1, <1>3 DEF Tick, RingTimeoutDue, Unanswered
  <2>3. CountDown(call_ctx.ring_deadline) = call_ctx.ring_deadline - 1
    BY <1>1, <2>2, RingAssumption DEF CountDown
  <2>4. call_ctx'.invite = call_ctx.invite /\ call_ctx'.ring_deadline = call_ctx.ring_deadline - 1
    BY <1>1, <2>1, <2>3 DEF CallContext
  <2> QED BY <1>1, <2>4, RingAssumption
<1>4. CASE ~ Tick
  <2> SUFFICES call_ctx'.invite = call_ctx.invite
               /\ call_ctx'.ring_deadline = call_ctx.ring_deadline
    BY <1>1, <1>4, RingAssumption
  <2>1. ASSUME NEW req \in Sent, RecvInvite(req)
        PROVE  call_ctx'.invite = call_ctx.invite /\ call_ctx'.ring_deadline = call_ctx.ring_deadline
    <3>1. ~ Initial(req)
      BY <1>1, NobodyOdd DEF Initial, InviteKind
    <3>2. call_ctx' = call_ctx \/ call_ctx' = [call_ctx EXCEPT !.remote_sdp = MediaOf(req)]
      BY <2>1, <3>1
      DEF RecvInvite, InviteIgnored, InviteRefused, InviteRings, ReinviteRefused,
          ReinviteAccepted, InviteBusy
    <3> QED BY <1>1, <3>2 DEF CallContext
  <2>2. ASSUME NEW f \in finals, RecvAck(f)
        PROVE  UNCHANGED call_ctx
    BY <2>2 DEF RecvAck, AckConfirms, AckUnmatched
  <2>3. ~ Answer
    <3>1. ASSUME Answer PROVE Answered'
      <4>1. call_ctx'.ring_deadline = None /\ InCall'
        BY <1>1, <3>1 DEF Answer, CallContext, Unanswered
      <4> QED BY <4>1 DEF Answered
    <3> QED BY <3>1 DEF Unanswered
  <2>4. ASSUME NEW call \in CallId, FromNetwork(call)
        PROVE  call_ctx'.invite = call_ctx.invite /\ call_ctx'.ring_deadline = call_ctx.ring_deadline
    BY <1>2, <2>1, <2>2, <2>4, NetworkSteps DEF CancelEnds
  <2>5. ASSUME PollTimers \/ UNCHANGED vars
        PROVE  UNCHANGED call_ctx
    BY <2>5 DEF PollTimers, vars
  <2> QED BY <1>2, <1>4, <2>3, <2>4, <2>5 DEF Next, HangUp, CheckCallTimeouts
<1> QED
  BY <1>3, <1>4

(* What UnansweredRingEnds needs of the steps: time alone moves the        *)
(* deadline, so that a ring that is neither answered nor given up times    *)
(* out.                                                                    *)
THEOREM RingIsNotPutOff == Spec => [][RingRunsOut]_vars
<1>1. IInv /\ PhoneShowsDialog /\ [Next]_vars => RingRunsOut
  BY RingStep
<1> QED
  BY <1>1, Inductive, PhoneShows, PTL DEF Spec

(* The call that rings and waits for an answer to the INVITE it opened.    *)
Waiting ==
    { call \in CallId : /\ dialog.state = "Ringing" /\ InCall /\ ~ Answered
                       /\ call_ctx.invite.call_id = call /\ call_ctx.invite.cseq = 1 }

Owed(call) ==
    Offer[<<call, 1>>] # "none" /\ Known(transactions, call, 1) =>
        HasAnswer(finals, call) \/ call \in Waiting

(* A call that rings no more, or not from the INVITE that opened it, has   *)
(* an answer to that INVITE.                                               *)
OwedInv ==
    /\ \A f \in finals : HasAnswer(finals, f.call_id)
    /\ dialog.state = "Established" => HasAnswer(finals, dialog.call_id)
    /\ dialog.state = "Ringing" /\ dialog.original_invite.cseq # 1 => HasAnswer(finals, dialog.call_id)
    /\ InCall /\ (Answered \/ call_ctx.invite.cseq # 1) => HasAnswer(finals, call_ctx.invite.call_id)
    /\ \A call \in CallId : Owed(call)

(* A call that rings rings on, or is answered. *)
StillOwed == \A call \in Waiting : HasAnswer(finals', call) \/ call \in Waiting'

(* The keys of the transactions that an operation leaves: those that were, *)
(* and that of the INVITE it is about.                                     *)
OnlyAdds(new, txs, req) ==
    \A call \in CallId : Known(new, call, 1)
       => Known(txs, call, 1) \/ (req.call_id = call /\ req.cseq = 1)

LEMMA KeysOfInvite ==
    ASSUME NEW txs, NEW c, NEW n, NEW call, NEW cseq, Known(OnInvite(txs, c, n), call, cseq)
    PROVE  Known(txs, call, cseq) \/ (c = call /\ n = cseq)
BY DEF OnInvite, Known, Matches, NewTransaction

LEMMA KeysOfResponse ==
    ASSUME NEW txs, WellKept(txs), NEW req \in Sent, NEW status \in 100 .. 699
    PROVE  OnlyAdds(OnOutgoingResponse(txs, req.call_id, req.cseq, status), txs, req)
<1> DEFINE c == req.call_id
           n == req.cseq
<1> SUFFICES ASSUME NEW call \in CallId, Known(OnOutgoingResponse(txs, c, n, status), call, 1)
             PROVE  Known(txs, call, 1) \/ (c = call /\ n = 1)
  BY DEF OnlyAdds
<1>1. WellKept(OnInvite(txs, c, n))
  BY OnInviteKept, SentIsRequest
<1>2. PICK t \in OnInvite(txs, c, n) :
        Matches(IF Matches(t, c, n) THEN UpdateWithResponse(t, status) ELSE t, call, 1)
  BY DEF OnOutgoingResponse, Known
<1>3. SameKey(UpdateWithResponse(t, status), t)
  BY <1>1, UpdateGood DEF WellKept
<1>4. Matches(t, call, 1)
  BY <1>2, <1>3 DEF SameKey, Matches
<1> QED
  BY <1>4, KeysOfInvite DEF Known

LEMMA KeysKept ==
    ASSUME NEW txs, WellKept(txs), NEW call, NEW cseq
    PROVE  /\ \A c, n : Known(OnAck(txs, c, n), call, cseq) => Known(txs, call, cseq)
           /\ Known(PollTx(txs), call, cseq) => Known(txs, call, cseq)
           /\ Known({ Elapse(t) : t \in txs }, call, cseq) => Known(txs, call, cseq)
<1>1. ASSUME NEW t \in txs
      PROVE  SameKey(Confirm(t), t) /\ SameKey(MaybeRetransmit(t), t) /\ SameKey(Elapse(t), t)
  BY ConfirmGood, RetransmitKey, ElapseGood DEF WellKept
<1>2. ASSUME NEW c, NEW n, Known(OnAck(txs, c, n), call, cseq)
      PROVE  Known(txs, call, cseq)
  BY <1>1, <1>2 DEF OnAck, Known, Matches, SameKey
<1>3. Known(PollTx(txs), call, cseq) => Known(txs, call, cseq)
  BY <1>1 DEF PollTx, Known, Matches, SameKey
<1>4. Known({ Elapse(t) : t \in txs }, call, cseq) => Known(txs, call, cseq)
  BY <1>1 DEF Known, Matches, SameKey
<1> QED
  BY <1>2, <1>3, <1>4

(* The step answers an INVITE, with a response to it on the wire ... *)
Answers(req) ==
    /\ finals \subseteq finals' /\ HasAnswer(finals', req.call_id)
    /\ \A f \in finals' : f \in finals \/ f.call_id = req.call_id

LEMMA SendAnswers ==
    ASSUME OrdinaryCallers, NEW txs, WellKept(txs), NEW d, NEW req \in Sent,
           NEW status \in 100 .. 699, Send(txs, d, req, status)
    PROVE  /\ OnlyAdds(transactions', txs, req)
           /\ IsFinal(status) /\ Delivered(req) => Answers(req)
           /\ ~ IsFinal(status) => finals' = finals
<1> DEFINE f == [call_id |-> req.call_id, cseq |-> req.cseq, status |-> status,
                 tag |-> ResponseTag(d, req, next_tag)]
<1>1. Buildable(req)
  BY SentIsRequest, NobodyOdd DEF Buildable
<1>2. /\ transactions' = OnOutgoingResponse(txs, req.call_id, req.cseq, status)
      /\ finals' = IF IsFinal(status) THEN finals \cup {f} ELSE finals
  BY <1>1 DEF Send
<1>3. f.call_id = req.call_id /\ f.cseq = req.cseq
  OBVIOUS
<1> HIDE DEF f
<1>4. IsFinal(status) /\ Delivered(req) => Answers(req)
  BY <1>2, <1>3 DEF HasAnswer, Delivered, Answers
<1>5. OnlyAdds(transactions', txs, req)
  BY <1>2, KeysOfResponse
<1> QED
  BY <1>2, <1>4, <1>5

(* A step that sends nothing new, while the calls and the ring stay as     *)
(* they are, owes nothing new.                                             *)
LEMMA NothingNewOwed ==
    ASSUME OwedInv, finals' = finals,
           dialog'.state = dialog.state, dialog'.call_id = dialog.call_id,
           dialog'.original_invite = dialog.original_invite,
           call_ctx'.invite = call_ctx.invite, InCall' = InCall, Answered' = Answered,
           \A call \in CallId : Known(transactions', call, 1) => Known(transactions, call, 1)
    PROVE  OwedInv' /\ StillOwed
<1>1. \A call : HasAnswer(finals', call) <=> HasAnswer(finals, call)
  BY DEF HasAnswer
<1>2. Waiting' = Waiting
  BY DEF Waiting
<1>3. \A f \in finals : HasAnswer(finals', f.call_id)
  BY <1>1 DEF OwedInv
<1>4. ASSUME NEW call \in CallId, Offer[<<call, 1>>] # "none", Known(transactions', call, 1)
      PROVE  HasAnswer(finals', call) \/ call \in Waiting'
  BY <1>1, <1>2, <1>4 DEF OwedInv, Owed
<1> QED
  BY <1>1, <1>2, <1>3, <1>4 DEF OwedInv, Owed, StillOwed

(* An answer to an INVITE, after which there is no call any more, and it   *)
(* was the one answered, or the call is as it was but for its being        *)
(* answered.                                                               *)
LEMMA AnsweringOwes ==
    ASSUME OrdinaryCallers, IInv, OwedInv, NEW req, Answers(req),
           OnlyAdds(transactions', transactions, req),
           \/ dialog'.state = "Terminated" /\ ~ InCall' /\ req.call_id = dialog.call_id
           \/ /\ dialog'.state = dialog.state /\ dialog'.call_id = dialog.call_id
              /\ dialog'.original_invite = dialog.original_invite
              /\ InCall' = InCall /\ call_ctx'.invite = call_ctx.invite
              /\ Answered' = Answered \/ (Answered' /\ call_ctx.invite = req)
    PROVE  OwedInv' /\ StillOwed
<1>1. /\ finals \subseteq finals' /\ HasAnswer(finals', req.call_id)
      /\ \A f \in finals' : f \in finals \/ f.call_id = req.call_id
  BY DEF Answers
<1>2. \A call : HasAnswer(finals, call) => HasAnswer(finals', call)
  BY <1>1 DEF HasAnswer
<1>3. \A f \in finals' : HasAnswer(finals', f.call_id)
  BY <1>1, <1>2 DEF OwedInv
<1>4. \A call : call \in Waiting => call = dialog.call_id /\ call = call_ctx.invite.call_id
  BY ContextHasCall DEF Waiting, IInv, Bound, Held, OrdinaryCallers, ContextOK, InCall, Sent
<1>5. CASE dialog'.state = "Terminated" /\ ~ InCall' /\ req.call_id = dialog.call_id
  <2>1. ASSUME NEW call \in CallId, Offer[<<call, 1>>] # "none", Known(transactions', call, 1)
        PROVE  HasAnswer(finals', call)
    BY <1>1, <1>2, <1>4, <1>5, <2>1 DEF OwedInv, Owed, OnlyAdds
  <2> QED BY <1>1, <1>3, <1>4, <1>5, <2>1 DEF OwedInv, Owed, StillOwed
<1>6. CASE /\ dialog'.state = dialog.state /\ dialog'.call_id = dialog.call_id
           /\ dialog'.original_invite = dialog.original_invite
           /\ InCall' = InCall /\ call_ctx'.invite = call_ctx.invite
           /\ Answered' = Answered \/ (Answered' /\ call_ctx.invite = req)
  <2>1. \A call : call \in Waiting => call \in Waiting' \/ call = req.call_id
    BY <1>6 DEF Waiting
  <2>2. ASSUME NEW call \in CallId, Offer[<<call, 1>>] # "none", Known(transactions', call, 1)
        PROVE  HasAnswer(finals', call) \/ call \in Waiting'
    BY <1>1, <1>2, <2>1, <2>2 DEF OwedInv, Owed, OnlyAdds
  <2>3. InCall' /\ (Answered' \/ call_ctx'.invite.cseq # 1) => HasAnswer(finals', call_ctx'.invite.call_id)
    BY <1>1, <1>2, <1>6 DEF OwedInv
  <2> QED BY <1>1, <1>2, <1>3, <1>6, <2>1, <2>2, <2>3 DEF OwedInv, Owed, StillOwed
<1> QED
  BY <1>5, <1>6

LEMMA InviteAdds ==
    ASSUME OrdinaryCallers, IInv, NEW req \in Sent
    PROVE  /\ WellKept(Received(req)) /\ OnlyAdds(Received(req), transactions, req)
           /\ OnlyAdds(transactions', Received(req), req) => OnlyAdds(transactions', transactions, req)
<1>1. WellKept(Received(req))
  BY OnInviteKept, SentIsRequest DEF Received, IInv
<1>2. OnlyAdds(Received(req), transactions, req)
  BY KeysOfInvite DEF Received, OnlyAdds
<1> QED
  BY <1>1, <1>2 DEF OnlyAdds

(* An INVITE is answered at once, or rings, or has no offer. *)
LEMMA InviteOwes ==
    ASSUME OrdinaryCallers, IInv, OwedInv, NEW req \in Sent, Delivered(req), RecvInvite(req)
    PROVE  OwedInv' /\ StillOwed
<1>1. ASSUME Initial(req)
      PROVE  /\ ~ Live(dialog) /\ ~ InCall /\ dialog.state \in {"Idle", "Terminated"}
             /\ AfterInvite(dialog, req) = RingingDialog(req)
  BY <1>1, EndTogether, NobodyOdd DEF Initial, InviteKind, AfterInvite
<1>2. /\ WellKept(Received(req)) /\ OnlyAdds(Received(req), transactions, req)
      /\ OnlyAdds(transactions', Received(req), req) => OnlyAdds(transactions', transactions, req)
  BY InviteAdds
<1>3. \A d : LET e == AfterResponse(d, req, next_tag)
             IN  /\ e.state = d.state /\ e.call_id = d.call_id
                 /\ e.original_invite = d.original_invite
  BY DEF AfterResponse
<1>4. CASE InviteIgnored(req)
  <2>1. /\ dialog' = RingingDialog(req) /\ call_ctx' = call_ctx /\ finals' = finals
        /\ transactions' = Received(req) /\ OfferOf(req) = "none" /\ ~ InCall
        /\ dialog.state # "Ringing"
    BY <1>1, <1>4 DEF InviteIgnored
  <2>2. ASSUME NEW call \in CallId, Offer[<<call, 1>>] # "none", Known(transactions', call, 1)
        PROVE  HasAnswer(finals, call)
    <3>1. Known(transactions, call, 1)
      BY <1>2, <2>1, <2>2 DEF OnlyAdds, OfferOf
    <3>2. call \notin Waiting
      BY <2>1 DEF Waiting
    <3> QED BY <2>2, <3>1, <3>2 DEF OwedInv, Owed
  <2>3. ~ InCall' /\ dialog'.state = "Ringing"
        /\ dialog'.call_id = req.call_id /\ dialog'.original_invite = req
    BY <2>1 DEF RingingDialog, InCall
  <2> QED BY <2>1, <2>2, <2>3 DEF OwedInv, Owed, Delivered, StillOwed, Waiting
<1>5. CASE InviteRefused(req)
  <2>1. /\ dialog' = AfterResponse(RingingDialog(req), req, next_tag)
        /\ call_ctx' = call_ctx /\ ~ InCall /\ dialog.state # "Ringing"
        /\ Send(Received(req), RingingDialog(req), req, 488)
    BY <1>1, <1>5 DEF InviteRefused
  <2>2. Answers(req) /\ OnlyAdds(transactions', transactions, req)
    BY <1>2, <2>1, SendAnswers DEF IsFinal
  <2>3. ~ InCall' /\ dialog'.state = "Ringing" /\ dialog'.call_id = req.call_id
        /\ dialog'.original_invite = req
    BY <1>3, <2>1 DEF RingingDialog, InCall
  <2>4. ASSUME NEW call \in CallId, Offer[<<call, 1>>] # "none", Known(transactions', call, 1)
        PROVE  HasAnswer(finals', call)
    <3>1. call \notin Waiting
      BY <2>1 DEF Waiting
    <3>2. HasAnswer(finals, call) \/ req.call_id = call
      BY <2>2, <2>4, <3>1 DEF OwedInv, Owed, OnlyAdds
    <3> QED BY <2>2, <3>2 DEF Answers, HasAnswer
  <2>5. \A f \in finals' : HasAnswer(finals', f.call_id)
    BY <2>2 DEF Answers, OwedInv, HasAnswer
  <2> QED BY <2>1, <2>2, <2>3, <2>4, <2>5 DEF OwedInv, Owed, Answers, StillOwed, Waiting
<1>6. CASE InviteRings(req)
  <2>1. /\ dialog' = AfterResponse(RingingDialog(req), req, next_tag)
        /\ call_ctx' = [invite |-> req, remote_sdp |-> MediaOf(req), ring_deadline |-> RingTimeout]
        /\ dialog.state # "Ringing"
        /\ Send(Received(req), RingingDialog(req), req, 180)
    BY <1>1, <1>6 DEF InviteRings
  <2>2. finals' = finals /\ OnlyAdds(transactions', transactions, req)
    BY <1>2, <2>1, SendAnswers DEF IsFinal
  <2>3. dialog'.state = "Ringing" /\ dialog'.call_id = req.call_id
        /\ dialog'.original_invite = req
    BY <1>3, <2>1 DEF RingingDialog
  <2>4. InCall' /\ ~ Answered' /\ call_ctx'.invite = req
    BY <2>1, SentIsRequest, CallerAssumption, RingAssumption
    DEF InCall, Answered, NoContext, NoRequest, None
  <2>5. ASSUME NEW call \in CallId, Offer[<<call, 1>>] # "none", Known(transactions', call, 1)
        PROVE  HasAnswer(finals', call) \/ call \in Waiting'
    <3>1. call \notin Waiting
      BY <2>1 DEF Waiting
    <3>2. HasAnswer(finals, call) \/ (req.call_id = call /\ req.cseq = 1)
      BY <2>2, <2>5, <3>1 DEF OwedInv, Owed, OnlyAdds
    <3> QED BY <2>2, <2>3, <2>4, <3>2 DEF Waiting
  <2>6. StillOwed
    BY <2>1 DEF StillOwed, Waiting
  <2> QED BY <2>2, <2>3, <2>4, <2>5, <2>6 DEF OwedInv, Owed, Delivered
<1>7. CASE ReinviteRefused(req) \/ ReinviteAccepted(req) \/ InviteBusy(req)
  <2>1. PICK status \in {200, 481, 486, 488} : Send(Received(req), dialog, req, status)
    BY <1>7 DEF ReinviteRefused, ReinviteAccepted, InviteBusy
  <2>2. Answers(req) /\ OnlyAdds(transactions', transactions, req)
    BY <1>2, <2>1, SendAnswers DEF IsFinal
  <2>3. dialog' = AfterResponse(dialog, req, next_tag)
    BY <1>7 DEF ReinviteRefused, ReinviteAccepted, InviteBusy
  <2>4. InCall' = InCall /\ call_ctx'.invite = call_ctx.invite /\ Answered' = Answered
    <3>1. CASE UNCHANGED call_ctx
      BY <3>1 DEF InCall, Answered
    <3>2. CASE ReinviteAccepted(req)
      <4>1. /\ InCall /\ call_ctx \in CallContext /\ call_ctx.invite \in Sent
            /\ call_ctx' = [call_ctx EXCEPT !.remote_sdp = MediaOf(req)]
        BY <3>2 DEF ReinviteAccepted, IInv, ContextOK, InCall
      <4>2. call_ctx'.invite = call_ctx.invite /\ call_ctx'.ring_deadline = call_ctx.ring_deadline
        BY <4>1 DEF CallContext
      <4>3. InCall'
        BY <4>1, <4>2, SentIsRequest, CallerAssumption DEF InCall, NoContext, NoRequest
      <4> QED BY <4>1, <4>2, <4>3 DEF Answered
    <3> QED BY <1>7, <3>1, <3>2 DEF ReinviteRefused, InviteBusy
  <2> QED BY <1>3, <2>2, <2>3, <2>4, AnsweringOwes
<1> QED
  BY <1>4, <1>5, <1>6, <1>7 DEF RecvInvite

(* The INVITE of the context, which the user or the timeout answers. *)
LEMMA ContextDelivered ==
    ASSUME OrdinaryCallers, IInv, OwedInv, InCall
    PROVE  /\ call_ctx \in CallContext
           /\ call_ctx.invite \in Sent /\ Delivered(call_ctx.invite)
           /\ call_ctx.invite.call_id = dialog.call_id
<1>1. call_ctx.invite \in Sent /\ call_ctx \in CallContext
  BY DEF InCall, IInv, ContextOK
<1>2. call_ctx.invite.call_id = dialog.call_id
  BY <1>1, SentIsRequest, CallerAssumption DEF IInv, Bound, Held, OrdinaryCallers
<1> QED
  BY <1>1, <1>2 DEF OwedInv, Delivered

(* The ACK that establishes the call is one of an answer to its caller.    *)
LEMMA AckOwes ==
    ASSUME OrdinaryCallers, IInv, OwedInv, NEW f \in finals, RecvAck(f)
    PROVE  OwedInv' /\ StillOwed
<1>1. /\ finals' = finals /\ call_ctx' = call_ctx
      /\ transactions' = OnAck(transactions, f.call_id, f.cseq)
  BY DEF RecvAck, AckConfirms, AckUnmatched
<1>2. \A call \in CallId : Known(transactions', call, 1) => Known(transactions, call, 1)
  BY <1>1, KeysKept DEF IInv
<1>3. InCall' = InCall /\ Answered' = Answered
  BY <1>1 DEF InCall, Answered
<1>4. CASE AckUnmatched(f)
  BY <1>1, <1>2, <1>3, <1>4, NothingNewOwed DEF AckUnmatched
<1>5. CASE AckConfirms(f)
  <2>1. /\ dialog'.state = "Established" /\ dialog'.call_id = dialog.call_id
        /\ f.call_id = dialog.call_id
    BY <1>5 DEF AckConfirms, AckMatches, AfterAck, IInv, DialogOK
  <2>2. HasAnswer(finals, dialog.call_id)
    BY <2>1 DEF OwedInv
  <2>3. \A call \in Waiting : call = dialog.call_id
    BY ContextDelivered DEF Waiting
  <2>4. \A call \in CallId : Offer[<<call, 1>>] # "none" /\ Known(transactions', call, 1)
                             => HasAnswer(finals, call)
    BY <1>2, <2>2, <2>3 DEF OwedInv, Owed
  <2> QED BY <1>1, <1>3, <2>1, <2>2, <2>3, <2>4 DEF OwedInv, Owed, StillOwed
<1> QED
  BY <1>4, <1>5 DEF RecvAck

(* What ends a call answers the INVITE that it rang for, or was answered. *)
LEMMA EndOwes ==
    ASSUME OrdinaryCallers, IInv, OwedInv, EndCall, NEW req,
           Answers(req), OnlyAdds(transactions', transactions, req), req.call_id = dialog.call_id
    PROVE  OwedInv' /\ StillOwed
BY AnsweringOwes DEF EndCall, TerminatedDialog, IdleDialog, InCall

LEMMA EndAnsweredOwes ==
    ASSUME OrdinaryCallers, IInv, OwedInv, EndCall, UNCHANGED <<transactions, finals>>,
           dialog.state # "Ringing" \/ Answered
    PROVE  OwedInv' /\ StillOwed
<1>1. dialog'.state = "Terminated" /\ ~ InCall'
  BY DEF EndCall, TerminatedDialog, IdleDialog, InCall
<1>2. \A call \in CallId : Offer[<<call, 1>>] # "none" /\ Known(transactions, call, 1)
                           => HasAnswer(finals, call)
  BY DEF OwedInv, Owed, Waiting
<1> QED
  BY <1>1, <1>2 DEF OwedInv, Owed, StillOwed, Waiting

LEMMA CancelOwes ==
    ASSUME OrdinaryCallers, IInv, OwedInv, NEW call \in CallId, CancelEnds(call)
    PROVE  OwedInv' /\ StillOwed
<1> DEFINE req == dialog.original_invite
<1>1. req \in Sent /\ req.call_id = dialog.call_id /\ dialog.state = "Ringing"
  BY DEF CancelEnds, CancelMatches, IInv, DialogOK
<1>2. Delivered(req)
  BY <1>1 DEF Delivered, OwedInv
<1>3. Send(transactions, IdleDialog, req, 487) /\ EndCall
  BY DEF CancelEnds
<1>4. Answers(req) /\ OnlyAdds(transactions', transactions, req)
  BY <1>1, <1>2, <1>3, SendAnswers DEF IsFinal, IInv
<1> QED
  BY <1>1, <1>3, <1>4, EndOwes

LEMMA UserOwes ==
    ASSUME OrdinaryCallers, IInv, OwedInv, Answer \/ CheckCallTimeouts
    PROVE  OwedInv' /\ StillOwed
<1> DEFINE req == call_ctx.invite
<1>1. /\ call_ctx \in CallContext /\ InCall
      /\ req \in Sent /\ Delivered(req) /\ req.call_id = dialog.call_id
  BY ContextDelivered DEF Answer, CheckCallTimeouts, RingTimeoutDue
<1>2. PICK status \in {200, 480} : Send(transactions, dialog, req, status)
  BY DEF Answer, CheckCallTimeouts
<1>3. Answers(req) /\ OnlyAdds(transactions', transactions, req)
  BY <1>1, <1>2, SendAnswers DEF IsFinal, IInv
<1>4. CASE CheckCallTimeouts
  BY <1>1, <1>3, <1>4, EndOwes DEF CheckCallTimeouts
<1>5. CASE Answer
  <2>1. /\ dialog' = AfterResponse(dialog, req, next_tag)
        /\ call_ctx' = [call_ctx EXCEPT !.ring_deadline = None]
    BY <1>5 DEF Answer
  <2>2. dialog'.state = dialog.state /\ dialog'.call_id = dialog.call_id
        /\ dialog'.original_invite = dialog.original_invite
    BY <2>1, AfterResponseKept DEF IInv
  <2>3. call_ctx'.invite = req /\ call_ctx'.ring_deadline = None
    BY <1>1, <2>1 DEF CallContext
  <2>4. InCall'
    BY <1>1, <2>3, SentIsRequest, CallerAssumption DEF InCall, NoContext, NoRequest
  <2>5. Answered'
    BY <2>3, <2>4 DEF Answered
  <2> QED BY <1>1, <1>3, <2>2, <2>3, <2>4, <2>5, AnsweringOwes
<1> QED
  BY <1>4, <1>5

LEMMA TimeOwes ==
    ASSUME OrdinaryCallers, IInv, OwedInv, PollTimers \/ Tick \/ UNCHANGED vars
    PROVE  OwedInv' /\ StillOwed
<1>1. dialog' = dialog /\ finals' = finals
  BY DEF PollTimers, Tick, vars
<1>2. \A call \in CallId : Known(transactions', call, 1) => Known(transactions, call, 1)
  BY KeysKept DEF PollTimers, Tick, vars, IInv
<1>3. call_ctx'.invite = call_ctx.invite /\ InCall' = InCall /\ Answered' = Answered
  <2>1. CASE UNCHANGED call_ctx
    BY <2>1 DEF InCall, Answered
  <2>2. CASE Tick
    <3>1. call_ctx' = [call_ctx EXCEPT !.ring_deadline = CountDown(@)]
      BY <2>2 DEF Tick
    <3>2. CASE ~ InCall
      BY <3>1, <3>2 DEF InCall, Answered, NoContext, CountDown, None
    <3>3. CASE InCall
      <4>1. call_ctx \in CallContext /\ call_ctx.invite \in Sent
        BY <3>3 DEF InCall, IInv, ContextOK
      <4>2. call_ctx'.invite = call_ctx.invite
            /\ call_ctx'.ring_deadline = CountDown(call_ctx.ring_deadline)
        BY <3>1, <4>1 DEF CallContext
      <4>3. InCall'
        BY <4>1, <4>2, SentIsRequest, CallerAssumption DEF InCall, NoContext, NoRequest
      <4>4. \A t \in Timer(RingTimeout) : CountDown(t) = None <=> t = None
        BY RingAssumption DEF Timer, CountDown, None
      <4> QED BY <3>3, <4>1, <4>2, <4>3, <4>4 DEF Answered, CallContext
    <3> QED BY <3>2, <3>3
  <2> QED BY <2>1, <2>2 DEF PollTimers, vars
<1> QED
  BY <1>1, <1>2, <1>3, NothingNewOwed

(* Every step leaves each caller answered, or waiting in a ring.           *)
LEMMA StepOwes ==
    ASSUME OrdinaryCallers, IInv, OwedInv, [Next]_vars
    PROVE  OwedInv' /\ StillOwed
<1>1. ASSUME NEW call \in CallId, FromNetwork(call)
      PROVE  OwedInv' /\ StillOwed
  <2>1. CASE dialog.state = "Established" /\ EndCall /\ UNCHANGED <<transactions, finals>>
    BY <2>1, EndAnsweredOwes
  <2> QED BY <1>1, <2>1, NetworkSteps, InviteOwes, AckOwes, CancelOwes
<1>2. CASE HangUp
  BY <1>2, EndAnsweredOwes DEF HangUp
<1> QED
  BY <1>1, <1>2, UserOwes, TimeOwes DEF Next

(* An INVITE that opened a call has a final response, or rings unanswered. *)
AnswerIsOwed ==
    OrdinaryCallers =>
        \A call \in CallId :
            Offer[<<call, 1>>] # "none" /\ Known(transactions, call, 1) =>
                \/ \E f \in finals : f.call_id = call /\ f.cseq = 1
                \/ Unanswered /\ call_ctx.invite.call_id = call /\ call_ctx.invite.cseq = 1

(* A ring that ends leaves the INVITE that began it with one. *)
RingEndsAnswered ==
    OrdinaryCallers /\ Unanswered /\ ~ Unanswered' /\ call_ctx.invite.cseq = 1 =>
        \E f \in finals' : f.call_id = call_ctx.invite.call_id /\ f.cseq = 1

(* The answer owed to a caller, whatever the network, the other callers    *)
(* and the user do, and however the timers run: on_invite, on_cancel, the  *)
(* 486, the 200 and the timeout leave no INVITE that opened a call without *)
(* a final response, but for the one that rings.  This is what             *)
(* InviteIsAnswered needs of the steps; that the ring ends is              *)
(* UnansweredRingEnds.                                                     *)
THEOREM EveryInviteIsOwed == Spec => []AnswerIsOwed /\ [][RingEndsAnswered]_vars
<1> DEFINE Inv == OrdinaryCallers => OwedInv
<1>1. Init => Inv
  BY DEF Init, OwedInv, IdleDialog, InCall, Owed, Known
<1>2. IInv /\ Inv /\ [Next]_vars => Inv' /\ (OrdinaryCallers => StillOwed)
  BY StepOwes DEF OrdinaryCallers, Ordinary
<1>3. ASSUME IInv, PhoneShowsDialog, Inv, OrdinaryCallers, NEW call \in CallId
      PROVE  call \in Waiting <=> /\ Unanswered
                                  /\ call_ctx.invite.call_id = call /\ call_ctx.invite.cseq = 1
  BY <1>3, RingIsLive DEF Waiting, Unanswered, PhoneShowsDialog, PhoneStateOf
<1>4. IInv /\ PhoneShowsDialog /\ Inv => AnswerIsOwed
  BY <1>3 DEF AnswerIsOwed, OwedInv, Owed, HasAnswer
<1>5. ASSUME IInv, PhoneShowsDialog, PhoneShowsDialog', Inv, OrdinaryCallers => StillOwed
      PROVE  [RingEndsAnswered]_vars
  <2> SUFFICES ASSUME OrdinaryCallers, Unanswered, ~ Unanswered', call_ctx.invite.cseq = 1
               PROVE  HasAnswer(finals', call_ctx.invite.call_id)
    BY DEF RingEndsAnswered, HasAnswer
  <2>1. call_ctx.invite.call_id \in CallId
    BY <1>5, RingIsLive, SentIsRequest
  <2>2. call_ctx.invite.call_id \in Waiting
    BY <1>3, <1>5, <2>1
  <2>3. Waiting' = {}
    BY <1>5 DEF Waiting, Unanswered, PhoneShowsDialog, PhoneStateOf
  <2> QED BY <1>5, <2>2, <2>3 DEF StillOwed
<1> QED
  BY <1>1, <1>2, <1>4, <1>5, Inductive, PhoneShows, PTL DEF Spec
=============================================================================
