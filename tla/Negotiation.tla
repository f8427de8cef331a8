----------------------------- MODULE Negotiation -----------------------------
(***************************************************************************)
(* Offer and answer, and the stream that comes of them.  A caller offers   *)
(* a session and later others; the phone reads each offer, answers with    *)
(* its own description, and has the RTP task send and filter by what it    *)
(* read.  The caller keeps to what was agreed; its packets may come late.  *)
(*                                                                         *)
(* A request or response that is lost is sent again: a step is its         *)
(* arrival.  Requests may also arrive twice, and late: the phone compares  *)
(* no CSeq.  Calls whose first offer is refused are in SipCall, and so are *)
(* the tags by which a message finds its dialog.                           *)
(***************************************************************************)
EXTENDS Sdp, FiniteSets

CONSTANTS
    Address,      \* media addresses of the caller
    Port,         \* its media ports; 0 puts the call on hold
    PayloadType,
    MaxSource,    \* bound: how often the caller's stream begins anew
    MaxCopies     \* bound: how many re-INVITEs of a call are copied on the way

ASSUME NumberAssumption ==
    /\ Address \subseteq Nat /\ Port \subseteq Nat /\ PayloadType \subseteq Nat
    /\ MaxSource \in Nat /\ MaxCopies \in Nat

(* What a caller may want of a call: an address for the session, or for    *)
(* the audio, or both; an rtpmap that gives PCMU some payload type, or     *)
(* none; another codec before or after it; a second medium, not of audio.  *)
Offer == [session : Address \cup {None}, audio : Address \cup {None}, port : Port,
          pcmu : PayloadType \cup {None}, extra : {"none", "before", "after", "video"}]

When(condition, line) == IF condition THEN <<line>> ELSE <<>>

TelephoneEvent == Rtpmap(101, "telephone-event")

(* Its lines, in the order that SDP prescribes. *)
Body(offer) ==
    <<Other, Origin, Other>>
    \o When(offer.session # None, Connection(offer.session))
    \o <<Other, Media(offer.port)>>
    \o When(offer.audio # None, Connection(offer.audio))
    \o When(offer.extra = "before", TelephoneEvent)
    \o When(offer.pcmu # None, Rtpmap(offer.pcmu, "PCMU"))
    \o When(offer.extra = "after", TelephoneEvent)
    \o When(offer.extra = "video", Malformed)

(* What they mean: the address of the medium outranks that of the session. *)
Meaning(offer) ==
    [address |-> IF offer.audio = None THEN offer.session ELSE offer.audio,
     port |-> offer.port, payload_type |-> offer.pcmu]

(* The phone has no use for an offer without PCMU or with a second medium. *)
Acceptable(offer) == offer.extra # "video" /\ offer.pcmu # None /\ Meaning(offer).address # None

(* A StartStream is the description it is sent for; these are none. *)
NoCommand == Refused

StopStream == [Refused EXCEPT !.port = 0]

Silent == [active |-> FALSE, address |-> None, port |-> None, payload_type |-> None, ssrc |-> None]

VARIABLES
    invite,      \* the caller's INVITE that it has no answer to: its offer
    answers,     \* the final responses to it that are on their way
    ack,         \* an ACK is on its way to the dialog
    agreed,      \* what the caller takes to be agreed: what it offered, and
                 \* the payload type it was told
    source,      \* the SSRC the caller sends with: 0, 1, ...
    copies,      \* re-INVITEs of this call that were answered with 200 and
                 \* of which the network has a copy: what they meant
    dialog,      \* the phone's dialog: "Ringing" and "Established" are the
                 \* one of the caller's call, "Other" is any other
    answered,    \* its call context has no ring_deadline
    remote_sdp,  \* of its call context
    outdated,    \* that came in a copy, and is not what was last agreed
                 \* (history)
    command,     \* the last command that the RTP task has not handled: it
                 \* handles them all at once, and each sets all of its state
    rtp,         \* the RTP task
    late         \* since that command it took a packet of an older source
                 \* (history)

asked == <<invite, answers, ack, agreed, source, copies>>
phone == <<dialog, answered, remote_sdp, outdated, command>>
negotiationVars == <<asked, phone, rtp, late>>

NoOffer == Refused

NoSession == [offer |-> Refused, told |-> None]

NegotiationInit ==
    /\ invite = NoOffer /\ answers = {} /\ ack = FALSE
    /\ agreed = NoSession /\ source = 0 /\ copies = {}
    /\ dialog = "Idle" /\ answered = FALSE
    /\ remote_sdp = Refused /\ outdated = FALSE /\ command = NoCommand
    /\ rtp = Silent /\ late = FALSE

Own == dialog \in {"Ringing", "Established"}

(* A caller that has no session waits for one with its first INVITE. *)
Opening == invite # NoOffer /\ agreed = NoSession

(* What the two agree on: with the first INVITE, or a 200, that is new. *)
Current ==
    IF Opening \/ (invite # NoOffer /\ "200" \in answers) THEN Meaning(invite) ELSE agreed.offer

----------------------------------------------------------------------------
(* The SIP task. *)

(* build_local_sdp; the address and the port are the phone's. *)
LocalSdp == [address |-> 0, port |-> 1, payload_type |-> 0]

(* start_rtp_streams_from_ctx *)
StartStreams(sdp) == command' = IF sdp.port = 0 THEN StopStream ELSE sdp

(* on_incoming_initial_invite; the answer is given later. *)
InitialInvite ==
    /\ Opening /\ answers = {} /\ dialog = "Idle"
    /\ dialog' = "Ringing"
    /\ remote_sdp' = Parse(Body(invite))
    /\ UNCHANGED <<asked, answered, outdated, command, rtp, late>>

(* A caller that waits to be let in is refused. *)
Refuse == answers' = IF Opening THEN answers \cup {"4xx"} ELSE answers

(* The first INVITE again, or a re-INVITE that was refused: the caller     *)
(* confirms a refusal that it has, and the ACK has the tag of the dialog.  *)
InitialWhileBusy ==
    /\ Own
    /\ Refuse
    /\ ack' = (ack \/ ~ Opening)
    /\ UNCHANGED <<invite, agreed, source, copies, phone, rtp, late>>

(* Mutant: the provisional response is taken for an answer. *)
HandleAnswerRinging ==
    /\ dialog = "Ringing"
    /\ answers' = IF Opening THEN answers \cup {"180"} ELSE answers
    /\ answered' = TRUE
    /\ UNCHANGED <<invite, ack, agreed, source, copies, dialog, remote_sdp, outdated, command, rtp, late>>

(* handle_answer; a caller that has its answer takes no other. *)
HandleAnswer ==
    /\ dialog = "Ringing"
    /\ answers' = IF Opening THEN answers \cup {"200"} ELSE answers
    /\ answered' = TRUE
    /\ UNCHANGED <<invite, ack, agreed, source, copies, dialog, remote_sdp, outdated, command, rtp, late>>

(* Mutant: the streams are started but the context keeps what it had. *)
ReinviteNotKept ==
    /\ invite # NoOffer /\ ~ Opening /\ Own
    /\ LET sdp == Parse(Body(invite))
       IN  IF sdp = Refused
           THEN answers' = answers \cup {"4xx"} /\ UNCHANGED <<copies, outdated, command>>
           ELSE /\ answers' = answers \cup {"200"}
                /\ copies' \in {copies, copies \cup {sdp}} /\ Cardinality(copies') <= MaxCopies
                /\ outdated' = FALSE
                /\ StartStreams(sdp)
    /\ UNCHANGED <<invite, ack, agreed, source, dialog, answered, remote_sdp, rtp, late>>

(* on_incoming_reinvite, before the ACK that establishes the call perhaps. *)
Reinvite ==
    /\ invite # NoOffer /\ ~ Opening /\ Own
    /\ LET sdp == Parse(Body(invite))
       IN  IF sdp = Refused
           THEN answers' = answers \cup {"4xx"} /\ UNCHANGED <<copies, remote_sdp, outdated, command>>
           ELSE /\ answers' = answers \cup {"200"}
                /\ copies' \in {copies, copies \cup {sdp}} /\ Cardinality(copies') <= MaxCopies
                /\ remote_sdp' = sdp /\ outdated' = FALSE
                /\ StartStreams(sdp)
    /\ UNCHANGED <<invite, ack, agreed, source, dialog, answered, rtp, late>>

(* The same for a copy, however old; its 200 may be confirmed again. *)
LateReinvite(sdp) ==
    /\ Own
    /\ remote_sdp' = sdp /\ outdated' = (sdp # Current)
    /\ StartStreams(sdp)
    /\ ack' \in {ack, TRUE}
    /\ UNCHANGED <<invite, answers, agreed, source, copies, dialog, answered, rtp, late>>

(* An ACK confirms the call or a re-INVITE, or is received again, and      *)
(* every time the streams are started.                                     *)
HandleAck ==
    /\ ack /\ Own
    /\ ack' \in BOOLEAN
    /\ dialog' = "Established"
    /\ StartStreams(remote_sdp)
    /\ UNCHANGED <<invite, answers, agreed, source, copies, answered, remote_sdp, outdated, rtp, late>>

(* The dialog is Terminated, which every INVITE finds as good as Idle.  An *)
(* ACK that finds it does nothing, and the copy of a re-INVITE is an       *)
(* INVITE like any other.                                                  *)
EndCall ==
    /\ dialog' = "Idle" /\ answered' = FALSE
    /\ remote_sdp' = Refused /\ outdated' = FALSE
    /\ command' = StopStream
    /\ ack' = FALSE /\ copies' = {}

(* handle_incoming_bye; before the ACK it does nothing, nor after the end. *)
HandleBye ==
    /\ agreed # NoSession \/ dialog = "Established"
    /\ agreed' = NoSession
    /\ invite' = NoOffer /\ answers' = {}
    /\ IF dialog = "Established" THEN EndCall ELSE UNCHANGED <<ack, copies, phone>>
    /\ UNCHANGED <<source, rtp, late>>

(* handle_incoming_cancel *)
HandleCancel ==
    /\ dialog = "Ringing"
    /\ EndCall
    /\ Refuse
    /\ UNCHANGED <<invite, agreed, source, rtp, late>>

(* check_call_timeouts *)
CheckCallTimeouts ==
    /\ dialog = "Ringing" /\ ~ answered
    /\ EndCall
    /\ Refuse
    /\ UNCHANGED <<invite, agreed, source, rtp, late>>

(* handle_hangup, which tells the caller nothing. *)
HandleHangup ==
    /\ Own /\ answered
    /\ EndCall
    /\ UNCHANGED <<invite, answers, agreed, source, rtp, late>>

----------------------------------------------------------------------------
(* Another dialog: of another caller, or of an INVITE of this caller that  *)
(* finds the phone idle when it is no longer, or not yet, what it was sent *)
(* for.  It has any stream, and what it answers this caller is any answer, *)
(* but that no unacceptable offer is accepted.                             *)

OtherBegins ==
    /\ dialog = "Idle"
    /\ dialog' = "Other"
    /\ UNCHANGED <<asked, answered, remote_sdp, outdated, command, rtp, late>>

Described == {Meaning(offer) : offer \in {o \in Offer : Acceptable(o)}}

OtherStreams(sdp) ==
    /\ dialog = "Other"
    /\ StartStreams(sdp)
    /\ UNCHANGED <<asked, dialog, answered, remote_sdp, outdated, rtp, late>>

OtherAnswers(reply) ==
    /\ dialog = "Other" /\ invite # NoOffer
    /\ reply = "200" => Acceptable(invite)
    /\ answers' = answers \cup {reply}
    /\ UNCHANGED <<invite, ack, agreed, source, copies, phone, rtp, late>>

OtherEnds ==
    /\ dialog = "Other"
    /\ EndCall
    /\ UNCHANGED <<invite, answers, agreed, source, rtp, late>>

----------------------------------------------------------------------------
(* The caller, which asks for one thing at a time. *)

(* A call of its own begins; the dialog of its last call, if there still   *)
(* is one, is another.                                                     *)
Invite(offer) ==
    /\ invite = NoOffer /\ agreed = NoSession
    /\ Acceptable(offer)
    /\ invite' = offer
    /\ answers' = {} /\ ack' = FALSE /\ copies' = {}
    /\ dialog' = IF dialog = "Idle" THEN "Idle" ELSE "Other"
    /\ answered' = FALSE /\ remote_sdp' = Refused /\ outdated' = FALSE
    /\ UNCHANGED <<agreed, source, command, rtp, late>>

(* A re-INVITE. *)
InviteAgain(offer) ==
    /\ invite = NoOffer /\ agreed # NoSession
    /\ invite' = offer
    /\ UNCHANGED <<answers, ack, agreed, source, copies, phone, rtp, late>>

(* What it is told is in the last line of the phone's description.  With   *)
(* what is agreed its stream may begin anew.                               *)
TakeReply(reply) ==
    /\ IF reply = "4xx" THEN UNCHANGED <<agreed, source>>
       ELSE /\ agreed' = [offer |-> Meaning(invite), told |-> Last(Render(LocalSdp)).pt]
            /\ source' \in {source, source + 1} \cap 0 .. MaxSource
    /\ ack' = Own
    /\ invite' = NoOffer /\ answers' = {}
    /\ UNCHANGED <<copies, phone, rtp, late>>

----------------------------------------------------------------------------
(* The RTP task. *)

(* Mutant: the source that was learned is kept. *)
StartedKeepingSource(sdp) ==
    [active |-> TRUE, address |-> sdp.address, port |-> sdp.port,
     payload_type |-> sdp.payload_type, ssrc |-> rtp.ssrc]

(* StartStream; no source is expected before one is learned. *)
Started(sdp) ==
    [active |-> TRUE, address |-> sdp.address, port |-> sdp.port,
     payload_type |-> sdp.payload_type, ssrc |-> None]

HandleCommand ==
    /\ command # NoCommand
    /\ command' = NoCommand
    /\ rtp' = IF command = StopStream THEN Silent ELSE Started(command)
    /\ late' = FALSE
    /\ UNCHANGED <<asked, dialog, answered, remote_sdp, outdated>>

Packet == [address : Address, payload_type : PayloadType, ssrc : 0 .. MaxSource]

(* handle_rx_packet: the address, the payload type and the source are      *)
(* those of the stream, or the source is the first.                        *)
Accepts(p) ==
    /\ rtp.active
    /\ p.address = rtp.address
    /\ p.payload_type = rtp.payload_type
    /\ rtp.ssrc \in {None, p.ssrc}

(* A packet of the caller, late perhaps; one that is not accepted changes  *)
(* nothing.                                                                *)
Receive(p) ==
    /\ p.ssrc <= source
    /\ Accepts(p)
    /\ rtp' = [rtp EXCEPT !.ssrc = p.ssrc]
    /\ late' = (late \/ p.ssrc # source)
    /\ UNCHANGED <<asked, phone>>

----------------------------------------------------------------------------
NegotiationNext ==
    \/ \E offer \in Offer : Invite(offer) \/ InviteAgain(offer)
    \/ \E reply \in answers : TakeReply(reply)
    \/ InitialInvite \/ InitialWhileBusy \/ HandleAnswer \/ Reinvite
    \/ \E sdp \in copies : LateReinvite(sdp)
    \/ HandleAck \/ HandleBye \/ HandleCancel \/ CheckCallTimeouts \/ HandleHangup
    \/ OtherBegins \/ OtherEnds
    \/ \E sdp \in Described : OtherStreams(sdp)
    \/ \E reply \in {"200", "4xx"} : OtherAnswers(reply)
    \/ HandleCommand
    \/ \E p \in Packet : Receive(p)

NegotiationSpec == NegotiationInit /\ [][NegotiationNext]_negotiationVars

----------------------------------------------------------------------------
(* Properties. *)

NegotiationTypeOK ==
    /\ invite \in Offer \cup {NoOffer} /\ answers \subseteq {"200", "4xx"} /\ ack \in BOOLEAN
    /\ source \in 0 .. MaxSource
    /\ agreed.told \in {LocalSdp.payload_type, None}
    /\ copies \subseteq Described
    /\ dialog \in {"Idle", "Ringing", "Established", "Other"}
    /\ answered \in BOOLEAN /\ outdated \in BOOLEAN
    /\ remote_sdp.port \in Port \cup {None} /\ command.port \in Port \cup {0, None}
    /\ rtp.ssrc \in None .. MaxSource
    /\ late \in BOOLEAN

(* Reading line by line, each outweighing those before, gives what the     *)
(* caller means, and refuses what the phone has no use for.                *)
ReadsWhatIsMeant ==
    invite # NoOffer =>
        Parse(Body(invite)) = IF Acceptable(invite) THEN Meaning(invite) ELSE Refused

(* All that was sent has arrived, and was handled, but for copies. *)
Quiet == invite = NoOffer /\ ~ ack /\ command = NoCommand

(* The call is up on both sides. *)
Connected == dialog = "Established" /\ agreed # NoSession

(* When nothing is under way and the phone has no call it sends nothing,   *)
(* whichever side ended the last one and in whatever state.  In a call it  *)
(* sends where and what the caller takes to be agreed: after re-INVITEs    *)
(* that were refused or came before the ACK, after hold, and after copies  *)
(* of the first INVITE, of the last re-INVITE and of ACKs.  Not so while a *)
(* late copy of an older re-INVITE is not followed by a new one; when the  *)
(* phone has hung up, which the caller is not told; and when the caller    *)
(* took a 486 that a copy of its INVITE was answered with.                 *)
SendsAsAgreed ==
    Quiet =>
        /\ dialog = "Idle" => ~ rtp.active
        /\ Connected /\ ~ outdated =>
               /\ rtp.active <=> agreed.offer.port # 0
               /\ rtp.active => agreed.offer = [address |-> rtp.address, port |-> rtp.port,
                                                payload_type |-> rtp.payload_type]

Voice == [address |-> agreed.offer.address, payload_type |-> agreed.told, ssrc |-> source]

(* ... and it hears the caller, whose stream may have begun anew with each *)
(* answer, unless a packet of an older one came since.  PCMU has to have   *)
(* the payload type that the phone gives it: it tells the caller 0, but    *)
(* listens for the one that was offered.                                   *)
HearsAsAgreed ==
    /\ Quiet /\ Connected /\ ~ outdated /\ ~ late
    /\ agreed.offer.port # 0 /\ agreed.told = agreed.offer.payload_type
    => Accepts(Voice)
=============================================================================
