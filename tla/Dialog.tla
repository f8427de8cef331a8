------------------------------- MODULE Dialog -------------------------------
(***************************************************************************)
(* The call dialog of sip_core (the UAS side, the one the phone uses), as  *)
(* operators on a dialog record: what an INVITE is classified as, which    *)
(* requests match the dialog, and the tag a response carries.              *)
(*                                                                         *)
(* A request is what the code reads of it: its Call-ID, its CSeq number    *)
(* and its To tag.  The From tag is a property of the caller, who uses one *)
(* Call-ID and one From tag for a call: remote_tag is the Call-ID's, and   *)
(* Untagged are the calls of callers whose From has no tag at all.         *)
(* CompactVia are the calls whose requests carry Via in its compact form,  *)
(* which header_value does not find: no response can be built for them.    *)
(***************************************************************************)
EXTENDS InviteServerTx

CONSTANTS
    NoCall,      \* no dialog, no stream
    Untagged,    \* the calls whose From has no tag
    CompactVia   \* the calls whose Via is written "v:"

ASSUME CallerAssumption ==
    /\ NoCall \notin CallId
    /\ Untagged \subseteq CallId
    /\ CompactVia \subseteq CallId

NoTag == 0      \* the empty local_tag, and a To header without a tag
OneOffTag == -1 \* a tag allocated for one response and stored nowhere

Request == [call_id : CallId, cseq : Nat, to_tag : Nat \cup {OneOffTag}]

NoRequest == [call_id |-> NoCall, cseq |-> 0, to_tag |-> NoTag]

DialogState == {"Idle", "Ringing", "Established", "Terminated"}

IdleDialog ==
    [state |-> "Idle", call_id |-> NoCall, local_tag |-> NoTag,
     original_invite |-> NoRequest]

TerminatedDialog == [IdleDialog EXCEPT !.state = "Terminated"]

RingingDialog(req) ==
    [state |-> "Ringing", call_id |-> req.call_id, local_tag |-> NoTag,
     original_invite |-> req]

Live(d) == d.state \in {"Ringing", "Established"}

----------------------------------------------------------------------------
(* Responses.  "fresh" is the tag that allocate_tag returns next. *)

Buildable(req) == req.call_id \notin CompactVia

Belongs(d, req) == Live(d) /\ d.call_id = req.call_id

TakesTag(d, req) ==
    Buildable(req) /\ req.to_tag = NoTag /\ Belongs(d, req) /\ d.local_tag = NoTag

AfterResponse(d, req, fresh) ==
    IF TakesTag(d, req) THEN [d EXCEPT !.local_tag = fresh] ELSE d

(* Mutant: every response without a To tag gets a tag of its own. *)
ResponseTagOneOff(d, req, fresh) ==
    IF req.to_tag # NoTag THEN req.to_tag ELSE OneOffTag

ResponseTag(d, req, fresh) ==
    IF req.to_tag # NoTag THEN req.to_tag
    ELSE IF Belongs(d, req) THEN AfterResponse(d, req, fresh).local_tag
    ELSE OneOffTag

----------------------------------------------------------------------------
(* INVITE *)

InDialog(d, req) ==
    /\ Belongs(d, req)
    /\ d.local_tag \in {NoTag, req.to_tag}

(* Mutant: the check that no other call is in progress is missing. *)
InviteKindNeverBusy(d, req) ==
    IF req.call_id \notin Untagged /\ InDialog(d, req) THEN "Reinvite" ELSE "Initial"

InviteKind(d, req) ==
    IF req.call_id \in Untagged THEN "Initial"
    ELSE IF InDialog(d, req) THEN "Reinvite"
    ELSE IF Live(d) THEN "InitialWhileBusy"
    ELSE "Initial"

AfterInvite(d, req) ==
    IF InviteKind(d, req) = "Initial" /\ req.call_id \notin Untagged
    THEN RingingDialog(req)
    ELSE d

----------------------------------------------------------------------------
(* CANCEL, ACK and BYE: the request belongs to the dialog and finds it in  *)
(* a state where it means something.  An untagged caller never has a       *)
(* dialog, so the From tags need no comparison beyond the Call-ID's.       *)

CancelMatches(d, call) == d.state = "Ringing" /\ d.call_id = call

AckMatches(d, call, to_tag) == Live(d) /\ d.call_id = call /\ d.local_tag = to_tag

AfterAck(d) == [d EXCEPT !.state = "Established", !.original_invite = NoRequest]

ByeMatches(d, call, to_tag) ==
    d.state = "Established" /\ d.call_id = call /\ d.local_tag = to_tag
=============================================================================
